----------------------------- MODULE DriBackend -----------------------------
(***************************************************************************)
(* The choice of a DRI backend (backend.c) and what the two of them keep:  *)
(* DRI3 nothing but a file descriptor (dri3.c), DRI2 a GL context and a    *)
(* list of pixmaps per backend, and one EGL display for the whole process  *)
(* with a count of its users (dri2.c).                                     *)
(*                                                                         *)
(* A backend belongs to an adapter group and serves every presentation     *)
(* object of it.  The display and its count are read and written without a *)
(* lock, by the threads of all devices: dri2_init and dri2_deinit go step  *)
(* by step, and the calls of two devices may overlap.  PresentGroup says   *)
(* when they are made.  Left out: the requests to the X server, GL, and    *)
(* the handle of libEGL.                                                   *)
(***************************************************************************)
EXTENDS Integers, FiniteSets

CONSTANTS
  Devices,      \* each with a thread of its own
  Usable,       \* backends the server has and D3D_BACKEND allows, of "dri3", "dri2"
  Backends,     \* backends there can be at a time, one for each group
  Buffers,      \* window buffers there can be
  Failures,     \* calls that may fail, here "create", "display", "init"
  Overlap       \* bound: whether two devices may be in dri2_init and dri2_deinit
                \* at the same time, as they may in the code

ASSUME UsableAssumption == Usable \subseteq {"dri3", "dri2"} /\ Overlap \in BOOLEAN

VARIABLES
  display,      \* the static EGLDisplay: "none", or whether it is "up" or "down"
  displayRef,   \* display_ref
  context,      \* backends whose p->context is alive
  call,         \* where the thread of a device is in dri2_init or dri2_deinit
  kind,         \* dri_backend->funcs, "none" without a backend
  pixmaps,      \* first_dri2_priv: the buffers on the list
  (* history *)
  doubled,      \* DRI2 backends in use that had two users
  spoiled,      \* DRI2 backends in use that lost the display to a failed init
  overlapped    \* two such calls were on their way at the same time

eglVars == <<display, displayRef, context, call>>
pastVars == <<doubled, spoiled, overlapped>>
backendVars == <<eglVars, kind, pixmaps, pastVars>>

InitSteps == {"count", "initialize", "context"}
DeinitSteps == {"uncount", "terminate"}

BackendTypeOK ==
  /\ display \in {"none", "down", "up"}
  /\ displayRef \in Int /\ (~overlapped => displayRef >= 0)
  /\ call \in [Devices -> {"none"} \cup InitSteps \cup DeinitSteps]
  /\ kind \in [Backends -> {"none", "dri3", "dri2"}]
  /\ context \subseteq Backends
  /\ pixmaps \in [Backends -> SUBSET Buffers]
  /\ doubled \subseteq Backends /\ spoiled \subseteq Backends
  /\ overlapped \in BOOLEAN

BackendInit ==
  /\ display = "none" /\ displayRef = 0
  /\ call = [d \in Devices |-> "none"]
  /\ kind = [b \in Backends |-> "none"]
  /\ context = {}
  /\ pixmaps = [b \in Backends |-> {}]
  /\ doubled = {} /\ spoiled = {} /\ overlapped = FALSE

Idle(d) == call[d] = "none"
Goes(d, step) == call' = [call EXCEPT ![d] = step]

\* Device d enters one of the two calls.
Enters(d, step) ==
  LET beside == \E e \in Devices \ {d} : ~Idle(e)
  IN /\ Idle(d) /\ (beside => Overlap)
     /\ Goes(d, step)
     /\ overlapped' = (overlapped \/ beside)

\* display_ref++ and display_ref--: what one of two threads that change the
\* count at the same time stores may be lost.
Counts(d, n) ==
  displayRef' \in {displayRef + n} \cup
    {m \in {displayRef} : \E e \in Devices \ {d} : call[e] \in {"count", "uncount"}}

---------------------------------------------------------------------------
(* dri2_init *)

\* There is a display, or it is asked for.
GetDisplay(d) ==
  /\ Enters(d, "count")
  /\ display' = IF display = "none" THEN "down" ELSE display
  /\ UNCHANGED <<displayRef, context>>

CountDisplay(d) ==
  /\ call[d] = "count" /\ Counts(d, 1)
  /\ Goes(d, "initialize")
  /\ UNCHANGED <<display, context>>

InitializeDisplay(d) ==
  /\ call[d] = "initialize" /\ display # "none"
  /\ display' = "up"
  /\ Goes(d, "context")
  /\ UNCHANGED <<displayRef, context>>

\* The context of backend b takes the place of one it has; used are the
\* backends that other presentation objects have.
CreateContext(d, b, used) ==
  /\ call[d] = "context" /\ display = "up"
  /\ context' = context \cup {b}
  /\ Goes(d, "none")
  /\ doubled' = doubled \cup ({b} \cap used)
  /\ UNCHANGED <<display, displayRef, spoiled, overlapped>>

\* clean_egl_display: a call fails, as all do without a display, and
\* eglTerminate ends every context on it.  The count is not taken back.
InitFails(d, used) ==
  /\ \/ call[d] \in {"initialize", "context"} /\ "init" \in Failures
     \/ call[d] = "initialize" /\ display = "none"
     \/ call[d] = "context" /\ display # "up"
  /\ display' = IF display = "none" THEN "none" ELSE "down"
  /\ context' = {}
  /\ Goes(d, "none")
  /\ spoiled' = {b \in used : kind[b] = "dri2"}
  /\ UNCHANGED <<displayRef, doubled, overlapped>>

---------------------------------------------------------------------------
(* dri2_deinit *)

\* What is on the list is destroyed, whoever it belongs to, and the context.
DestroyContext(d, b, used) ==
  /\ Enters(d, "uncount")
  /\ pixmaps' = [pixmaps EXCEPT ![b] = {}]
  /\ context' = context \ {b}
  /\ doubled' = doubled \cap used /\ spoiled' = spoiled \cap used
  /\ UNCHANGED <<display, displayRef>>

\* Mutant: the display goes with any device.
UncountAlways(d) ==
  /\ call[d] = "uncount" /\ Counts(d, -1)
  /\ Goes(d, "terminate")
  /\ UNCHANGED <<display, context>>

Uncount(d) ==
  /\ call[d] = "uncount"
  /\ IF display = "none" THEN Goes(d, "none") /\ UNCHANGED displayRef
     ELSE /\ Counts(d, -1)
          /\ Goes(d, IF displayRef = 1 THEN "terminate" ELSE "none")
  /\ UNCHANGED <<display, context>>

\* The display goes with its last user.
TerminateDisplay(d) ==
  /\ call[d] = "terminate"
  /\ display' = "none" /\ context' = {}
  /\ Goes(d, "none")
  /\ UNCHANGED displayRef

---------------------------------------------------------------------------
\* The order of the array: DRI3 first.
Preferred(kinds) == IF "dri3" \in kinds THEN "dri3" ELSE "dri2"

\* The backends that backend_create may come to: the first one, or a later
\* one when the creation of those before fails.
Creatable ==
  IF "create" \in Failures THEN Usable \cup {"none"}
  ELSE IF Usable = {} THEN {"none"} ELSE {Preferred(Usable)}

\* backend_probe: a backend is created, initialised and destroyed, but not
\* deinitialised.  There are no devices yet, and dri2_init is one step; so is
\* that of DRI3, which does nothing.
backend_probe(found) ==
  \E k \in Creatable :
    CASE k = "none" -> ~found /\ UNCHANGED eglVars
      [] k = "dri3" -> found /\ UNCHANGED eglVars
      [] k = "dri2" ->
           /\ \/ /\ found \/ "init" \in Failures
                 /\ displayRef' = displayRef + 1
                 /\ display' = IF found THEN "up" ELSE "down"
              \/ ~found /\ "display" \in Failures /\ UNCHANGED <<display, displayRef>>
           /\ UNCHANGED <<context, call>>

backend_create(b, k) ==
  /\ k \in Creatable
  /\ kind' = [kind EXCEPT ![b] = k]
  /\ context' = context \ {b}
  /\ pixmaps' = [pixmaps EXCEPT ![b] = {}]

\* The memory of backends bs is freed, with whatever they have.
backend_destroy(bs) == kind' = [b \in Backends |-> IF b \in bs THEN "none" ELSE kind[b]]

\* Buffer p is made.  dri2_present succeeds without a context, too.
window_buffer_from_dmabuf(b, p) ==
  pixmaps' = IF kind[b] = "dri2" THEN [pixmaps EXCEPT ![b] = @ \cup {p}] ELSE pixmaps

\* A buffer that is not on the list sends the walk past its end: there is no
\* step then, the process is dead.
destroy_pixmap(b, p) ==
  /\ kind[b] = "dri2" => p \in pixmaps[b]
  /\ pixmaps' = [pixmaps EXCEPT ![b] = @ \ {p}]
=============================================================================
