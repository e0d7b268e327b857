----------------------------- MODULE XcbPresent -----------------------------
(***************************************************************************)
(* The PRESENT backend of a device (src/d3d9-nine/xcb_present.c) and the   *)
(* calls present.c makes to it.  The threads are those of the driver: they *)
(* present buffers, wait for buffers, poll them and destroy them, all on   *)
(* one PRESENTpriv, and share its special event queue under two locks:     *)
(*   mutex_present   the fields of PRESENTpriv and PRESENTPixmapPriv;      *)
(*   mutex_xcb_wait  held by the one thread that waits for an event        *)
(*                   without mutex_present; `xcb_wait' is set until it     *)
(*                   has mutex_present again.                              *)
(* A step of the model is what a thread does between two points where      *)
(* another thread, or the server, can make a difference.  The linked list  *)
(* of pixmaps is the set `listed': its order decides nothing.              *)
(***************************************************************************)
EXTENDS XServerPresent

CONSTANTS
  Threads,               \* threads of the driver
  NoThread,              \* owner of a free lock
  ParallelWaits,         \* may two threads wait for events at a time
  Calls                  \* which of CallNames a thread makes

CallNames == {"init", "create", "free", "present", "wait", "event", "poll", "destroy"}

ASSUME ThreadAssumption ==
  /\ NoThread \notin Threads
  /\ Calls \in [Threads -> SUBSET CallNames]
  /\ ParallelWaits \in BOOLEAN

VARIABLES
  (* PRESENTpriv; special_event is `special' of XServerPresent *)
  device,                \* the PRESENTpriv: "absent", "live", or "closing" in PRESENTDestroy
  window,
  listed,                \* the list first_present_priv
  pending,               \* pixmap_present_pending
  idleSince,             \* idle_notify_since_last_check
  notifySerial,          \* notify_with_serial_pending
  lastGeom,              \* last_x, last_y, last_width, last_height
  winUpdated,            \* win_updated
  (* PRESENTPixmapPriv *)
  released,
  completePending,       \* present_complete_pending
  lastFlip,              \* last_present_was_flip
  (* locks *)
  mutexPresent, mutexXcbWait, xcbWait,
  contextSection,        \* present.c's lock on the drawables
  (* threads *)
  handle,                \* buffers the driver has a D3DWindowBuffer for
  pc, buf, dest,         \* where a thread is, its buffer, its window
  hand,                  \* event read and not yet handled
  todo                   \* pixmaps the loop of PRESENTForceReleases is to see

eventVars == <<pending, idleSince, notifySerial, lastGeom, winUpdated,
               released, completePending, lastFlip>>
deviceVars == <<device, window, listed, handle>>
lockVars == <<mutexPresent, mutexXcbWait, xcbWait, contextSection>>
argVars == <<buf, dest, hand, todo>>
vars == <<serverVars, eventVars, deviceVars, lockVars, pc, argVars>>

WaitPCs == {"wait", "wflush", "check", "behind", "sleep", "xcb", "got"}
ForcePCs == {"force", "handshake", "drain1", "d1flush", "serial", "drain",
             "dflush", "walk", "forced", "fflush"}
PresentPCs == {"prepare", "change", "select", "pflush", "pixmap"}
PCs == {"idle", "rflush", "free"} \cup WaitPCs \cup ForcePCs \cup PresentPCs

EventTypeOK ==
  /\ pending \in Int
  /\ idleSince \in BOOLEAN
  /\ notifySerial \in BOOLEAN
  /\ lastGeom \in Geoms
  /\ winUpdated \in BOOLEAN
  /\ released \in [Pixmaps -> BOOLEAN]
  /\ completePending \in [Pixmaps -> Int]
  /\ lastFlip \in [Pixmaps -> BOOLEAN]

DeviceTypeOK ==
  /\ device \in {"absent", "live", "closing"}
  /\ window \in Windows \cup {NoWindow}
  /\ listed \subseteq Pixmaps
  /\ handle \subseteq Pixmaps

LockTypeOK ==
  /\ mutexPresent \in Threads \cup {NoThread}
  /\ mutexXcbWait \in Threads \cup {NoThread}
  /\ xcbWait \in BOOLEAN
  /\ contextSection \in Threads \cup {NoThread}

ThreadTypeOK ==
  /\ pc \in [Threads -> PCs]
  /\ buf \in [Threads -> Pixmaps \cup {NoPixmap}]
  /\ dest \in [Threads -> Windows \cup {NoWindow}]
  /\ hand \in [Threads -> Events]
  /\ todo \in [Threads -> SUBSET Pixmaps]

TypeOK == ServerTypeOK /\ EventTypeOK /\ DeviceTypeOK /\ LockTypeOK /\ ThreadTypeOK

Init ==
  /\ ServerInit
  /\ device = "absent"
  /\ window = NoWindow
  /\ listed = {}
  /\ pending = 0
  /\ idleSince = FALSE
  /\ notifySerial = FALSE
  /\ winUpdated = FALSE
  /\ released = [p \in Pixmaps |-> FALSE]
  /\ completePending = [p \in Pixmaps |-> 0]
  /\ lastFlip = [p \in Pixmaps |-> FALSE]
  /\ xcbWait = FALSE
  /\ lastGeom \in Geoms
  /\ mutexPresent = NoThread
  /\ mutexXcbWait = NoThread
  /\ contextSection = NoThread
  /\ handle = {}
  /\ pc = [t \in Threads |-> "idle"]
  /\ buf = [t \in Threads |-> NoPixmap]
  /\ dest = [t \in Threads |-> NoWindow]
  /\ hand = [t \in Threads |-> NullEvent]
  /\ todo = [t \in Threads |-> {}]

Goto(t, l) == pc' = [pc EXCEPT ![t] = l]
Acquire(t) == mutexPresent = NoThread /\ mutexPresent' = t
Release == mutexPresent' = NoThread

---------------------------------------------------------------------------
(* Events. *)

\* PRESENTFindPixmapPriv, and the ignored events of "another instance".
Completes(e, p) == p \in listed /\ \E m \in Modes \cup {"copy"} : e = CompleteEvent(p, m)
Idles(e, p) == p \in listed /\ e = IdleEvent(p)
Configures(e) == e.type = "configure" /\ e.win = window

\* Mutant: a flip is not recorded.
FlipForgotten(e, p) == lastFlip[p] /\ ~(Completes(e, p) /\ e.mode = "copy")

\* last_present_was_flip; a skipped presentation leaves it alone.
FlipAfter(e, p) ==
  /\ lastFlip[p] \/ (Completes(e, p) /\ e.mode = "flip")
  /\ ~(Completes(e, p) /\ e.mode = "copy")

PRESENThandle_events(e) ==
  /\ notifySerial' = (notifySerial /\ e # NotifyEvent(1))
  /\ completePending' = [p \in Pixmaps |->
       IF Completes(e, p) THEN completePending[p] - 1 ELSE completePending[p]]
  /\ pending' = IF \E p \in Pixmaps : Completes(e, p) THEN pending - 1 ELSE pending
  /\ lastFlip' = [p \in Pixmaps |-> FlipAfter(e, p)]
  /\ released' = [p \in Pixmaps |-> released[p] \/ Idles(e, p)]
  /\ idleSince' = (idleSince \/ \E p \in Pixmaps : Idles(e, p))
  /\ lastGeom' = IF Configures(e) THEN e.geom ELSE lastGeom
  /\ winUpdated' = (winUpdated \/ Configures(e))

\* PRESENTflush_events handles one event after the other; a caller in
\* PRESENTForceReleases asserts that no other thread waits.
AssertingFlushes == {"dflush", "d1flush", "fflush"}
Flushes == AssertingFlushes \cup {"pflush", "wflush", "rflush"}

\* Mutant: a flush steals the event another thread waits for.
MayFlushAlways(t) == special # NoWindow

MayFlush(t) ==
  /\ special # NoWindow
  /\ xcbWait => pc[t] \in AssertingFlushes

FlushEvent(t) ==
  /\ pc[t] \in Flushes
  /\ MayFlush(t)
  /\ queue # <<>>
  /\ queue' = Tail(queue)
  /\ PRESENThandle_events(Head(queue))
  /\ UNCHANGED <<special, requestVars, windowVars, deviceVars, lockVars, pc, argVars>>

FlushDone(t) == MayFlush(t) => queue = <<>>

\* PRESENTwait_events(present_priv, FALSE); the loops of
\* PRESENTForceReleases do not look at its result.
WaitEvent ==
  /\ Receive
  /\ PRESENThandle_events(Received)
  /\ UNCHANGED <<special, requestVars, windowVars, deviceVars, lockVars, argVars>>

---------------------------------------------------------------------------
(* The device and its pixmaps. *)

\* Without a device its fields hold what HEAP_ZERO_MEMORY will give them.
PRESENTInit(t) ==
  /\ pc[t] = "idle"
  /\ device = "absent"
  /\ device' = "live"
  /\ connected' = TRUE
  /\ UNCHANGED <<special, queue, requestVars, alive, geom, eventVars, window, listed,
                 handle, lockVars, pc, argVars>>

PRESENTPixmapInit(t, p) ==
  /\ pc[t] = "idle"
  /\ device = "live"
  /\ mutexPresent = NoThread
  /\ p \notin listed
  /\ listed' = listed \cup {p}
  /\ handle' = handle \cup {p}
  /\ released' = [released EXCEPT ![p] = TRUE]
  /\ completePending' = [completePending EXCEPT ![p] = 0]
  /\ lastFlip' = [lastFlip EXCEPT ![p] = FALSE]
  /\ UNCHANGED <<serverVars, pending, idleSince, notifySerial, lastGeom, winUpdated,
                 device, window, lockVars, pc, argVars>>

\* No call is in progress on the buffer.
Unused(p) == \A t \in Threads : buf[t] # p

\* Mutants: either half of the condition is forgotten.
FreeableIdle(p) == released[p]
FreeableComplete(p) == completePending[p] = 0

Freeable(p) == released[p] /\ completePending[p] = 0

\* DRIPresent_DestroyD3DWindowBuffer; a pixmap the server still has stays
\* in the list.
PRESENTTryFreePixmap(t, p) ==
  /\ pc[t] = "idle"
  /\ p \in handle
  /\ Unused(p)
  /\ mutexPresent = NoThread
  /\ handle' = handle \ {p}
  /\ listed' = IF Freeable(p) THEN listed \ {p} ELSE listed
  /\ UNCHANGED <<serverVars, eventVars, device, window, lockVars, pc, argVars>>

---------------------------------------------------------------------------
(* PRESENTForceReleases, called with mutex_present held. *)

ForceBegin(t) ==
  /\ pc[t] = "force"
  /\ window # NoWindow
  /\ IF xcbWait
       THEN /\ notifyOwed' = IF window \in alive THEN notifyOwed \cup {<<window, 0>>}
                             ELSE notifyOwed
            /\ Goto(t, "handshake")
       ELSE /\ Goto(t, "drain")
            /\ UNCHANGED notifyOwed
  /\ UNCHANGED <<special, queue, held, heldOn, forcedOwed, windowVars, eventVars,
                 deviceVars, lockVars, argVars>>

\* Mutant: mutex_xcb_wait is not taken.
ForceNoHandshake(t) ==
  /\ pc[t] = "handshake"
  /\ Goto(t, "drain1")
  /\ UNCHANGED <<serverVars, eventVars, deviceVars, lockVars, argVars>>

\* EnterCriticalSection(mutex_xcb_wait): the waiting thread has its event.
ForceHandshake(t) ==
  /\ pc[t] = "handshake"
  /\ mutexXcbWait = NoThread
  /\ Goto(t, "drain1")
  /\ UNCHANGED <<serverVars, eventVars, deviceVars, lockVars, argVars>>

ForceDrain(t) ==
  \/ /\ \/ pc[t] = "drain" /\ pending # 0
        \/ pc[t] = "drain1" /\ pending >= 2
        \/ pc[t] = "serial" /\ notifySerial
     /\ WaitEvent
     /\ UNCHANGED pc
  \/ /\ \/ pc[t] = "drain" /\ pending = 0 /\ Goto(t, "dflush")
        \/ pc[t] = "drain1" /\ pending < 2 /\ Goto(t, "d1flush")
     /\ UNCHANGED <<serverVars, eventVars, deviceVars, lockVars, argVars>>

ForceNotify(t) ==
  /\ pc[t] = "d1flush"
  /\ FlushDone(t)
  /\ notifySerial' = TRUE
  /\ notifyOwed' = IF window \in alive THEN notifyOwed \cup {<<window, 1>>} ELSE notifyOwed
  /\ Goto(t, "serial")
  /\ UNCHANGED <<special, queue, held, heldOn, forcedOwed, windowVars, pending, idleSince,
                 lastGeom, winUpdated, released, completePending, lastFlip, deviceVars,
                 lockVars, argVars>>

ForceWalk(t) ==
  /\ \/ pc[t] = "dflush" /\ FlushDone(t)
     \/ pc[t] = "serial" /\ ~notifySerial
  /\ todo' = [todo EXCEPT ![t] = listed]
  /\ Goto(t, "walk")
  /\ UNCHANGED <<serverVars, eventVars, deviceVars, lockVars, buf, dest, hand>>

\* The pixmap nobody can explain is skipped with an error message.
Unexplained(p) == ~released[p] /\ ~lastFlip[p] /\ ~xcbWait

\* Mutant: the request is not sent (xcb_flush left out).
ForcePixmapUnsent(t, p) ==
  /\ pc[t] = "walk"
  /\ p \in todo[t]
  /\ ~released[p]
  /\ todo' = [todo EXCEPT ![t] = @ \ {p}]
  /\ IF Unexplained(p)
       THEN UNCHANGED <<pc, forcedOwed>>
       ELSE /\ UNCHANGED forcedOwed
            /\ Goto(t, "forced")
  /\ UNCHANGED <<special, queue, held, heldOn, notifyOwed, windowVars, eventVars,
                 deviceVars, lockVars, buf, dest, hand>>

ForcePixmap(t, p) ==
  /\ pc[t] = "walk"
  /\ p \in todo[t]
  /\ ~released[p]
  /\ todo' = [todo EXCEPT ![t] = @ \ {p}]
  /\ IF Unexplained(p)
       THEN UNCHANGED <<pc, forcedOwed>>
       ELSE /\ forcedOwed' = IF window \in alive THEN forcedOwed \cup {<<p, window>>}
                             ELSE forcedOwed
            /\ Goto(t, "forced")
  /\ UNCHANGED <<special, queue, held, heldOn, notifyOwed, windowVars, eventVars,
                 deviceVars, lockVars, buf, dest, hand>>

\* Mutant: only what has already arrived is handled.
ForceNoWait(t) ==
  \/ /\ pc[t] = "forced"
     /\ Goto(t, "fflush")
     /\ UNCHANGED <<serverVars, eventVars, deviceVars, lockVars, argVars>>
  \/ /\ pc[t] = "fflush"
     /\ FlushDone(t)
     /\ Goto(t, "walk")
     /\ UNCHANGED <<serverVars, eventVars, deviceVars, lockVars, argVars>>

ForceWait(t) ==
  \/ /\ pc[t] = "forced"
     /\ WaitEvent
     /\ Goto(t, "fflush")
  \/ /\ pc[t] = "fflush"
     /\ FlushDone(t)
     /\ Goto(t, "walk")
     /\ UNCHANGED <<serverVars, eventVars, deviceVars, lockVars, argVars>>

\* The return, to PRESENTDestroy or to PRESENTPrivChangeWindow.
ForceEnd(t) ==
  /\ \/ pc[t] = "force" /\ window = NoWindow
     \/ pc[t] = "walk" /\ \A p \in todo[t] : released[p]
  /\ todo' = [todo EXCEPT ![t] = {}]
  /\ Goto(t, IF device = "closing" THEN "free" ELSE "change")
  /\ UNCHANGED <<serverVars, eventVars, deviceVars, lockVars, buf, dest, hand>>

---------------------------------------------------------------------------
(* DRIPresent_PresentBuffer: PRESENTPixmapPrepare, then PRESENTPixmap, with *)
(* context_section held and mutex_present released in between.             *)

\* Mutant: the drawable is not locked.
BeginPresentUnlocked(t, p, w) ==
  /\ pc[t] = "idle"
  /\ p \in handle
  /\ Unused(p)
  /\ contextSection' = t
  /\ winUpdated' = FALSE
  /\ buf' = [buf EXCEPT ![t] = p]
  /\ dest' = [dest EXCEPT ![t] = w]
  /\ Goto(t, "prepare")
  /\ UNCHANGED <<serverVars, pending, idleSince, notifySerial, lastGeom, released,
                 completePending, lastFlip, deviceVars, mutexPresent, mutexXcbWait,
                 xcbWait, hand, todo>>

BeginPresentBuffer(t, p, w) ==
  /\ pc[t] = "idle"
  /\ p \in handle
  /\ Unused(p)
  /\ contextSection = NoThread
  /\ contextSection' = t
  /\ winUpdated' = FALSE
  /\ buf' = [buf EXCEPT ![t] = p]
  /\ dest' = [dest EXCEPT ![t] = w]
  /\ Goto(t, "prepare")
  /\ UNCHANGED <<serverVars, pending, idleSince, notifySerial, lastGeom, released,
                 completePending, lastFlip, deviceVars, mutexPresent, mutexXcbWait,
                 xcbWait, hand, todo>>

\* Mutant: the window is changed without PRESENTForceReleases.
PrepareUnforced(t) ==
  /\ pc[t] = "prepare"
  /\ Acquire(t)
  /\ Goto(t, IF dest[t] # window THEN "change" ELSE "pflush")
  /\ UNCHANGED <<serverVars, eventVars, deviceVars, mutexXcbWait, xcbWait,
                 contextSection, argVars>>

PRESENTPixmapPrepare(t) ==
  /\ pc[t] = "prepare"
  /\ Acquire(t)
  /\ Goto(t, IF dest[t] # window THEN "force" ELSE "pflush")
  /\ UNCHANGED <<serverVars, eventVars, deviceVars, mutexXcbWait, xcbWait,
                 contextSection, argVars>>

\* Mutant: the pixmap's XID is taken for the window's.
ChangeWindowToPixmap(t) ==
  /\ pc[t] = "change"
  /\ special' = NoWindow
  /\ queue' = <<>>
  /\ IF dest[t] \in alive /\ connected
       THEN /\ window' = buf[t]
            /\ lastGeom' = geom[dest[t]]
            /\ winUpdated' = TRUE
            /\ Goto(t, "select")
       ELSE /\ window' = NoWindow
            /\ Goto(t, "pflush")
            /\ UNCHANGED <<lastGeom, winUpdated>>
  /\ UNCHANGED <<requestVars, windowVars, pending, idleSince, notifySerial, released,
                 completePending, lastFlip, device, listed, handle, lockVars, argVars>>

\* PRESENTFreeXcbQueue and the window's geometry.
PRESENTPrivChangeWindow(t) ==
  /\ pc[t] = "change"
  /\ special' = NoWindow
  /\ queue' = <<>>
  /\ IF dest[t] \in alive /\ connected
       THEN /\ window' = dest[t]
            /\ lastGeom' = geom[dest[t]]
            /\ winUpdated' = TRUE
            /\ Goto(t, "select")
       ELSE /\ window' = NoWindow
            /\ Goto(t, "pflush")
            /\ UNCHANGED <<lastGeom, winUpdated>>
  /\ UNCHANGED <<requestVars, windowVars, pending, idleSince, notifySerial, released,
                 completePending, lastFlip, device, listed, handle, lockVars, argVars>>

\* xcb_present_select_input and the registration of the queue.
ChangeWindowSelect(t) ==
  /\ pc[t] = "select"
  /\ IF window \in alive /\ connected
       THEN special' = window /\ UNCHANGED window
       ELSE window' = NoWindow /\ UNCHANGED special
  /\ Goto(t, "pflush")
  /\ UNCHANGED <<queue, requestVars, windowVars, eventVars, device, listed, handle,
                 lockVars, argVars>>

\* Mutant: a pixmap that is not released is presented.
PrepareUnchecked(t) ==
  /\ pc[t] = "pflush"
  /\ FlushDone(t)
  /\ Release
  /\ Goto(t, "pixmap")
  /\ UNCHANGED <<serverVars, eventVars, deviceVars, mutexXcbWait, xcbWait,
                 contextSection, argVars>>

\* The result of PRESENTPrivChangeWindow is not looked at.  The refusal of a
\* NULL window is left out: PresentBuffer names the drawable of a window.
PrepareEnd(t) ==
  /\ pc[t] = "pflush"
  /\ FlushDone(t)
  /\ Release
  /\ IF released[buf[t]]
       THEN /\ Goto(t, "pixmap")
            /\ UNCHANGED <<contextSection, buf, dest>>
       ELSE /\ Goto(t, "idle")
            /\ contextSection' = NoThread
            /\ buf' = [buf EXCEPT ![t] = NoPixmap]
            /\ dest' = [dest EXCEPT ![t] = NoWindow]
  /\ UNCHANGED <<serverVars, eventVars, deviceVars, mutexXcbWait, xcbWait, hand, todo>>

PRESENTPixmap(t) ==
  LET p == buf[t] IN
  /\ pc[t] = "pixmap"
  /\ mutexPresent = NoThread
  /\ IF dest[t] \in alive /\ connected
       THEN /\ held' = [held EXCEPT ![p] = "pending"]
            /\ heldOn' = [heldOn EXCEPT ![p] = dest[t]]
            /\ pending' = pending + 1
            /\ completePending' = [completePending EXCEPT ![p] = @ + 1]
            /\ released' = [released EXCEPT ![p] = FALSE]
       ELSE UNCHANGED <<held, heldOn, pending, completePending, released>>
  /\ Goto(t, "idle")
  /\ contextSection' = NoThread
  /\ buf' = [buf EXCEPT ![t] = NoPixmap]
  /\ dest' = [dest EXCEPT ![t] = NoWindow]
  /\ UNCHANGED <<special, queue, notifyOwed, forcedOwed, windowVars, idleSince,
                 notifySerial, lastGeom, winUpdated, lastFlip, deviceVars, mutexPresent,
                 mutexXcbWait, xcbWait, hand, todo>>

---------------------------------------------------------------------------
(* PRESENTWaitPixmapReleased on a buffer, PRESENTWaitReleaseEvent without. *)

NobodyWaits == \A t \in Threads : pc[t] \notin WaitPCs

BeginWaitBuffer(t, p) ==
  /\ pc[t] = "idle"
  /\ p \in handle
  /\ Unused(p)
  /\ ParallelWaits \/ NobodyWaits
  /\ buf' = [buf EXCEPT ![t] = p]
  /\ Goto(t, "wait")
  /\ UNCHANGED <<serverVars, eventVars, deviceVars, lockVars, dest, hand, todo>>

\* The driver asks for a release only while a buffer is out.
BeginWaitEvent(t) ==
  /\ pc[t] = "idle"
  /\ \E p \in handle : ~released[p]
  /\ ParallelWaits \/ NobodyWaits
  /\ Goto(t, "wait")
  /\ UNCHANGED <<serverVars, eventVars, deviceVars, lockVars, argVars>>

WaitLock(t) ==
  /\ pc[t] = "wait"
  /\ Acquire(t)
  /\ Goto(t, IF buf[t] = NoPixmap THEN "check" ELSE "wflush")
  /\ UNCHANGED <<serverVars, eventVars, deviceVars, mutexXcbWait, xcbWait,
                 contextSection, argVars>>

WaitFlushEnd(t) ==
  /\ pc[t] = "wflush"
  /\ FlushDone(t)
  /\ Goto(t, "check")
  /\ UNCHANGED <<serverVars, eventVars, deviceVars, lockVars, argVars>>

WaitOver(t) ==
  IF buf[t] = NoPixmap THEN idleSince
  ELSE released[buf[t]] /\ completePending[buf[t]] = 0

WaitReturn(t) ==
  /\ pc[t] = "check"
  /\ WaitOver(t)
  /\ idleSince' = (idleSince /\ buf[t] # NoPixmap)
  /\ buf' = [buf EXCEPT ![t] = NoPixmap]
  /\ Release
  /\ Goto(t, "idle")
  /\ UNCHANGED <<serverVars, pending, notifySerial, lastGeom, winUpdated, released,
                 completePending, lastFlip, deviceVars, mutexXcbWait, xcbWait,
                 contextSection, dest, hand, todo>>

\* Another thread dispatches: mutex_present stays held until it has an event.
WaitBehind(t) ==
  \/ /\ pc[t] = "check"
     /\ ~WaitOver(t)
     /\ xcbWait
     /\ Goto(t, "behind")
     /\ UNCHANGED <<serverVars, eventVars, deviceVars, lockVars, argVars>>
  \/ /\ pc[t] = "behind"
     /\ mutexXcbWait = NoThread
     /\ Release
     /\ Goto(t, "sleep")
     /\ UNCHANGED <<serverVars, eventVars, deviceVars, mutexXcbWait, xcbWait,
                    contextSection, argVars>>

WaitWake(t) ==
  /\ pc[t] = "sleep"
  /\ Acquire(t)
  /\ Goto(t, "check")
  /\ UNCHANGED <<serverVars, eventVars, deviceVars, mutexXcbWait, xcbWait,
                 contextSection, argVars>>

\* Mutant: mutex_present stays held.
WaitEventsLocked(t) ==
  /\ pc[t] = "check"
  /\ ~WaitOver(t)
  /\ ~xcbWait
  /\ mutexXcbWait = NoThread
  /\ xcbWait' = TRUE
  /\ mutexXcbWait' = t
  /\ UNCHANGED mutexPresent
  /\ Goto(t, "xcb")
  /\ UNCHANGED <<serverVars, eventVars, deviceVars, contextSection, argVars>>

\* PRESENTwait_events(present_priv, TRUE) in three steps.
PRESENTwait_events(t) ==
  /\ pc[t] = "check"
  /\ ~WaitOver(t)
  /\ ~xcbWait
  /\ mutexXcbWait = NoThread
  /\ xcbWait' = TRUE
  /\ mutexXcbWait' = t
  /\ Release
  /\ Goto(t, "xcb")
  /\ UNCHANGED <<serverVars, eventVars, deviceVars, contextSection, argVars>>

TakeEvent(t) ==
  /\ pc[t] = "xcb"
  /\ Receive
  /\ hand' = [hand EXCEPT ![t] = Received]
  /\ mutexXcbWait' = NoThread
  /\ Goto(t, "got")
  /\ UNCHANGED <<special, requestVars, windowVars, eventVars, deviceVars, mutexPresent,
                 xcbWait, contextSection, buf, dest, todo>>

\* Mutant: xcb_wait stays set.
HandleTakenWaiting(t) ==
  /\ pc[t] = "got"
  /\ mutexPresent = NoThread
  /\ UNCHANGED xcbWait
  /\ PRESENThandle_events(hand[t])
  /\ hand' = [hand EXCEPT ![t] = NullEvent]
  /\ IF hand[t] = NullEvent
       THEN /\ Goto(t, "idle")
            /\ buf' = [buf EXCEPT ![t] = NoPixmap]
            /\ UNCHANGED mutexPresent
       ELSE /\ Goto(t, "check")
            /\ mutexPresent' = t
            /\ UNCHANGED buf
  /\ UNCHANGED <<serverVars, deviceVars, mutexXcbWait, contextSection, dest, todo>>

\* With no event the call fails and leaves mutex_present.
HandleTaken(t) ==
  /\ pc[t] = "got"
  /\ mutexPresent = NoThread
  /\ xcbWait' = FALSE
  /\ PRESENThandle_events(hand[t])
  /\ hand' = [hand EXCEPT ![t] = NullEvent]
  /\ IF hand[t] = NullEvent
       THEN /\ Goto(t, "idle")
            /\ buf' = [buf EXCEPT ![t] = NoPixmap]
            /\ UNCHANGED mutexPresent
       ELSE /\ Goto(t, "check")
            /\ mutexPresent' = t
            /\ UNCHANGED buf
  /\ UNCHANGED <<serverVars, deviceVars, mutexXcbWait, contextSection, dest, todo>>

---------------------------------------------------------------------------
(* PRESENTIsPixmapReleased and PRESENTDestroy. *)

BeginIsReleased(t) ==
  /\ pc[t] = "idle"
  /\ handle # {}
  /\ Acquire(t)
  /\ Goto(t, "rflush")
  /\ UNCHANGED <<serverVars, eventVars, deviceVars, mutexXcbWait, xcbWait,
                 contextSection, argVars>>

PRESENTIsPixmapReleased(t) ==
  /\ pc[t] = "rflush"
  /\ FlushDone(t)
  /\ Release
  /\ Goto(t, "idle")
  /\ UNCHANGED <<serverVars, eventVars, deviceVars, mutexXcbWait, xcbWait,
                 contextSection, argVars>>

\* The last reference is gone: no other call is in progress, or begins.
BeginDestroy(t) ==
  /\ device = "live"
  /\ \A u \in Threads : pc[u] = "idle"
  /\ device' = "closing"
  /\ handle' = {}
  /\ Acquire(t)
  /\ Goto(t, "force")
  /\ UNCHANGED <<serverVars, eventVars, window, listed, mutexXcbWait, xcbWait,
                 contextSection, argVars>>

\* The list, the queue, both connections and the memory; the server frees
\* what belonged to the connections, and no field has a content any more.
PRESENTDestroy(t) ==
  /\ pc[t] = "free"
  /\ device' = "absent"
  /\ window' = NoWindow
  /\ listed' = {}
  /\ pending' = 0
  /\ idleSince' = FALSE
  /\ notifySerial' = FALSE
  /\ winUpdated' = FALSE
  /\ released' = [p \in Pixmaps |-> FALSE]
  /\ completePending' = [p \in Pixmaps |-> 0]
  /\ lastFlip' = [p \in Pixmaps |-> FALSE]
  /\ special' = NoWindow
  /\ queue' = <<>>
  /\ held' = [p \in Pixmaps |-> "none"]
  /\ heldOn' = [p \in Pixmaps |-> NoWindow]
  /\ notifyOwed' = {}
  /\ forcedOwed' = {}
  /\ Release
  /\ Goto(t, "idle")
  /\ UNCHANGED <<windowVars, lastGeom, handle, mutexXcbWait, xcbWait, contextSection, argVars>>

---------------------------------------------------------------------------
(* The specification. *)

\* A call begins because the application or the driver makes it.
Call(t) ==
  \/ "init" \in Calls[t] /\ PRESENTInit(t)
  \/ "create" \in Calls[t] /\ \E p \in Pixmaps : PRESENTPixmapInit(t, p)
  \/ "free" \in Calls[t] /\ \E p \in Pixmaps : PRESENTTryFreePixmap(t, p)
  \/ "present" \in Calls[t] /\ \E p \in Pixmaps, w \in Windows : BeginPresentBuffer(t, p, w)
  \/ "wait" \in Calls[t] /\ \E p \in Pixmaps : BeginWaitBuffer(t, p)
  \/ "event" \in Calls[t] /\ BeginWaitEvent(t)
  \/ "poll" \in Calls[t] /\ BeginIsReleased(t)
  \/ "destroy" \in Calls[t] /\ BeginDestroy(t)

ForceReleases(t) ==
  \/ ForceBegin(t) \/ ForceHandshake(t) \/ ForceDrain(t) \/ ForceNotify(t)
  \/ ForceWalk(t) \/ (\E p \in Pixmaps : ForcePixmap(t, p)) \/ ForceWait(t) \/ ForceEnd(t)

\* A step of a call that is under way.
Continue(t) ==
  \/ FlushEvent(t)
  \/ ForceReleases(t)
  \/ PRESENTPixmapPrepare(t) \/ PRESENTPrivChangeWindow(t) \/ ChangeWindowSelect(t)
  \/ PrepareEnd(t) \/ PRESENTPixmap(t)
  \/ WaitLock(t) \/ WaitFlushEnd(t) \/ WaitReturn(t) \/ WaitBehind(t) \/ WaitWake(t)
  \/ PRESENTwait_events(t) \/ TakeEvent(t) \/ HandleTaken(t)
  \/ PRESENTIsPixmapReleased(t)
  \/ PRESENTDestroy(t)

Server == ServerStep /\ UNCHANGED <<eventVars, deviceVars, lockVars, pc, argVars>>

Next == Server \/ \E t \in Threads : Call(t) \/ Continue(t)

Spec == Init /\ [][Next]_vars

\* A running thread goes on, a thread that finds a lock free again and again
\* gets it in the end, and the server answers every request.
AtLock(t) == pc[t] \in {"prepare", "pixmap", "wait", "sleep", "got"}
Fairness ==
  /\ \A t \in Threads : WF_vars(Continue(t)) /\ SF_vars(AtLock(t) /\ Continue(t))
  /\ \A p \in Pixmaps : WF_vars(Server /\ Complete(p))
  /\ \A w \in Windows, s \in {0, 1} : WF_vars(Server /\ Notify(w, s))
  /\ \A p \in Pixmaps, w \in Windows : WF_vars(Server /\ Forced(p, w))

FairSpec == Spec /\ Fairness
=============================================================================
