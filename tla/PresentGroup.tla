---------------------------- MODULE PresentGroup ----------------------------
(***************************************************************************)
(* The life of devices: CreateDeviceEx (d3dadapter9.c), the group of       *)
(* presentation objects it makes for one (present.c), the device of the    *)
(* driver that uses them, and the release of all of it, on top of the      *)
(* IDirect3D9 object, the DRI backends and the table of drawables.         *)
(*                                                                         *)
(* Devices belong to threads of their own: what one does goes between any  *)
(* two steps of the other, since no lock covers these calls.  Creating     *)
(* and releasing are one step for each presentation object, or the steps   *)
(* of dri2_init and dri2_deinit; until they have returned the device does  *)
(* nothing else.                                                           *)
(*                                                                         *)
(* The driver's device is known from what this code relies on: it takes    *)
(* over the reference to the group (CreateDeviceEx releases it only when   *)
(* the driver fails), keeps references to the IDirect3D9 object it is      *)
(* given and to the objects it asks for, and destroys the buffers of an    *)
(* object before it releases it.  Windows and modes: see PresentDevice.    *)
(***************************************************************************)
EXTENDS Adapter, Drawable, Functions

CONSTANTS
  MaxDisplayRef   \* bound on display_ref, which a failed init leaves behind

\* A presentation object has one buffer at most, which goes by its name.
ASSUME BufferPerPresent == Buffers = Presents
ASSUME DevicesFinite == IsFiniteSet(Devices)

VARIABLES
  device,       \* what CreateDeviceEx and the driver's device keep
  backend,      \* of a presentation object, 0 when it is not allocated
  presRefs,     \* its reference count
  buffers       \* presentation objects with a window buffer

groupVars == <<device, presRefs, buffers>>
nineVars == <<backendVars, adapterVars, drawableVars, groupVars, backend>>

\* presents is present_backends, swapchains what the driver asked for.
NoDevice == [phase |-> "none", group |-> 0, nparams |-> 0,
             presents |-> <<>>, swapchains |-> {}]

PresentGroupTypeOK ==
  /\ \A d \in Devices :
       /\ device[d].phase \in {"none", "creating", "failed", "live", "closing"}
       /\ device[d].group \in 0..Len(groups)
       /\ Len(device[d].presents) <= device[d].nparams
       /\ device[d].swapchains \subseteq Presents
  /\ backend \in [Presents -> Backends \cup {0}]
  /\ presRefs \in [Presents -> Nat] /\ buffers \subseteq Presents

\* The state is well-typed; in particular no count falls below zero.
TypeOK == BackendTypeOK /\ AdapterTypeOK /\ DrawableTypeOK /\ PresentGroupTypeOK

Init ==
  /\ BackendInit /\ AdapterInit /\ DrawableInit
  /\ device = [d \in Devices |-> NoDevice]
  /\ backend = [p \in Presents |-> 0]
  /\ presRefs = [p \in Presents |-> 0]
  /\ buffers = {}

In(d, phases) == device[d].phase \in phases
Attached == {d \in Devices : In(d, {"live", "closing"})}

\* The device is in a phase, and can do something new.
Ready(d, phases) == In(d, phases) /\ Idle(d)

\* The application still has its reference, and may call the object.
ApplicationHolds == object = "ready" /\ refs > Cardinality(Attached)

\* No call of p is on its way.
Quiet(p) == getting[p] = NoCall

---------------------------------------------------------------------------
(* Creation *)

\* CreateDeviceEx for adapter k, up to present_create_present_group.
CreateDevice(d, k, flags) ==
  /\ In(d, {"none"}) /\ ApplicationHolds
  /\ device' = [device EXCEPT ![d] =
       [NoDevice EXCEPT !.phase = "creating", !.group = map[k].group,
          !.nparams = IF flags = "ADAPTERGROUP" THEN AdapterGroup(k).noutputs ELSE 1]]
  /\ UNCHANGED <<backendVars, adapterVars, drawableVars, backend, presRefs, buffers>>

\* The backends of presentation objects other than p.
UsedBeside(p) == {backend[q] : q \in Presents \ {p}} \ {0}

\* The end of present_create for p on backend b.
Initialized(p, b) ==
  /\ backend' = [backend EXCEPT ![p] = b]
  /\ presRefs' = [presRefs EXCEPT ![p] = 1]

\* Bounds: display_ref, and an object for each creation on its way.
MayBegin(d) ==
  /\ Idle(d) /\ displayRef < MaxDisplayRef
  /\ Cardinality({e \in Devices : call[e] \in InitSteps}) <
       Cardinality({p \in Presents : backend[p] = 0})

\* A step of present_create for p on backend b: it may fail before the
\* backend is initialised, or there.  ok and failed are what the caller makes
\* of the result.
present_create(d, p, b, ok, failed) ==
  /\ backend[p] = 0
  /\ \/ /\ MayBegin(d)
        /\ \/ "present" \in Failures
           \/ "display" \in Failures /\ kind[b] = "dri2" /\ display = "none"
        /\ UNCHANGED <<eglVars, pastVars, backend, presRefs>> /\ device' = failed
     \/ /\ MayBegin(d) /\ kind[b] = "dri3"
        /\ Initialized(p, b) /\ UNCHANGED <<eglVars, pastVars>> /\ device' = ok
     \/ /\ MayBegin(d) /\ kind[b] = "dri2"
        /\ GetDisplay(d) /\ UNCHANGED <<doubled, spoiled, backend, presRefs, device>>
     \/ /\ kind[b] = "dri2" /\ CreateContext(d, b, UsedBeside(p))
        /\ Initialized(p, b) /\ device' = ok
     \/ /\ kind[b] = "dri2" /\ InitFails(d, UsedBeside(p))
        /\ UNCHANGED <<backend, presRefs>> /\ device' = failed
  /\ UNCHANGED <<kind, pixmaps, adapterVars, drawableVars, buffers>>

\* The steps of dri2_init and dri2_deinit between the first and the last.
DisplayStep(d) ==
  /\ CountDisplay(d) \/ InitializeDisplay(d) \/ Uncount(d) \/ TerminateDisplay(d)
  /\ UNCHANGED <<kind, pixmaps, pastVars, adapterVars, drawableVars, groupVars, backend>>

BackendOf(d) == groups[device[d].group].backend

\* One turn of the loop of present_create_present_group.
CreatePresent(d, p) ==
  /\ In(d, {"creating"}) /\ Len(device[d].presents) < device[d].nparams
  /\ present_create(d, p, BackendOf(d),
       [device EXCEPT ![d].presents = Append(@, p)],
       [device EXCEPT ![d].phase = "failed"])

\* Mutant: DRIPresentGroup_GetPresent counts no reference.
GetPresentUncounted(p) == presRefs

\* DRIPresentGroup_GetPresent
GetPresent(p) == [presRefs EXCEPT ![p] = @ + 1]

\* ADAPTER_PROC(CreateDevice): the driver gets the first object only, as
\* GetMultiheadCount says there is one.
DriverCreates(d) ==
  /\ Ready(d, {"creating"}) /\ Len(device[d].presents) = device[d].nparams
  /\ \/ /\ refs' = refs + 1
        /\ presRefs' = GetPresent(device[d].presents[1])
        /\ device' = [device EXCEPT ![d].phase = "live",
                                    ![d].swapchains = {device[d].presents[1]}]
     \/ /\ "device" \in Failures
        /\ device' = [device EXCEPT ![d].phase = "failed"]
        /\ UNCHANGED <<refs, presRefs>>
  /\ UNCHANGED <<backendVars, loaded, object, groups, map, mapped, drawableVars, backend, buffers>>

\* DRIPresentGroup_CreateAdditionalPresent, for a further swap chain
CreateAdditionalPresent(d, p) ==
  /\ In(d, {"live"})
  /\ present_create(d, p, BackendOf(d), [device EXCEPT ![d].swapchains = @ \cup {p}], device)

---------------------------------------------------------------------------
(* Use *)

MayUse(d, p) == Ready(d, {"live"}) /\ p \in device[d].swapchains /\ Quiet(p)

D3DWindowBufferFromDmaBuf(d, p) ==
  /\ MayUse(d, p) /\ p \notin buffers
  /\ window_buffer_from_dmabuf(backend[p], p)
  /\ buffers' = buffers \cup {p}
  /\ UNCHANGED <<eglVars, kind, pastVars, adapterVars, drawableVars, device, backend, presRefs>>

DestroyD3DWindowBuffer(d, p) ==
  /\ Ready(d, {"live", "closing"}) /\ p \in device[d].swapchains \cap buffers /\ Quiet(p)
  /\ destroy_pixmap(backend[p], p)
  /\ buffers' = buffers \ {p}
  /\ UNCHANGED <<eglVars, kind, pastVars, adapterVars, drawableVars, device, backend, presRefs>>

\* PresentBuffer to the window of the device or an override, and
\* SetPresentParameters to fullscreen.
UseDrawable(d, p, w) ==
  /\ MayUse(d, p)
  /\ \/ p \in buffers /\ Get(p, w, "PresentBuffer")
     \/ Get(p, w, "SetPresentParameters")
  /\ UNCHANGED <<backendVars, adapterVars, groupVars, backend>>

DrawableCreated(p) ==
  /\ Created(p) \/ ("drawable" \in Failures /\ CreateFails(p))
  /\ UNCHANGED <<backendVars, adapterVars, groupVars, backend>>

---------------------------------------------------------------------------
(* Release *)

\* DRIPresent_Release: the last reference takes the drawable and the
\* backend's state along.
DRIPresent_Release(d, p) ==
  /\ Quiet(p)
  /\ presRefs' = [presRefs EXCEPT ![p] = @ - 1]
  /\ IF presRefs[p] = 1
     THEN /\ ReleaseDrawable(p)
          /\ backend' = [backend EXCEPT ![p] = 0]
          /\ IF kind[backend[p]] = "dri2"
             THEN DestroyContext(d, backend[p], UsedBeside(p))
             ELSE UNCHANGED <<eglVars, pixmaps, pastVars>>
     ELSE UNCHANGED <<drawableVars, eglVars, pixmaps, pastVars, backend>>
  /\ UNCHANGED <<kind, adapterVars, buffers>>

\* The last reference of the application to the device goes.
CloseDevice(d) ==
  /\ Ready(d, {"live"})
  /\ device' = [device EXCEPT ![d].phase = "closing"]
  /\ UNCHANGED <<backendVars, adapterVars, drawableVars, backend, presRefs, buffers>>

\* The driver releases a swap chain: an additional one at any time.
ReleaseSwapChain(d, p) ==
  /\ Idle(d) /\ p \in device[d].swapchains \ buffers
  /\ \/ In(d, {"closing"})
     \/ In(d, {"live"}) /\ p # device[d].presents[1]
  /\ DRIPresent_Release(d, p)
  /\ device' = [device EXCEPT ![d].swapchains = @ \ {p}]

\* One turn of the loop of DRIPresentGroup_Release, which the driver calls
\* or, after a failure, this code.
GroupReleases(d) ==
  /\ Ready(d, {"failed", "closing"}) /\ device[d].swapchains = {}
  /\ device[d].presents # <<>>
  /\ DRIPresent_Release(d, device[d].presents[1])
  /\ device' = [device EXCEPT ![d].presents = Tail(@)]

\* CreateDeviceEx returns its error, or the driver is done with the object.
DeviceGone(d) ==
  /\ Idle(d) /\ device[d].presents = <<>> /\ device[d].swapchains = {}
  /\ \/ In(d, {"failed"}) /\ UNCHANGED <<refs, kind, object, groups, map, mapped>>
     \/ In(d, {"closing"}) /\ Release
  /\ device' = [device EXCEPT ![d] = NoDevice]
  /\ UNCHANGED <<eglVars, pixmaps, pastVars, loaded, drawableVars, backend, presRefs, buffers>>

\* The application releases the object, but not while it calls it.
ReleaseObject ==
  /\ ApplicationHolds /\ \A d \in Devices : ~In(d, {"creating", "failed"})
  /\ Release
  /\ UNCHANGED <<eglVars, pixmaps, pastVars, loaded, drawableVars, groupVars, backend>>

Object == AdapterNext /\ UNCHANGED <<drawableVars, groupVars, backend>>

Next ==
  \/ Object
  \/ ReleaseObject
  \/ \E d \in Devices :
       \/ \E k \in DOMAIN map, f \in {"ADAPTERGROUP", "none"} : CreateDevice(d, k, f)
       \/ \E p \in Presents :
            \/ CreatePresent(d, p) \/ CreateAdditionalPresent(d, p)
            \/ D3DWindowBufferFromDmaBuf(d, p) \/ DestroyD3DWindowBuffer(d, p)
            \/ \E w \in Windows : UseDrawable(d, p, w)
            \/ ReleaseSwapChain(d, p)
       \/ DriverCreates(d) \/ CloseDevice(d) \/ GroupReleases(d) \/ DeviceGone(d)
       \/ DisplayStep(d)
  \/ \E p \in Presents : DrawableCreated(p)

Spec == Init /\ [][Next]_nineVars

---------------------------------------------------------------------------
\* What a device refers to is allocated, and so is its backend: the
\* IDirect3D9 object, which frees the backends of all groups with itself,
\* goes last whatever order the application releases things in, and the
\* failure of a device frees what it made exactly once.
PresentsOutlive ==
  \A d \in Devices :
    LET held == Range(device[d].presents) \cup device[d].swapchains
    IN \A p \in held :
         /\ presRefs[p] >= 1 /\ backend[p] # 0
         /\ kind[backend[p]] # "none"

\* A presentation object of a DRI2 backend that it does not share can present
\* and destroy its buffers: they are on the list, whatever the devices on
\* other adapters do.  As long as the calls of two devices do not overlap (no
\* lock keeps them apart) the display stays for as long as anybody uses it,
\* and it is up with the context of the backend on it - unless a dri2_init
\* of another device failed in the meantime, which terminates it for those
\* who use it then; those that come later have it right again.
BuffersUsable ==
  \A p \in Presents :
    LET b == backend[p]
    IN b # 0 /\ kind[b] = "dri2" =>
         /\ p \in buffers /\ b \notin doubled => p \in pixmaps[b]
         /\ ~overlapped => display # "none"
         /\ ~overlapped /\ b \notin doubled \cup spoiled => b \in context /\ display = "up"

\* When the last reference to a presentation object goes, the textures of
\* its backend are destroyed already, as dri2_deinit takes for granted.
DeinitHypothesis ==
  [][\A p \in Presents :
       backend[p] # 0 /\ backend'[p] = 0 /\ kind[backend[p]] = "dri2" =>
         pixmaps[backend[p]] = {}]_nineVars
=============================================================================
