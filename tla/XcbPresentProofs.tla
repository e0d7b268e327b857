-------------------------- MODULE XcbPresentProofs --------------------------
(***************************************************************************)
(* Proofs about the PRESENT backend, for any threads, pixmaps and windows. *)
(***************************************************************************)
EXTENDS XcbPresentProperties, SequenceTheorems, TLAPS

---------------------------------------------------------------------------
(* Type correctness. *)

\* Reading the special event queue yields an event and leaves a queue.
LEMMA ReceiveType ==
  ASSUME queue \in Seq(Events), Receive
  PROVE  Received \in Events /\ queue' \in Seq(Events)
<1>1. NullEvent \in Events
  BY DEF Events
<1>2. CASE queue = <<>>
  BY <1>1, <1>2 DEF Receive, Received
<1>3. CASE queue # <<>>
  BY <1>3 DEF Receive, Received
<1>4. QED
  BY <1>2, <1>3

\* The geometry of a configure event is a geometry.
LEMMA ConfigureGeom ==
  ASSUME NEW e \in Events, e.type = "configure"
  PROVE  e.geom \in Geoms
BY DEF Events, NullEvent

\* PRESENThandle_events keeps the types of the fields it writes.
LEMMA HandleType ==
  ASSUME EventTypeOK, NEW e \in Events, PRESENThandle_events(e)
  PROVE  EventTypeOK'
<1> USE DEF EventTypeOK, FlipAfter, PRESENThandle_events
<1>1. notifySerial' \in BOOLEAN /\ idleSince' \in BOOLEAN /\ winUpdated' \in BOOLEAN
  OBVIOUS
<1>2. pending' \in Int /\ completePending' \in [Pixmaps -> Int]
  OBVIOUS
<1>3. released' \in [Pixmaps -> BOOLEAN] /\ lastFlip' \in [Pixmaps -> BOOLEAN]
  OBVIOUS
<1>4. lastGeom' \in Geoms
  BY ConfigureGeom DEF Configures
<1>5. QED
  BY <1>1, <1>2, <1>3, <1>4

\* What the server sends are events.
LEMMA DeliverType ==
  ASSUME queue \in Seq(Events), NEW w, NEW evs \in Seq(Events), Deliver(w, evs)
  PROVE  queue' \in Seq(Events)
BY DEF Deliver

LEMMA SentEvents ==
  /\ \A p \in Pixmaps, m \in Modes \cup {"copy"} : CompleteEvent(p, m) \in Events
  /\ \A p \in Pixmaps \cup {NoPixmap} : IdleEvent(p) \in Events
  /\ CompleteEvent(NoPixmap, "copy") \in Events
  /\ \A s \in {0, 1} : NotifyEvent(s) \in Events
  /\ \A w \in Windows, g \in Geoms : ConfigureEvent(w, g) \in Events
BY DEF Events, CompleteEvent, IdleEvent, NotifyEvent, ConfigureEvent

LEMMA UnflipsType == \A w : Unflips(w) \in Seq(Events)
<1>1. TAKE w
<1>2. CASE OnScreen(w) = {}
  BY <1>2 DEF Unflips
<1>3. CASE OnScreen(w) # {}
  <2>1. (CHOOSE q \in OnScreen(w) : TRUE) \in Pixmaps
    BY <1>3 DEF OnScreen
  <2>2. QED
    BY <1>3, <2>1, SentEvents DEF Unflips
<1>4. QED
  BY <1>2, <1>3

\* An unflip followed by other events is a sequence of events.
LEMMA AfterUnflips ==
  ASSUME NEW w, NEW evs \in Seq(Events)
  PROVE  Unflips(w) \o evs \in Seq(Events)
BY UnflipsType

\* The server's steps keep the types.
LEMMA ServerType ==
  ASSUME TypeOK, Server
  PROVE  TypeOK'
<1> USE DEF TypeOK, ServerTypeOK, requestVars, windowVars
<1>1. EventTypeOK' /\ DeviceTypeOK' /\ LockTypeOK' /\ ThreadTypeOK'
  BY DEF Server, EventTypeOK, DeviceTypeOK, LockTypeOK, ThreadTypeOK,
         eventVars, deviceVars, lockVars, argVars
<1>2. ASSUME NEW p \in Pixmaps, Complete(p)
      PROVE  ServerTypeOK'
  <2>1. CASE CompleteCopy(p)
    <3>1. \/ Deliver(heldOn[p], Unflips(heldOn[p]) \o <<CompleteEvent(p, "copy"), IdleEvent(p)>>)
          \/ Deliver(heldOn[p], Unflips(heldOn[p]) \o <<IdleEvent(p), CompleteEvent(p, "copy")>>)
      BY <2>1 DEF CompleteCopy
    <3>2. /\ <<CompleteEvent(p, "copy"), IdleEvent(p)>> \in Seq(Events)
          /\ <<IdleEvent(p), CompleteEvent(p, "copy")>> \in Seq(Events)
      BY SentEvents
    <3>3. queue' \in Seq(Events)
      <4>1. CASE Deliver(heldOn[p], Unflips(heldOn[p]) \o <<CompleteEvent(p, "copy"), IdleEvent(p)>>)
        BY <4>1, <3>2, AfterUnflips, DeliverType
      <4>2. CASE Deliver(heldOn[p], Unflips(heldOn[p]) \o <<IdleEvent(p), CompleteEvent(p, "copy")>>)
        BY <4>2, <3>2, AfterUnflips, DeliverType
      <4>3. QED
        BY <3>1, <4>1, <4>2
    <3>4. held' \in [Pixmaps -> {"none", "pending", "screen"}]
      BY <2>1 DEF CompleteCopy
    <3>5. UNCHANGED <<special, heldOn, notifyOwed, forcedOwed, alive, geom, connected>>
      BY <2>1 DEF CompleteCopy
    <3>6. QED
      BY <3>3, <3>4, <3>5
  <2>2. CASE CompleteFlip(p)
    <3>1. <<CompleteEvent(p, "flip")>> \in Seq(Events)
      BY <2>2, SentEvents DEF CompleteFlip
    <3>2. queue' \in Seq(Events)
      BY <2>2, <3>1, AfterUnflips, DeliverType DEF CompleteFlip
    <3>3. QED
      BY <2>2, <3>2 DEF CompleteFlip
  <2>3. CASE CompleteSkip(p)
    <3>1. <<CompleteEvent(p, "skip"), IdleEvent(p)>> \in Seq(Events)
      BY <2>3, SentEvents DEF CompleteSkip
    <3>2. queue' \in Seq(Events)
      BY <2>3, <3>1, DeliverType DEF CompleteSkip
    <3>3. QED
      BY <2>3, <3>2 DEF CompleteSkip
  <2>4. QED
    BY <1>2, <2>1, <2>2, <2>3 DEF Complete
<1>3. ASSUME NEW n \in notifyOwed, Notify(n[1], n[2])
      PROVE  ServerTypeOK'
  <2>1. n[2] \in {0, 1} /\ n = <<n[1], n[2]>>
    OBVIOUS
  <2>2. <<NotifyEvent(n[2])>> \in Seq(Events)
    BY <2>1, SentEvents
  <2>3. queue' \in Seq(Events)
    BY <1>3, <2>2, DeliverType DEF Notify
  <2>4. QED
    BY <1>3, <2>3 DEF Notify
<1>4. ASSUME NEW f \in forcedOwed, Forced(f[1], f[2])
      PROVE  ServerTypeOK'
  <2>1. <<CompleteEvent(NoPixmap, "copy"), IdleEvent(NoPixmap)>> \in Seq(Events)
    BY SentEvents
  <2>2. queue' \in Seq(Events)
    BY <1>4, <2>1, AfterUnflips, DeliverType DEF Forced
  <2>3. QED
    BY <1>4, <2>2 DEF Forced
<1>5. ASSUME NEW w \in Windows, NEW g \in Geoms, Configure(w, g)
      PROVE  ServerTypeOK'
  <2>1. <<ConfigureEvent(w, g)>> \in Seq(Events)
    BY SentEvents
  <2>2. queue' \in Seq(Events)
    BY <1>5, <2>1, DeliverType DEF Configure
  <2>3. QED
    BY <1>5, <2>2 DEF Configure
<1>6. ASSUME NEW w \in Windows, DestroyWindow(w)
      PROVE  ServerTypeOK'
  BY <1>6 DEF DestroyWindow
<1>7. ASSUME Disconnect
      PROVE  ServerTypeOK'
  BY <1>7 DEF Disconnect
<1>8. ServerTypeOK'
  BY <1>2, <1>3, <1>4, <1>5, <1>6, <1>7 DEF Server, ServerStep
<1>9. QED
  BY <1>1, <1>8

\* The steps that read an event: its type, and the fields it changes.
LEMMA FlushType ==
  ASSUME TypeOK, NEW t \in Threads, FlushEvent(t)
  PROVE  TypeOK'
<1>1. Head(queue) \in Events /\ queue' \in Seq(Events)
  BY DEF FlushEvent, TypeOK, ServerTypeOK
<1>2. EventTypeOK'
  BY <1>1, HandleType DEF FlushEvent, TypeOK
<1>3. ServerTypeOK'
  BY <1>1 DEF FlushEvent, TypeOK, ServerTypeOK, requestVars, windowVars
<1>4. DeviceTypeOK' /\ LockTypeOK' /\ ThreadTypeOK'
  BY DEF FlushEvent, TypeOK, DeviceTypeOK, LockTypeOK, ThreadTypeOK, deviceVars,
         lockVars, argVars
<1>5. QED
  BY <1>2, <1>3, <1>4 DEF TypeOK

LEMMA WaitEventType ==
  ASSUME TypeOK, WaitEvent
  PROVE  /\ ServerTypeOK' /\ EventTypeOK' /\ DeviceTypeOK' /\ LockTypeOK'
         /\ UNCHANGED <<buf, dest, hand, todo>>
<1>1. Received \in Events /\ queue' \in Seq(Events)
  BY ReceiveType DEF WaitEvent, TypeOK, ServerTypeOK
<1>2. EventTypeOK'
  BY <1>1, HandleType DEF WaitEvent, TypeOK
<1>3. ServerTypeOK'
  BY <1>1 DEF WaitEvent, TypeOK, ServerTypeOK, requestVars, windowVars
<1>4. DeviceTypeOK' /\ LockTypeOK' /\ UNCHANGED <<buf, dest, hand, todo>>
  BY DEF WaitEvent, TypeOK, DeviceTypeOK, LockTypeOK, deviceVars, lockVars, argVars
<1>5. QED
  BY <1>2, <1>3, <1>4

\* The calls keep the types.
LEMMA CallType ==
  ASSUME TypeOK, NEW t \in Threads, Call(t)
  PROVE  TypeOK'
<1> USE DEF TypeOK, ServerTypeOK, EventTypeOK, DeviceTypeOK, LockTypeOK, ThreadTypeOK,
        serverVars, requestVars, windowVars, eventVars, deviceVars, lockVars, argVars,
        Goto, Acquire, Release, PCs, WaitPCs, ForcePCs, PresentPCs
<1>1. CASE PRESENTInit(t)
  BY <1>1 DEF PRESENTInit
<1>2. ASSUME NEW p \in Pixmaps, PRESENTPixmapInit(t, p)
      PROVE  TypeOK'
  BY <1>2 DEF PRESENTPixmapInit
<1>3. ASSUME NEW p \in Pixmaps, PRESENTTryFreePixmap(t, p)
      PROVE  TypeOK'
  BY <1>3 DEF PRESENTTryFreePixmap
<1>4. ASSUME NEW p \in Pixmaps, NEW w \in Windows, BeginPresentBuffer(t, p, w)
      PROVE  TypeOK'
  <2>1. ServerTypeOK' /\ DeviceTypeOK'
    BY <1>4 DEF BeginPresentBuffer
  <2>2. EventTypeOK' /\ LockTypeOK'
    BY <1>4 DEF BeginPresentBuffer
  <2>3. ThreadTypeOK'
    BY <1>4 DEF BeginPresentBuffer
  <2>4. QED
    BY <2>1, <2>2, <2>3
<1>5. ASSUME NEW p \in Pixmaps, BeginWaitBuffer(t, p)
      PROVE  TypeOK'
  BY <1>5 DEF BeginWaitBuffer
<1>6. CASE BeginWaitEvent(t)
  BY <1>6 DEF BeginWaitEvent
<1>7. CASE BeginIsReleased(t)
  BY <1>7 DEF BeginIsReleased
<1>8. CASE BeginDestroy(t)
  BY <1>8 DEF BeginDestroy
<1>9. QED
  BY <1>1, <1>2, <1>3, <1>4, <1>5, <1>6, <1>7, <1>8 DEF Call

\* The steps of PRESENTForceReleases keep the types.
LEMMA ForceType ==
  ASSUME TypeOK, NEW t \in Threads, ForceReleases(t)
  PROVE  TypeOK'
<1> USE DEF TypeOK, ServerTypeOK, EventTypeOK, DeviceTypeOK, LockTypeOK, ThreadTypeOK,
        serverVars, requestVars, windowVars, eventVars, deviceVars, lockVars, argVars,
        Goto, PCs, WaitPCs, ForcePCs, PresentPCs
<1>1. CASE ForceBegin(t)
  <2>1. ServerTypeOK'
    BY <1>1 DEF ForceBegin
  <2>2. ThreadTypeOK'
    BY <1>1 DEF ForceBegin
  <2>3. QED
    BY <1>1, <2>1, <2>2 DEF ForceBegin
<1>2. CASE ForceHandshake(t)
  BY <1>2 DEF ForceHandshake
<1>3. CASE ForceDrain(t)
  <2>1. CASE WaitEvent /\ UNCHANGED pc
    BY <2>1, WaitEventType
  <2>2. CASE /\ Goto(t, "dflush") \/ Goto(t, "d1flush")
             /\ UNCHANGED <<serverVars, eventVars, deviceVars, lockVars, argVars>>
    BY <2>2
  <2>3. QED
    BY <1>3, <2>1, <2>2 DEF ForceDrain
<1>4. CASE ForceNotify(t)
  BY <1>4 DEF ForceNotify
<1>5. CASE ForceWalk(t)
  BY <1>5 DEF ForceWalk
<1>6. ASSUME NEW p \in Pixmaps, ForcePixmap(t, p)
      PROVE  TypeOK'
  <2>1. forcedOwed' \subseteq Pixmaps \X Windows
    BY <1>6 DEF ForcePixmap
  <2>2. ThreadTypeOK'
    BY <1>6 DEF ForcePixmap
  <2>3. QED
    BY <1>6, <2>1, <2>2 DEF ForcePixmap
<1>7. CASE ForceWait(t)
  BY <1>7, WaitEventType DEF ForceWait
<1>8. CASE ForceEnd(t)
  BY <1>8 DEF ForceEnd
<1>9. QED
  BY <1>1, <1>2, <1>3, <1>4, <1>5, <1>6, <1>7, <1>8 DEF ForceReleases

\* The steps of the calls under way keep the types.
LEMMA ContinueType ==
  ASSUME TypeOK, NEW t \in Threads, Continue(t)
  PROVE  TypeOK'
<1> USE DEF TypeOK, ServerTypeOK, EventTypeOK, DeviceTypeOK, LockTypeOK, ThreadTypeOK,
        serverVars, requestVars, windowVars, eventVars, deviceVars, lockVars, argVars,
        Goto, Acquire, Release, PCs, WaitPCs, ForcePCs, PresentPCs
<1>1. CASE FlushEvent(t)
  BY <1>1, FlushType
<1>2. CASE ForceReleases(t)
  BY <1>2, ForceType
<1>3. CASE PRESENTPixmapPrepare(t)
  BY <1>3 DEF PRESENTPixmapPrepare
<1>4. CASE PRESENTPrivChangeWindow(t)
  <2>1. ServerTypeOK'
    BY <1>4 DEF PRESENTPrivChangeWindow
  <2>2. ThreadTypeOK'
    BY <1>4 DEF PRESENTPrivChangeWindow
  <2>3. lastGeom' \in Geoms /\ winUpdated' \in BOOLEAN
    <3>1. CASE dest[t] \in alive /\ connected
      <4>1. dest[t] \in Windows
        BY <3>1
      <4>2. lastGeom' = geom[dest[t]] /\ winUpdated'
        BY <1>4, <3>1 DEF PRESENTPrivChangeWindow
      <4>3. lastGeom' \in Geoms
        BY <4>1, <4>2
      <4>4. winUpdated' \in BOOLEAN
        BY <1>4, <3>1, Zenon DEF PRESENTPrivChangeWindow
      <4>5. QED
        BY <4>3, <4>4
    <3>2. CASE ~(dest[t] \in alive /\ connected)
      BY <1>4, <3>2 DEF PRESENTPrivChangeWindow
    <3>3. QED
      BY <3>1, <3>2
  <2>4. DeviceTypeOK'
    BY <1>4 DEF PRESENTPrivChangeWindow
  <2>5. QED
    BY <1>4, <2>1, <2>2, <2>3, <2>4 DEF PRESENTPrivChangeWindow
<1>5. CASE ChangeWindowSelect(t)
  BY <1>5 DEF ChangeWindowSelect
<1>6. CASE PrepareEnd(t)
  <2>1. ThreadTypeOK'
    <3>1. pc' \in [Threads -> PCs]
      <4>1. pc \in [Threads -> PCs] /\ {"pixmap", "idle"} \subseteq PCs
        OBVIOUS
      <4>2. \E l \in {"pixmap", "idle"} : pc' = [pc EXCEPT ![t] = l]
        BY <1>6 DEF PrepareEnd
      <4>3. QED
        BY ONLY <4>1, <4>2
    <3>2. /\ buf' \in [Threads -> Pixmaps \cup {NoPixmap}]
          /\ dest' \in [Threads -> Windows \cup {NoWindow}]
      BY <1>6 DEF PrepareEnd
    <3>3. UNCHANGED <<hand, todo>>
      BY <1>6 DEF PrepareEnd
    <3>4. QED
      BY <3>1, <3>2, <3>3
  <2>2. LockTypeOK'
    BY <1>6 DEF PrepareEnd
  <2>3. QED
    BY <1>6, <2>1, <2>2 DEF PrepareEnd
<1>7. CASE PRESENTPixmap(t)
  <2>1. ServerTypeOK'
    BY <1>7 DEF PRESENTPixmap
  <2>2. EventTypeOK'
    <3>1. pending' \in Int /\ completePending' \in [Pixmaps -> Int]
      BY <1>7 DEF PRESENTPixmap
    <3>2. released' \in [Pixmaps -> BOOLEAN]
      BY <1>7 DEF PRESENTPixmap
    <3>3. QED
      BY <1>7, <3>1, <3>2 DEF PRESENTPixmap
  <2>3. ThreadTypeOK'
    BY <1>7 DEF PRESENTPixmap
  <2>4. QED
    BY <1>7, <2>1, <2>2, <2>3 DEF PRESENTPixmap
<1>8. CASE WaitLock(t)
  BY <1>8 DEF WaitLock
<1>9. CASE WaitFlushEnd(t)
  BY <1>9 DEF WaitFlushEnd
<1>10. CASE WaitReturn(t)
  BY <1>10 DEF WaitReturn
<1>11. CASE WaitBehind(t)
  BY <1>11 DEF WaitBehind
<1>12. CASE WaitWake(t)
  <2>1. pc' \in [Threads -> PCs] /\ mutexPresent' \in Threads \cup {NoThread}
    BY <1>12 DEF WaitWake
  <2>2. UNCHANGED <<serverVars, eventVars, deviceVars, mutexXcbWait, xcbWait, contextSection, argVars>>
    BY <1>12 DEF WaitWake
  <2>3. QED
    BY <2>1, <2>2
<1>13. CASE PRESENTwait_events(t)
  BY <1>13 DEF PRESENTwait_events
<1>14. CASE TakeEvent(t)
  BY <1>14, ReceiveType DEF TakeEvent
<1>15. CASE HandleTaken(t)
  <2>1. EventTypeOK'
    BY <1>15, HandleType DEF HandleTaken
  <2>2. ThreadTypeOK'
    <3>1. NullEvent \in Events
      BY DEF Events
    <3>2. QED
      BY <1>15, <3>1 DEF HandleTaken
  <2>3. QED
    BY <1>15, <2>1, <2>2 DEF HandleTaken
<1>16. CASE PRESENTIsPixmapReleased(t)
  BY <1>16 DEF PRESENTIsPixmapReleased
<1>17. CASE PRESENTDestroy(t)
  <2>1. ServerTypeOK'
    BY <1>17 DEF PRESENTDestroy
  <2>2. EventTypeOK'
    <3>1. pending' \in Int /\ completePending' \in [Pixmaps -> Int]
      BY <1>17 DEF PRESENTDestroy
    <3>2. released' \in [Pixmaps -> BOOLEAN] /\ lastFlip' \in [Pixmaps -> BOOLEAN]
      BY <1>17 DEF PRESENTDestroy
    <3>3. idleSince' \in BOOLEAN /\ notifySerial' \in BOOLEAN /\ winUpdated' \in BOOLEAN
      BY <1>17 DEF PRESENTDestroy
    <3>4. QED
      BY <1>17, <3>1, <3>2, <3>3 DEF PRESENTDestroy
  <2>3. QED
    BY <1>17, <2>1, <2>2 DEF PRESENTDestroy
<1>18. QED
  BY <1>1, <1>2, <1>3, <1>4, <1>5, <1>6, <1>7, <1>8, <1>9, <1>10, <1>11, <1>12, <1>13, <1>14, <1>15, <1>16, <1>17 DEF Continue

\* The types are an invariant of the backend, whatever the instance.
THEOREM TypeCorrect == Spec => []TypeOK
<1>1. Init => TypeOK
  <2> SUFFICES ASSUME Init
               PROVE  TypeOK
    OBVIOUS
  <2>1. ServerTypeOK
    BY DEF Init, ServerInit, ServerTypeOK
  <2>2. EventTypeOK
    <3>1. pending \in Int /\ completePending \in [Pixmaps -> Int]
      BY DEF Init
    <3>2. released \in [Pixmaps -> BOOLEAN] /\ lastFlip \in [Pixmaps -> BOOLEAN]
      BY DEF Init
    <3>3. idleSince \in BOOLEAN /\ notifySerial \in BOOLEAN /\ winUpdated \in BOOLEAN
      BY DEF Init
    <3>4. QED
      BY <3>1, <3>2, <3>3 DEF Init, EventTypeOK
  <2>3. DeviceTypeOK /\ LockTypeOK
    BY DEF Init, DeviceTypeOK, LockTypeOK
  <2>4. NullEvent \in Events
    BY DEF Events
  <2>5. ThreadTypeOK
    BY <2>4 DEF Init, ThreadTypeOK, PCs
  <2>6. QED
    BY <2>1, <2>2, <2>3, <2>5 DEF TypeOK
<1>2. TypeOK /\ [Next]_vars => TypeOK'
  <2>1. CASE UNCHANGED vars
    BY <2>1 DEF vars, serverVars, requestVars, windowVars, eventVars, deviceVars, lockVars,
                argVars, TypeOK, ServerTypeOK, EventTypeOK, DeviceTypeOK, LockTypeOK,
                ThreadTypeOK
  <2>2. QED
    BY <2>1, ServerType, CallType, ContinueType DEF Next
<1>3. QED
  BY <1>1, <1>2, PTL DEF Spec

---------------------------------------------------------------------------
(* The lock protocol, and that one thread at most reads the event queue. *)

LEMMA LockInit == Init => LockProtocol
BY ThreadAssumption DEF Init, LockProtocol, Critical, ForcePCs

\* A step of one thread that neither enters nor leaves a lock.
LEMMA LockKept ==
  ASSUME TypeOK, LockProtocol, NEW t \in Threads, NEW l \in PCs, pc' = [pc EXCEPT ![t] = l],
         UNCHANGED <<mutexPresent, mutexXcbWait, xcbWait>>,
         pc[t] \in Critical <=> l \in Critical,
         pc[t] \notin {"xcb", "got"}, l \notin {"xcb", "got"},
         l \in ForcePCs \ {"force", "handshake"} => mutexXcbWait = NoThread
  PROVE  LockProtocol'
BY DEF TypeOK, LockTypeOK, ThreadTypeOK, LockProtocol

\* A step of one thread that takes mutex_present.
LEMMA LockTaken ==
  ASSUME TypeOK, LockProtocol, NEW t \in Threads, NEW l \in PCs, pc' = [pc EXCEPT ![t] = l],
         mutexPresent = NoThread, mutexPresent' = t, UNCHANGED <<mutexXcbWait, xcbWait>>,
         l \in Critical, pc[t] \notin {"xcb", "got"},
         l \notin ForcePCs \ {"force", "handshake"}
  PROVE  LockProtocol'
<1> USE ThreadAssumption DEF TypeOK, LockTypeOK, ThreadTypeOK, LockProtocol
<1>1. \A u \in Threads : pc[u] \notin Critical
  OBVIOUS
<1>2. l \notin {"xcb", "got"}
  BY DEF Critical, ForcePCs
<1>3. QED
  BY <1>1, <1>2

\* A step of one thread that leaves mutex_present.
LEMMA LockReleased ==
  ASSUME TypeOK, LockProtocol, NEW t \in Threads, NEW l \in PCs, pc' = [pc EXCEPT ![t] = l],
         pc[t] \in Critical, mutexPresent' = NoThread, UNCHANGED <<mutexXcbWait, xcbWait>>,
         l \notin Critical \cup {"xcb", "got"}
  PROVE  LockProtocol'
<1> USE ThreadAssumption DEF TypeOK, LockTypeOK, ThreadTypeOK, LockProtocol
<1>1. mutexPresent = t
  OBVIOUS
<1>2. pc[t] \notin {"xcb", "got"}
  BY DEF Critical, ForcePCs
<1>3. l \notin ForcePCs
  BY DEF Critical
<1>4. QED
  BY <1>1, <1>2, <1>3

\* The steps that leave every lock and every program counter alone.
LEMMA LockStutter ==
  ASSUME LockProtocol, UNCHANGED <<pc, mutexPresent, mutexXcbWait, xcbWait>>
  PROVE  LockProtocol'
BY DEF LockProtocol

LEMMA LockCall ==
  ASSUME TypeOK, LockProtocol, NEW t \in Threads, Call(t)
  PROVE  LockProtocol'
<1> USE DEF lockVars, argVars, Goto, Acquire, PCs, WaitPCs, ForcePCs, PresentPCs, Critical
<1>1. CASE PRESENTInit(t)
  BY <1>1, LockStutter DEF PRESENTInit
<1>2. ASSUME NEW p \in Pixmaps, PRESENTPixmapInit(t, p)
      PROVE  LockProtocol'
  BY <1>2, LockStutter DEF PRESENTPixmapInit
<1>3. ASSUME NEW p \in Pixmaps, PRESENTTryFreePixmap(t, p)
      PROVE  LockProtocol'
  BY <1>3, LockStutter DEF PRESENTTryFreePixmap
<1>4. ASSUME NEW p \in Pixmaps, NEW w \in Windows, BeginPresentBuffer(t, p, w)
      PROVE  LockProtocol'
  BY <1>4, LockKept DEF BeginPresentBuffer
<1>5. ASSUME NEW p \in Pixmaps, BeginWaitBuffer(t, p)
      PROVE  LockProtocol'
  BY <1>5, LockKept DEF BeginWaitBuffer
<1>6. CASE BeginWaitEvent(t)
  BY <1>6, LockKept DEF BeginWaitEvent
<1>7. CASE BeginIsReleased(t)
  BY <1>7, LockTaken DEF BeginIsReleased
<1>8. CASE BeginDestroy(t)
  BY <1>8, LockTaken DEF BeginDestroy
<1>9. QED
  BY <1>1, <1>2, <1>3, <1>4, <1>5, <1>6, <1>7, <1>8 DEF Call

\* PRESENTForceReleases keeps mutex_present; past the handshake, or with
\* nobody waiting, no thread is in xcb.
LEMMA LockForce ==
  ASSUME TypeOK, LockProtocol, NEW t \in Threads, ForceReleases(t)
  PROVE  LockProtocol'
<1> USE DEF lockVars, argVars, Goto, PCs, WaitPCs, ForcePCs, PresentPCs, Critical
<1>0. ~xcbWait => mutexXcbWait = NoThread
  BY DEF LockProtocol, TypeOK, LockTypeOK
<1>1. CASE ForceBegin(t)
  <2>1. CASE xcbWait
    BY <1>1, <2>1, LockKept DEF ForceBegin
  <2>2. CASE ~xcbWait
    BY <1>0, <1>1, <2>2, LockKept DEF ForceBegin
  <2>3. QED
    BY <2>1, <2>2
<1>2. CASE ForceHandshake(t)
  BY <1>2, LockKept DEF ForceHandshake
<1>3. CASE ForceDrain(t)
  <2>1. CASE WaitEvent /\ UNCHANGED pc
    BY <2>1, LockStutter DEF WaitEvent
  <2>2. CASE pc[t] = "drain" /\ Goto(t, "dflush") /\ UNCHANGED lockVars
    <3>1. mutexXcbWait = NoThread
      BY <2>2 DEF LockProtocol
    <3>2. QED
      BY <2>2, <3>1, LockKept
  <2>3. CASE pc[t] = "drain1" /\ Goto(t, "d1flush") /\ UNCHANGED lockVars
    <3>1. mutexXcbWait = NoThread
      BY <2>3 DEF LockProtocol
    <3>2. QED
      BY <2>3, <3>1, LockKept
  <2>4. QED
    BY <1>3, <2>1, <2>2, <2>3, Zenon DEF ForceDrain
<1>4. CASE ForceNotify(t)
  <2>1. mutexXcbWait = NoThread
    BY <1>4 DEF ForceNotify, LockProtocol
  <2>2. QED
    BY <1>4, <2>1, LockKept DEF ForceNotify
<1>5. CASE ForceWalk(t)
  <2>1. mutexXcbWait = NoThread
    BY <1>5 DEF ForceWalk, LockProtocol
  <2>2. QED
    BY <1>5, <2>1, LockKept DEF ForceWalk
<1>6. ASSUME NEW p \in Pixmaps, ForcePixmap(t, p)
      PROVE  LockProtocol'
  <2>1. mutexXcbWait = NoThread
    BY <1>6 DEF ForcePixmap, LockProtocol
  <2>2. CASE Unexplained(p)
    BY <1>6, <2>2, LockStutter DEF ForcePixmap
  <2>3. CASE ~Unexplained(p)
    BY <1>6, <2>1, <2>3, LockKept DEF ForcePixmap
  <2>4. QED
    BY <2>2, <2>3
<1>7. CASE ForceWait(t)
  <2>1. mutexXcbWait = NoThread
    BY <1>7 DEF ForceWait, LockProtocol
  <2>2. CASE pc[t] = "forced" /\ WaitEvent /\ Goto(t, "fflush")
    BY <2>1, <2>2, LockKept DEF WaitEvent
  <2>3. CASE pc[t] = "fflush" /\ Goto(t, "walk") /\ UNCHANGED lockVars
    BY <2>1, <2>3, LockKept
  <2>4. QED
    BY <1>7, <2>2, <2>3 DEF ForceWait
<1>8. CASE ForceEnd(t)
  <2>1. pc[t] \in {"force", "walk"} /\ UNCHANGED <<mutexPresent, mutexXcbWait, xcbWait>>
    BY <1>8 DEF ForceEnd
  <2>2. PICK l \in {"free", "change"} : pc' = [pc EXCEPT ![t] = l]
    BY <1>8 DEF ForceEnd
  <2>3. QED
    BY <2>1, <2>2, LockKept
<1>9. QED
  BY <1>1, <1>2, <1>3, <1>4, <1>5, <1>6, <1>7, <1>8 DEF ForceReleases

LEMMA LockContinue ==
  ASSUME TypeOK, LockProtocol, NEW t \in Threads, Continue(t)
  PROVE  LockProtocol'
<1> USE DEF lockVars, argVars, Goto, Acquire, Release, PCs, WaitPCs, ForcePCs, PresentPCs,
        Critical
<1>1. CASE FlushEvent(t)
  BY <1>1, LockStutter DEF FlushEvent
<1>2. CASE ForceReleases(t)
  BY <1>2, LockForce
<1>3. CASE PRESENTPixmapPrepare(t)
  BY <1>3, LockTaken DEF PRESENTPixmapPrepare
<1>4. CASE PRESENTPrivChangeWindow(t)
  BY <1>4, LockKept DEF PRESENTPrivChangeWindow
<1>5. CASE ChangeWindowSelect(t)
  BY <1>5, LockKept DEF ChangeWindowSelect
<1>6. CASE PrepareEnd(t)
  BY <1>6, LockReleased DEF PrepareEnd
<1>7. CASE PRESENTPixmap(t)
  BY <1>7, LockKept DEF PRESENTPixmap
<1>8. CASE WaitLock(t)
  BY <1>8, LockTaken DEF WaitLock
<1>9. CASE WaitFlushEnd(t)
  BY <1>9, LockKept DEF WaitFlushEnd
<1>10. CASE WaitReturn(t)
  BY <1>10, LockReleased DEF WaitReturn
<1>11. CASE WaitBehind(t)
  <2>1. CASE pc[t] = "check" /\ Goto(t, "behind") /\ UNCHANGED lockVars
    BY <2>1, LockKept
  <2>2. CASE pc[t] = "behind" /\ Release /\ Goto(t, "sleep") /\ UNCHANGED <<mutexXcbWait, xcbWait>>
    BY <2>2, LockReleased
  <2>3. QED
    BY <1>11, <2>1, <2>2 DEF WaitBehind
<1>12. CASE WaitWake(t)
  BY <1>12, LockTaken DEF WaitWake
<1>13. CASE PRESENTwait_events(t)
  \* xcb_wait is set by the one thread that holds mutex_present.
  <2> USE <1>13, ThreadAssumption
          DEF PRESENTwait_events, LockProtocol, TypeOK, LockTypeOK, ThreadTypeOK
  <2>1. mutexPresent = t /\ \A u \in Threads : u # t => pc[u] \notin Critical
    OBVIOUS
  <2>2. \A u \in Threads : pc[u] \notin {"xcb", "got"}
    OBVIOUS
  <2>3. pc'[t] = "xcb" /\ \A u \in Threads : u # t => pc'[u] = pc[u]
    OBVIOUS
  <2>4. QED
    BY <2>1, <2>2, <2>3
<1>14. CASE TakeEvent(t)
  <2> USE <1>14, ThreadAssumption
          DEF TakeEvent, LockProtocol, TypeOK, LockTypeOK, ThreadTypeOK
  <2>1. mutexXcbWait = t
    OBVIOUS
  <2>2. pc'[t] = "got" /\ \A u \in Threads : u # t => pc'[u] = pc[u]
    OBVIOUS
  <2>3. QED
    BY <2>1, <2>2
<1>15. CASE HandleTaken(t)
  <2> USE <1>15, ThreadAssumption
          DEF HandleTaken, LockProtocol, TypeOK, LockTypeOK, ThreadTypeOK
  <2>1. \A u \in Threads : pc[u] \notin Critical /\ pc[u] # "xcb"
    OBVIOUS
  <2>2. \A u \in Threads : u # t => pc'[u] = pc[u] /\ pc'[u] # "got"
    OBVIOUS
  <2>3. \/ pc'[t] = "idle" /\ mutexPresent' = NoThread
        \/ pc'[t] = "check" /\ mutexPresent' = t
    OBVIOUS
  <2>4. ~xcbWait' /\ mutexXcbWait' = mutexXcbWait
    OBVIOUS
  <2>5. QED
    BY <2>1, <2>2, <2>3, <2>4
<1>16. CASE PRESENTIsPixmapReleased(t)
  BY <1>16, LockReleased DEF PRESENTIsPixmapReleased
<1>17. CASE PRESENTDestroy(t)
  BY <1>17, LockReleased DEF PRESENTDestroy
<1>18. QED
  BY <1>1, <1>2, <1>3, <1>4, <1>5, <1>6, <1>7, <1>8, <1>9, <1>10, <1>11, <1>12, <1>13,
     <1>14, <1>15, <1>16, <1>17 DEF Continue

\* Every lock is held by the thread the code says holds it.
THEOREM LocksHeld == Spec => []LockProtocol
<1>1. TypeOK /\ LockProtocol /\ [Next]_vars => LockProtocol'
  <2>1. CASE UNCHANGED vars
    BY <2>1, LockStutter DEF vars, lockVars
  <2>2. CASE Server
    BY <2>2, LockStutter DEF Server, lockVars
  <2>3. QED
    BY <2>1, <2>2, LockCall, LockContinue DEF Next
<1>2. QED
  BY <1>1, LockInit, TypeCorrect, PTL DEF Spec

\* At most one thread takes events off the special event queue, for any
\* number of threads, whatever calls they make and whatever the server does.
THEOREM EventsNotStolen == Spec => []OneReader
<1>1. TypeOK /\ LockProtocol => OneReader
  <2> SUFFICES ASSUME TypeOK, LockProtocol, NEW t \in Threads, NEW u \in Threads,
                      Reads(t), Reads(u)
               PROVE  t = u
    BY DEF OneReader
  <2> USE DEF Flushes, AssertingFlushes, Critical, ForcePCs, LockProtocol
  <2>1. ASSUME NEW v \in Threads, Reads(v)
        PROVE  pc[v] = "xcb" \/ pc[v] \in Critical
    BY <2>1 DEF Reads
  <2>2. ASSUME NEW v \in Threads, NEW x \in Threads, Reads(v), pc[v] # "xcb", pc[x] = "xcb"
        PROVE  FALSE
    BY <2>2, ThreadAssumption DEF Reads, MayFlush
  <2>3. QED
    BY <2>1, <2>2
<1>2. QED
  BY <1>1, TypeCorrect, LocksHeld, PTL
=============================================================================
