-------------------------- MODULE XcbBufferProofs --------------------------
(***************************************************************************)
(* Who has a buffer: proofs for any threads, pixmaps, windows and failures *)
(* that the backend calls a pixmap released only when the server is done   *)
(* with it, and that it implements BufferRelease.                          *)
(***************************************************************************)
EXTENDS XcbPresentProofs

---------------------------------------------------------------------------
(* The calls: arguments and locals of a thread. *)

\* PRESENThandle_events marks pixmaps released and unmarks none.
LEMMA HandleReleases ==
  ASSUME NEW e, PRESENThandle_events(e), NEW p \in Pixmaps
  PROVE  released'[p] = (released[p] \/ Idles(e, p))
BY DEF PRESENThandle_events

\* A thread about to send a presentation has a pixmap.
LEMMA Presented ==
  ASSUME TypeOK, CallInvariant, NEW t \in Threads, pc[t] = "pixmap"
  PROVE  buf[t] \in Pixmaps /\ buf[t] \in listed /\ released[buf[t]] /\ device # "closing"
<1>1. device # "closing"
  BY DEF CallInvariant, ForcePCs
<1>2. buf[t] # NoPixmap
  BY <1>1 DEF CallInvariant, PresentPCs
<1>3. QED
  BY <1>1, <1>2 DEF CallInvariant, TypeOK, ThreadTypeOK

\* Steps that leave the threads, the handles and the list alone.
LEMMA CallStutter ==
  ASSUME TypeOK, CallInvariant, UNCHANGED <<handle, listed, pc, buf, hand, device>>,
         \A p \in Pixmaps : released[p] => released'[p]
  PROVE  CallInvariant'
<1>1. \A t \in Threads : pc'[t] = "pixmap" => released'[buf'[t]]
  BY Presented DEF CallInvariant
<1>2. QED
  BY <1>1 DEF CallInvariant

\* A step of one thread inside a call.
LEMMA CallKept ==
  ASSUME TypeOK, CallInvariant, NEW t \in Threads, NEW l \in PCs, pc' = [pc EXCEPT ![t] = l],
         UNCHANGED <<handle, listed, buf, hand, device>>,
         \A p \in Pixmaps : released[p] => released'[p],
         l \in {"idle", "rflush"} => buf[t] = NoPixmap,
         l \in PresentPCs \cup ForcePCs => pc[t] \in PresentPCs \cup ForcePCs,
         l = "pixmap" => released[buf[t]],
         pc[t] # "got", l # "got",
         l = "free" => device = "closing",
         device = "closing" => l \in {"idle", "free"} \cup ForcePCs
  PROVE  CallInvariant'
<1> USE DEF TypeOK, ThreadTypeOK
<1>1. pc'[t] = l /\ \A u \in Threads : u # t => pc'[u] = pc[u]
  OBVIOUS
<1>2. handle' \subseteq listed'
  BY DEF CallInvariant
<1>3. \A u \in Threads : pc'[u] \in {"idle", "rflush"} => buf'[u] = NoPixmap
  BY <1>1 DEF CallInvariant
<1>4. \A u \in Threads :
        pc'[u] \in PresentPCs \cup ForcePCs => buf'[u] # NoPixmap \/ device' = "closing"
  BY <1>1 DEF CallInvariant
<1>5. \A u \in Threads : buf'[u] # NoPixmap => buf'[u] \in listed'
  BY DEF CallInvariant
<1>6. \A u, v \in Threads : buf'[u] = buf'[v] /\ buf'[u] # NoPixmap => u = v
  BY DEF CallInvariant
<1>7. ASSUME NEW u \in Threads, pc'[u] = "pixmap"
      PROVE  released'[buf'[u]]
  <2>1. CASE u = t
    <3>1. buf[t] \in Pixmaps
      BY <1>1, <1>4, <1>7, <2>1 DEF PresentPCs, CallInvariant, ForcePCs
    <3>2. QED
      BY <1>1, <1>7, <2>1, <3>1
  <2>2. CASE u # t
    BY <1>1, <1>7, <2>2, Presented
  <2>3. QED
    BY <2>1, <2>2
<1>8. \A u \in Threads : pc'[u] # "got" => hand'[u] = NullEvent
  BY <1>1 DEF CallInvariant
<1>9. \A u \in Threads : pc'[u] = "free" => device' = "closing"
  BY <1>1 DEF CallInvariant
<1>10. device' = "closing" =>
         /\ handle' = {}
         /\ \A u \in Threads : pc'[u] \in {"idle", "free"} \cup ForcePCs /\ buf'[u] = NoPixmap
  BY <1>1 DEF CallInvariant
<1>11. QED
  BY <1>2, <1>3, <1>4, <1>5, <1>6, <1>7, <1>8, <1>9, <1>10 DEF CallInvariant

\* A call on a buffer that no other call is using.
LEMMA CallBegun ==
  ASSUME TypeOK, CallInvariant, NEW t \in Threads, NEW p \in Pixmaps, p \in handle, Unused(p),
         NEW l \in {"prepare", "wait"}, pc[t] = "idle", pc' = [pc EXCEPT ![t] = l],
         buf' = [buf EXCEPT ![t] = p], UNCHANGED <<handle, listed, hand, device, released>>
  PROVE  CallInvariant'
<1> USE DEF TypeOK, ThreadTypeOK
<1>1. /\ pc'[t] = l /\ buf'[t] = p
      /\ \A u \in Threads : u # t => pc'[u] = pc[u] /\ buf'[u] = buf[u]
  OBVIOUS
<1>2. p # NoPixmap
  BY ServerAssumption
<1>3. device # "closing"
  BY DEF CallInvariant
<1>4. \A u, v \in Threads : buf'[u] = buf'[v] /\ buf'[u] # NoPixmap => u = v
  BY <1>1 DEF CallInvariant, Unused
<1>5. QED
  BY <1>1, <1>2, <1>3, <1>4 DEF CallInvariant

LEMMA CallInit == Init => CallInvariant
BY ThreadAssumption DEF Init, CallInvariant, PresentPCs, ForcePCs

\* Every call keeps the invariant.
LEMMA CallStarts ==
  ASSUME TypeOK, CallInvariant, NEW t \in Threads, Call(t)
  PROVE  CallInvariant'
<1> USE DEF deviceVars, lockVars, argVars, eventVars, serverVars, Goto, Acquire, PCs,
        WaitPCs, ForcePCs, PresentPCs
<1>1. CASE PRESENTInit(t)
  <2>1. UNCHANGED <<handle, listed, pc, buf, hand, released>> /\ device' # "closing" /\ device # "closing"
    BY <1>1 DEF PRESENTInit
  <2>2. QED
    BY <2>1 DEF CallInvariant
<1>2. ASSUME NEW p \in Pixmaps, PRESENTPixmapInit(t, p)
      PROVE  CallInvariant'
  <2>1. /\ UNCHANGED <<pc, buf, hand, device>>
        /\ device # "closing"
        /\ listed' = listed \cup {p}
        /\ handle' = handle \cup {p}
    BY <1>2 DEF PRESENTPixmapInit
  <2>2. \A q \in Pixmaps : released[q] => released'[q]
    BY <1>2 DEF PRESENTPixmapInit, TypeOK, EventTypeOK
  <2>3. \A u \in Threads : pc'[u] = "pixmap" => released'[buf'[u]]
    BY <2>1, <2>2, Presented
  <2>4. QED
    BY <2>1, <2>3 DEF CallInvariant
<1>3. ASSUME NEW p \in Pixmaps, PRESENTTryFreePixmap(t, p)
      PROVE  CallInvariant'
  <2>1. /\ UNCHANGED <<pc, buf, hand, device, released>>
        /\ handle' = handle \ {p}
        /\ listed' = listed \/ listed' = listed \ {p}
        /\ \A u \in Threads : buf[u] # p
    BY <1>3 DEF PRESENTTryFreePixmap, Unused
  <2>2. QED
    BY <2>1 DEF CallInvariant
<1>4. ASSUME NEW p \in Pixmaps, NEW w \in Windows, BeginPresentBuffer(t, p, w)
      PROVE  CallInvariant'
  BY <1>4, CallBegun DEF BeginPresentBuffer
<1>5. ASSUME NEW p \in Pixmaps, BeginWaitBuffer(t, p)
      PROVE  CallInvariant'
  BY <1>5, CallBegun DEF BeginWaitBuffer
<1>6. CASE BeginWaitEvent(t)
  <2>1. device # "closing"
    BY <1>6 DEF BeginWaitEvent, CallInvariant
  <2>2. QED
    BY <1>6, <2>1, CallKept DEF BeginWaitEvent
<1>7. CASE BeginIsReleased(t)
  <2>1. device # "closing"
    BY <1>7 DEF BeginIsReleased, CallInvariant
  <2>2. pc[t] = "idle" /\ buf[t] = NoPixmap
    BY <1>7 DEF BeginIsReleased, CallInvariant
  <2>3. QED
    BY <1>7, <2>1, <2>2, CallKept DEF BeginIsReleased
<1>8. CASE BeginDestroy(t)
  <2>1. /\ device' = "closing" /\ handle' = {}
        /\ UNCHANGED <<buf, hand, listed, released>>
        /\ \A u \in Threads : pc[u] = "idle"
        /\ \A u \in Threads : pc'[u] \in {"idle", "force"}
    BY <1>8 DEF BeginDestroy, TypeOK, ThreadTypeOK
  <2>2. \A u \in Threads : buf[u] = NoPixmap
    BY <2>1 DEF CallInvariant
  <2>3. QED
    BY <2>1, <2>2 DEF CallInvariant
<1>9. QED
  BY <1>1, <1>2, <1>3, <1>4, <1>5, <1>6, <1>7, <1>8 DEF Call

\* PRESENTForceReleases, on behalf of a presentation or of the destruction.
LEMMA CallForce ==
  ASSUME TypeOK, CallInvariant, NEW t \in Threads, ForceReleases(t)
  PROVE  CallInvariant'
<1> USE DEF deviceVars, lockVars, argVars, eventVars, serverVars, Goto, PCs, WaitPCs, ForcePCs,
        PresentPCs
<1>1. CASE ForceBegin(t)
  <2>1. PICK l \in {"handshake", "drain"} : pc' = [pc EXCEPT ![t] = l]
    BY <1>1 DEF ForceBegin
  <2>2. QED
    BY <1>1, <2>1, CallKept DEF ForceBegin
<1>2. CASE ForceHandshake(t)
  BY <1>2, CallKept DEF ForceHandshake
<1>3. CASE ForceDrain(t)
  <2>1. CASE WaitEvent /\ UNCHANGED pc
    BY <2>1, CallStutter, HandleReleases DEF WaitEvent
  <2>2. CASE pc[t] = "drain" /\ Goto(t, "dflush") /\ UNCHANGED <<eventVars, deviceVars, argVars>>
    BY <2>2, CallKept
  <2>3. CASE pc[t] = "drain1" /\ Goto(t, "d1flush") /\ UNCHANGED <<eventVars, deviceVars, argVars>>
    BY <2>3, CallKept
  <2>4. QED
    BY <1>3, <2>1, <2>2, <2>3, Zenon DEF ForceDrain
<1>4. CASE ForceNotify(t)
  BY <1>4, CallKept DEF ForceNotify
<1>5. CASE ForceWalk(t)
  BY <1>5, CallKept DEF ForceWalk
<1>6. ASSUME NEW p \in Pixmaps, ForcePixmap(t, p)
      PROVE  CallInvariant'
  <2>1. CASE Unexplained(p)
    BY <1>6, <2>1, CallStutter DEF ForcePixmap
  <2>2. CASE ~Unexplained(p)
    BY <1>6, <2>2, CallKept DEF ForcePixmap
  <2>3. QED
    BY <2>1, <2>2
<1>7. CASE ForceWait(t)
  <2>1. CASE pc[t] = "forced" /\ WaitEvent /\ Goto(t, "fflush")
    BY <2>1, CallKept, HandleReleases DEF WaitEvent
  <2>2. CASE pc[t] = "fflush" /\ Goto(t, "walk") /\ UNCHANGED <<eventVars, deviceVars, argVars>>
    BY <2>2, CallKept
  <2>3. QED
    BY <1>7, <2>1, <2>2 DEF ForceWait
<1>8. CASE ForceEnd(t)
  <2>1. CASE device = "closing"
    BY <1>8, <2>1, CallKept DEF ForceEnd
  <2>2. CASE device # "closing"
    BY <1>8, <2>2, CallKept DEF ForceEnd
  <2>3. QED
    BY <2>1, <2>2
<1>9. QED
  BY <1>1, <1>2, <1>3, <1>4, <1>5, <1>6, <1>7, <1>8 DEF ForceReleases

\* A call returns and forgets its buffer.
LEMMA CallEnded ==
  ASSUME TypeOK, CallInvariant, NEW t \in Threads, device # "closing",
         pc' = [pc EXCEPT ![t] = "idle"], buf' = [buf EXCEPT ![t] = NoPixmap],
         hand' = [hand EXCEPT ![t] = NullEvent], UNCHANGED <<handle, listed, device>>,
         \A p \in Pixmaps : p # buf[t] /\ released[p] => released'[p]
  PROVE  CallInvariant'
<1> USE DEF TypeOK, ThreadTypeOK
<1>1. /\ pc'[t] = "idle" /\ buf'[t] = NoPixmap /\ hand'[t] = NullEvent
      /\ \A u \in Threads : u # t => pc'[u] = pc[u] /\ buf'[u] = buf[u] /\ hand'[u] = hand[u]
  OBVIOUS
<1>2. \A u \in Threads : pc'[u] = "pixmap" => released'[buf'[u]]
  <2>1. TAKE u \in Threads
  <2>2. HAVE pc'[u] = "pixmap"
  <2>3. u # t /\ pc[u] = "pixmap" /\ buf'[u] = buf[u]
    BY <1>1, <2>2
  <2>4. buf[u] \in Pixmaps /\ released[buf[u]] /\ buf[u] # NoPixmap
    BY <2>3, Presented, ServerAssumption
  <2>5. buf[u] # buf[t]
    BY <2>3, <2>4 DEF CallInvariant
  <2>6. QED
    BY <2>3, <2>4, <2>5
<1>3. QED
  BY <1>1, <1>2 DEF CallInvariant, PresentPCs, ForcePCs

\* Every step of a call under way keeps the invariant.
LEMMA CallContinues ==
  ASSUME TypeOK, LockProtocol, CallInvariant, NEW t \in Threads, Continue(t)
  PROVE  CallInvariant'
<1> USE DEF deviceVars, lockVars, argVars, eventVars, serverVars, Goto, Acquire, Release, PCs,
        WaitPCs, ForcePCs, PresentPCs
<1>0. pc[t] \notin {"idle", "free"} \cup ForcePCs => device # "closing"
  BY DEF CallInvariant
<1>00. pc[t] # "got" => hand = [hand EXCEPT ![t] = NullEvent]
  BY DEF CallInvariant, TypeOK, ThreadTypeOK
<1>1. CASE FlushEvent(t)
  BY <1>1, CallStutter, HandleReleases DEF FlushEvent
<1>2. CASE ForceReleases(t)
  BY <1>2, CallForce
<1>3. CASE PRESENTPixmapPrepare(t)
  <2>1. PICK l \in {"force", "pflush"} : pc' = [pc EXCEPT ![t] = l]
    BY <1>3 DEF PRESENTPixmapPrepare
  <2>2. QED
    BY <1>0, <1>3, <2>1, CallKept DEF PRESENTPixmapPrepare
<1>4. CASE PRESENTPrivChangeWindow(t)
  <2>1. PICK l \in {"select", "pflush"} : pc' = [pc EXCEPT ![t] = l]
    BY <1>4 DEF PRESENTPrivChangeWindow
  <2>2. pc[t] = "change" /\ UNCHANGED <<handle, listed, buf, hand, device, released>>
    BY <1>4 DEF PRESENTPrivChangeWindow
  <2>3. QED
    BY <1>0, <2>1, <2>2, CallKept
<1>5. CASE ChangeWindowSelect(t)
  <2>1. /\ pc[t] = "select" /\ UNCHANGED <<handle, listed, buf, hand, device, released>>
        /\ pc' = [pc EXCEPT ![t] = "pflush"]
    BY <1>5 DEF ChangeWindowSelect
  <2>2. QED
    BY <1>0, <2>1, CallKept
<1>6. CASE PrepareEnd(t)
  <2>1. CASE released[buf[t]]
    BY <1>0, <1>6, <2>1, CallKept DEF PrepareEnd
  <2>2. CASE ~released[buf[t]]
    BY <1>0, <1>00, <1>6, <2>2, CallEnded DEF PrepareEnd
  <2>3. QED
    BY <2>1, <2>2
<1>7. CASE PRESENTPixmap(t)
  <2>1. \A p \in Pixmaps : p # buf[t] /\ released[p] => released'[p]
    BY <1>7 DEF PRESENTPixmap, TypeOK, EventTypeOK
  <2>2. QED
    BY <1>0, <1>00, <1>7, <2>1, CallEnded DEF PRESENTPixmap
<1>8. CASE WaitLock(t)
  <2>1. PICK l \in {"check", "wflush"} : pc' = [pc EXCEPT ![t] = l]
    BY <1>8 DEF WaitLock
  <2>2. QED
    BY <1>0, <1>8, <2>1, CallKept DEF WaitLock
<1>9. CASE WaitFlushEnd(t)
  BY <1>0, <1>9, CallKept DEF WaitFlushEnd
<1>10. CASE WaitReturn(t)
  BY <1>0, <1>00, <1>10, CallEnded DEF WaitReturn
<1>11. CASE WaitBehind(t)
  <2>1. /\ pc[t] \in {"check", "behind"}
        /\ UNCHANGED <<handle, listed, buf, hand, device, released>>
    BY <1>11 DEF WaitBehind
  <2>2. PICK l \in {"behind", "sleep"} : pc' = [pc EXCEPT ![t] = l]
    BY <1>11 DEF WaitBehind
  <2>3. QED
    BY <1>0, <2>1, <2>2, CallKept
<1>12. CASE WaitWake(t)
  BY <1>0, <1>12, CallKept DEF WaitWake
<1>13. CASE PRESENTwait_events(t)
  BY <1>0, <1>13, CallKept DEF PRESENTwait_events
<1>14. CASE TakeEvent(t)
  <2>1. /\ pc[t] = "xcb" /\ pc' = [pc EXCEPT ![t] = "got"]
        /\ hand' = [hand EXCEPT ![t] = Received]
        /\ UNCHANGED <<handle, listed, buf, device, released>>
    BY <1>14 DEF TakeEvent
  <2>2. /\ pc'[t] = "got"
        /\ \A u \in Threads : u # t => pc'[u] = pc[u] /\ hand'[u] = hand[u]
    BY <2>1 DEF TypeOK, ThreadTypeOK
  <2>3. QED
    BY <1>0, <2>1, <2>2 DEF CallInvariant
<1>15. CASE HandleTaken(t)
  <2>1. \A p \in Pixmaps : released[p] => released'[p]
    BY <1>15, HandleReleases DEF HandleTaken
  <2>2. CASE hand[t] = NullEvent
    BY <1>0, <1>15, <2>1, <2>2, CallEnded DEF HandleTaken
  <2>3. CASE hand[t] # NullEvent
    <3>1. /\ pc[t] = "got" /\ pc' = [pc EXCEPT ![t] = "check"]
          /\ hand' = [hand EXCEPT ![t] = NullEvent]
          /\ UNCHANGED <<handle, listed, buf, device>>
      BY <1>15, <2>3 DEF HandleTaken
    <3>2. /\ pc'[t] = "check" /\ hand'[t] = NullEvent
          /\ \A u \in Threads : u # t => pc'[u] = pc[u] /\ hand'[u] = hand[u]
      BY <3>1 DEF TypeOK, ThreadTypeOK
    <3>3. \A u \in Threads : pc'[u] = "pixmap" => released'[buf'[u]]
      BY <2>1, <3>1, <3>2, Presented
    <3>4. QED
      BY <1>0, <3>1, <3>2, <3>3 DEF CallInvariant
  <2>4. QED
    BY <2>2, <2>3
<1>16. CASE PRESENTIsPixmapReleased(t)
  <2>1. pc[t] = "rflush" /\ pc' = [pc EXCEPT ![t] = "idle"] /\ buf' = buf
    BY <1>16 DEF PRESENTIsPixmapReleased
  <2>2. buf[t] = NoPixmap /\ device # "closing"
    BY <1>0, <2>1 DEF CallInvariant
  <2>3. QED
    BY <1>16, <2>1, <2>2, CallKept DEF PRESENTIsPixmapReleased
<1>17. CASE PRESENTDestroy(t)
  <2>1. /\ pc[t] = "free" /\ pc' = [pc EXCEPT ![t] = "idle"]
        /\ device' = "absent" /\ listed' = {} /\ UNCHANGED <<handle, buf, hand>>
    BY <1>17 DEF PRESENTDestroy
  <2>2. device = "closing"
    BY <2>1 DEF CallInvariant
  <2>3. /\ handle = {}
        /\ \A u \in Threads : buf[u] = NoPixmap /\ pc[u] \in {"idle", "free"} \cup ForcePCs
    BY <2>2 DEF CallInvariant
  <2>4. \A u \in Threads : u # t => pc[u] = "idle"
    BY <2>1, <2>3 DEF LockProtocol, Critical
  <2>5. \A u \in Threads : pc'[u] = "idle"
    BY <2>1, <2>4 DEF TypeOK, ThreadTypeOK
  <2>6. \A u \in Threads : hand'[u] = NullEvent
    BY <2>1, <2>3 DEF CallInvariant
  <2>7. QED
    BY <2>1, <2>3, <2>5, <2>6 DEF CallInvariant
<1>18. QED
  BY <1>1, <1>2, <1>3, <1>4, <1>5, <1>6, <1>7, <1>8, <1>9, <1>10, <1>11, <1>12, <1>13,
     <1>14, <1>15, <1>16, <1>17 DEF Continue

LEMMA CallStep == TypeOK /\ LockProtocol /\ CallInvariant /\ [Next]_vars => CallInvariant'
<1>1. CASE UNCHANGED vars
  BY <1>1 DEF vars, deviceVars, argVars, eventVars, CallInvariant
<1>2. TypeOK /\ CallInvariant /\ Server => CallInvariant'
  BY CallStutter DEF Server, deviceVars, argVars, eventVars
<1>3. QED
  BY <1>1, <1>2, CallStarts, CallContinues DEF Next

---------------------------------------------------------------------------
(* The window of a presentation, kept by context_section.                  *)

LEMMA WindowInit == Init => WindowInvariant
BY DEF Init, WindowInvariant, PresentPCs, ForcePCs

\* Steps that leave the threads, the window and context_section alone.
LEMMA WindowStutter ==
  ASSUME WindowInvariant, UNCHANGED <<window, pc, dest, contextSection, device>>
  PROVE  WindowInvariant'
BY DEF WindowInvariant

\* A step of one thread that leaves the window and context_section alone.
LEMMA WindowKept ==
  ASSUME TypeOK, WindowInvariant, NEW t \in Threads, NEW l \in PCs, pc' = [pc EXCEPT ![t] = l],
         UNCHANGED <<window, dest, contextSection, device>>,
         l \in PresentPCs => contextSection = t,
         l \in ForcePCs => contextSection = t \/ device = "closing",
         l = "select" => window = dest[t],
         l \in {"pflush", "pixmap"} => window \in {dest[t], NoWindow}
  PROVE  WindowInvariant'
<1>1. pc'[t] = l /\ \A u \in Threads : u # t => pc'[u] = pc[u]
  BY DEF TypeOK, ThreadTypeOK
<1>2. QED
  BY <1>1 DEF WindowInvariant

\* context_section is the presenting thread's alone.
LEMMA OnlyPresents ==
  ASSUME TypeOK, CallInvariant, WindowInvariant, NEW t \in Threads, pc[t] \in PresentPCs
  PROVE  \A u \in Threads : u # t => pc[u] \notin PresentPCs \cup ForcePCs
<1>1. device # "closing"
  BY DEF CallInvariant, PresentPCs, ForcePCs
<1>2. contextSection = t
  BY DEF WindowInvariant
<1>3. QED
  BY <1>1, <1>2 DEF WindowInvariant

\* The step of the presenting thread that changes the window, or returns.
LEMMA WindowMoved ==
  ASSUME TypeOK, CallInvariant, WindowInvariant, NEW t \in Threads, pc[t] \in PresentPCs,
         NEW l \in {"select", "pflush", "idle"}, pc' = [pc EXCEPT ![t] = l],
         l # "idle" => UNCHANGED <<dest, contextSection>>,
         l = "select" => window' = dest[t],
         l = "pflush" => window' \in {dest[t], NoWindow}
  PROVE  WindowInvariant'
<1>1. pc'[t] = l /\ \A u \in Threads : u # t => pc'[u] = pc[u]
  BY DEF TypeOK, ThreadTypeOK
<1>2. \A u \in Threads : u # t => pc'[u] \notin PresentPCs \cup ForcePCs
  BY <1>1, OnlyPresents
<1>3. l # "idle" => contextSection' = t
  BY DEF WindowInvariant
<1>4. QED
  BY <1>1, <1>2, <1>3 DEF WindowInvariant, PresentPCs, ForcePCs

LEMMA WindowCall ==
  ASSUME TypeOK, CallInvariant, WindowInvariant, NEW t \in Threads, Call(t)
  PROVE  WindowInvariant'
<1> USE DEF deviceVars, lockVars, argVars, eventVars, Goto, Acquire, PCs, WaitPCs, ForcePCs,
        PresentPCs
<1>1. CASE PRESENTInit(t)
  BY <1>1 DEF PRESENTInit, WindowInvariant
<1>2. ASSUME NEW p \in Pixmaps, PRESENTPixmapInit(t, p)
      PROVE  WindowInvariant'
  BY <1>2, WindowStutter DEF PRESENTPixmapInit
<1>3. ASSUME NEW p \in Pixmaps, PRESENTTryFreePixmap(t, p)
      PROVE  WindowInvariant'
  BY <1>3, WindowStutter DEF PRESENTTryFreePixmap
<1>4. ASSUME NEW p \in Pixmaps, NEW w \in Windows, BeginPresentBuffer(t, p, w)
      PROVE  WindowInvariant'
  <2>1. device # "closing"
    BY <1>4 DEF BeginPresentBuffer, CallInvariant
  <2>2. contextSection = NoThread /\ contextSection' = t /\ pc' = [pc EXCEPT ![t] = "prepare"]
    BY <1>4 DEF BeginPresentBuffer
  <2>3. \A u \in Threads : pc[u] \notin PresentPCs \cup ForcePCs
    BY <2>1, <2>2, ThreadAssumption DEF WindowInvariant
  <2>4. pc'[t] = "prepare" /\ \A u \in Threads : u # t => pc'[u] = pc[u]
    BY <2>2 DEF TypeOK, ThreadTypeOK
  <2>5. QED
    BY <2>2, <2>3, <2>4 DEF WindowInvariant
<1>5. ASSUME NEW p \in Pixmaps, BeginWaitBuffer(t, p)
      PROVE  WindowInvariant'
  BY <1>5, WindowKept DEF BeginWaitBuffer
<1>6. CASE BeginWaitEvent(t)
  BY <1>6, WindowKept DEF BeginWaitEvent
<1>7. CASE BeginIsReleased(t)
  BY <1>7, WindowKept DEF BeginIsReleased
<1>8. CASE BeginDestroy(t)
  <2>1. /\ device' = "closing"
        /\ \A u \in Threads : pc'[u] \in {"idle", "force"}
    BY <1>8 DEF BeginDestroy, TypeOK, ThreadTypeOK
  <2>2. QED
    BY <2>1 DEF WindowInvariant
<1>9. QED
  BY <1>1, <1>2, <1>3, <1>4, <1>5, <1>6, <1>7, <1>8 DEF Call

LEMMA WindowForce ==
  ASSUME TypeOK, CallInvariant, WindowInvariant, NEW t \in Threads, ForceReleases(t)
  PROVE  WindowInvariant'
<1> USE DEF deviceVars, lockVars, argVars, Goto, PCs, WaitPCs, ForcePCs, PresentPCs
<1>1. pc[t] \in ForcePCs
  BY DEF ForceReleases, ForceBegin, ForceHandshake, ForceDrain, ForceNotify, ForceWalk,
         ForcePixmap, ForceWait, ForceEnd
<1>2. contextSection = t \/ device = "closing"
  BY <1>1 DEF WindowInvariant
<1>3. UNCHANGED <<window, dest, contextSection, device>>
  BY DEF ForceReleases, ForceBegin, ForceHandshake, ForceDrain, WaitEvent, ForceNotify,
         ForceWalk, ForcePixmap, ForceWait, ForceEnd
<1>4. CASE ForceEnd(t)
  <2>1. CASE device = "closing"
    BY <1>2, <1>3, <1>4, <2>1, WindowKept DEF ForceEnd
  <2>2. CASE device # "closing"
    BY <1>2, <1>3, <1>4, <2>2, WindowKept DEF ForceEnd
  <2>3. QED
    BY <2>1, <2>2
<1>5. CASE ~ForceEnd(t)
  <2>1. pc' = pc \/ \E l \in ForcePCs : pc' = [pc EXCEPT ![t] = l]
    BY <1>5 DEF ForceReleases, ForceBegin, ForceHandshake, ForceDrain, ForceNotify, ForceWalk,
                ForcePixmap, ForceWait
  <2>2. QED
    BY <1>2, <1>3, <2>1, WindowKept, WindowStutter
<1>6. QED
  BY <1>4, <1>5

LEMMA WindowContinue ==
  ASSUME TypeOK, LockProtocol, CallInvariant, WindowInvariant, NEW t \in Threads, Continue(t)
  PROVE  WindowInvariant'
<1> USE DEF deviceVars, lockVars, argVars, Goto, Acquire, Release, PCs, WaitPCs, ForcePCs,
        PresentPCs
<1>1. CASE FlushEvent(t)
  BY <1>1, WindowStutter DEF FlushEvent
<1>2. CASE ForceReleases(t)
  BY <1>2, WindowForce
<1>3. CASE PRESENTPixmapPrepare(t)
  <2>1. contextSection = t
    BY <1>3 DEF PRESENTPixmapPrepare, WindowInvariant
  <2>2. CASE dest[t] = window
    BY <1>3, <2>1, <2>2, WindowKept DEF PRESENTPixmapPrepare
  <2>3. CASE dest[t] # window
    BY <1>3, <2>1, <2>3, WindowKept DEF PRESENTPixmapPrepare
  <2>4. QED
    BY <2>2, <2>3
<1>4. CASE PRESENTPrivChangeWindow(t)
  BY <1>4, WindowMoved DEF PRESENTPrivChangeWindow
<1>5. CASE ChangeWindowSelect(t)
  <2>1. pc[t] = "select" /\ window = dest[t]
    BY <1>5 DEF ChangeWindowSelect, WindowInvariant
  <2>2. QED
    BY <1>5, <2>1, WindowMoved DEF ChangeWindowSelect
<1>6. CASE PrepareEnd(t)
  <2>1. pc[t] = "pflush" /\ contextSection = t /\ window \in {dest[t], NoWindow}
    BY <1>6 DEF PrepareEnd, WindowInvariant
  <2>2. CASE released[buf[t]]
    BY <1>6, <2>1, <2>2, WindowKept DEF PrepareEnd
  <2>3. CASE ~released[buf[t]]
    BY <1>6, <2>1, <2>3, WindowMoved DEF PrepareEnd
  <2>4. QED
    BY <2>2, <2>3
<1>7. CASE PRESENTPixmap(t)
  BY <1>7, WindowMoved DEF PRESENTPixmap
<1>8. CASE WaitLock(t)
  <2>1. PICK l \in {"check", "wflush"} : pc' = [pc EXCEPT ![t] = l]
    BY <1>8 DEF WaitLock
  <2>2. QED
    BY <1>8, <2>1, WindowKept DEF WaitLock
<1>9. CASE WaitFlushEnd(t)
  BY <1>9, WindowKept DEF WaitFlushEnd
<1>10. CASE WaitReturn(t)
  BY <1>10, WindowKept DEF WaitReturn
<1>11. CASE WaitBehind(t)
  <2>1. PICK l \in {"behind", "sleep"} : pc' = [pc EXCEPT ![t] = l]
    BY <1>11 DEF WaitBehind
  <2>2. QED
    BY <1>11, <2>1, WindowKept DEF WaitBehind
<1>12. CASE WaitWake(t)
  BY <1>12, WindowKept DEF WaitWake
<1>13. CASE PRESENTwait_events(t)
  BY <1>13, WindowKept DEF PRESENTwait_events
<1>14. CASE TakeEvent(t)
  BY <1>14, WindowKept DEF TakeEvent
<1>15. CASE HandleTaken(t)
  <2>1. PICK l \in {"idle", "check"} : pc' = [pc EXCEPT ![t] = l]
    BY <1>15 DEF HandleTaken
  <2>2. QED
    BY <1>15, <2>1, WindowKept DEF HandleTaken
<1>16. CASE PRESENTIsPixmapReleased(t)
  BY <1>16, WindowKept DEF PRESENTIsPixmapReleased
<1>17. CASE PRESENTDestroy(t)
  <2>1. pc[t] = "free" /\ pc' = [pc EXCEPT ![t] = "idle"]
    BY <1>17 DEF PRESENTDestroy
  <2>2. \A u \in Threads : pc[u] \in {"idle", "free"} \cup ForcePCs
    BY <2>1 DEF CallInvariant
  <2>3. \A u \in Threads : u # t => pc[u] = "idle"
    BY <2>1, <2>2 DEF LockProtocol, Critical
  <2>4. \A u \in Threads : pc'[u] = "idle"
    BY <2>1, <2>3 DEF TypeOK, ThreadTypeOK
  <2>5. QED
    BY <2>4 DEF WindowInvariant
<1>18. QED
  BY <1>1, <1>2, <1>3, <1>4, <1>5, <1>6, <1>7, <1>8, <1>9, <1>10, <1>11, <1>12, <1>13,
     <1>14, <1>15, <1>16, <1>17 DEF Continue

LEMMA WindowStep ==
  TypeOK /\ LockProtocol /\ CallInvariant /\ WindowInvariant /\ [Next]_vars => WindowInvariant'
<1>1. CASE UNCHANGED vars
  BY <1>1, WindowStutter DEF vars, deviceVars, argVars, lockVars
<1>2. WindowInvariant /\ Server => WindowInvariant'
  BY WindowStutter DEF Server, deviceVars, argVars, lockVars
<1>3. QED
  BY <1>1, <1>2, WindowCall, WindowContinue DEF Next

\* Between PRESENTPixmapPrepare and PRESENTPixmap nothing the presentation
\* relies on changes, though mutex_present is free, for any threads.
THEOREM PreparedHolds == Spec => []PreparedStays
<1>1. TypeOK /\ CallInvariant /\ WindowInvariant => PreparedStays
  BY Presented DEF PreparedStays, WindowInvariant
<1>2. TypeOK /\ LockProtocol /\ CallInvariant /\ WindowInvariant /\ [Next]_vars
        => CallInvariant' /\ WindowInvariant'
  BY CallStep, WindowStep
<1>3. Init => CallInvariant /\ WindowInvariant
  BY CallInit, WindowInit
<1>4. QED
  BY <1>1, <1>2, <1>3, TypeCorrect, LocksHeld, PTL DEF Spec

---------------------------------------------------------------------------
(* The idle events on their way.                                           *)

\* No idle event comes that did not come before.
Quiet(p) ==
  /\ NoIdleComing(p) => NoIdleComing(p)'
  /\ OneIdleComing(p) => OneIdleComing(p)'

\* The events are idle events of pixmaps of S at most, one of each.
Finishes(evs, S) ==
  \A p \in Pixmaps :
    /\ \A i \in 1..Len(evs) : evs[i] = IdleEvent(p) => p \in S
    /\ \A i, j \in 1..Len(evs) : evs[i] = IdleEvent(p) /\ evs[j] = IdleEvent(p) => i = j

LEMMA NullIsNotIdle == \A p : NullEvent # IdleEvent(p)
BY DEF NullEvent, IdleEvent

LEMMA QuietUnchanged == ASSUME UNCHANGED <<queue, hand>>, NEW p PROVE Quiet(p)
BY DEF Quiet, NoIdleComing, OneIdleComing

LEMMA QuietDropped == ASSUME queue' = <<>>, UNCHANGED hand, NEW p PROVE Quiet(p)
BY DEF Quiet, NoIdleComing, OneIdleComing

\* What the server appends.
LEMMA Appended ==
  ASSUME queue \in Seq(Events), UNCHANGED hand, NEW evs \in Seq(Events),
         queue' = queue \o evs \/ queue' = queue, NEW S, Finishes(evs, S), NEW p \in Pixmaps
  PROVE  /\ p \notin S => Quiet(p)
         /\ NoIdleComing(p) => OneIdleComing(p)'
<1>1. CASE queue' = queue
  BY <1>1, QuietUnchanged DEF NoIdleComing, OneIdleComing
<1>2. CASE queue' = queue \o evs
  <2>1. /\ Len(queue') = Len(queue) + Len(evs)
        /\ \A i \in 1..Len(queue) : queue'[i] = queue[i]
        /\ \A i \in Len(queue) + 1..Len(queue') : queue'[i] = evs[i - Len(queue)]
    BY <1>2
  <2>2. Len(queue) \in Nat /\ Len(evs) \in Nat
    OBVIOUS
  <2>3. ASSUME NEW i \in 1..Len(queue'), queue'[i] = IdleEvent(p), i \notin 1..Len(queue)
        PROVE  i - Len(queue) \in 1..Len(evs) /\ evs[i - Len(queue)] = IdleEvent(p)
    BY <2>1, <2>2, <2>3
  <2>4. ASSUME p \notin S, NEW i \in 1..Len(queue'), queue'[i] = IdleEvent(p)
        PROVE  i \in 1..Len(queue) /\ queue[i] = IdleEvent(p)
    BY <2>1, <2>3, <2>4 DEF Finishes
  <2>5. p \notin S => Quiet(p)
    BY <2>4 DEF Quiet, NoIdleComing, OneIdleComing
  <2>6. ASSUME NoIdleComing(p)
        PROVE  OneIdleComing(p)'
    <3>1. ASSUME NEW i \in 1..Len(queue'), queue'[i] = IdleEvent(p)
          PROVE  i - Len(queue) \in 1..Len(evs) /\ evs[i - Len(queue)] = IdleEvent(p)
      BY <2>1, <2>3, <2>6, <3>1 DEF NoIdleComing
    <3>2. ASSUME NEW i \in 1..Len(queue'), NEW j \in 1..Len(queue'),
                 queue'[i] = IdleEvent(p), queue'[j] = IdleEvent(p)
          PROVE  i = j
      <4>1. i - Len(queue) = j - Len(queue)
        BY <3>1, <3>2 DEF Finishes
      <4>2. QED
        BY <2>2, <4>1
    <3>3. \A t \in Threads : hand'[t] # IdleEvent(p)
      BY <2>6 DEF NoIdleComing
    <3>4. QED
      BY <3>2, <3>3 DEF OneIdleComing
  <2>7. QED
    BY <2>5, <2>6
<1>3. QED
  BY <1>1, <1>2

\* The head of the queue is read.
LEMMA Read ==
  ASSUME queue \in Seq(Events), queue # <<>>, queue' = Tail(queue), NEW p, UNCHANGED hand
  PROVE  /\ Quiet(p)
         /\ OneIdleComing(p) /\ Head(queue) = IdleEvent(p) => NoIdleComing(p)'
<1>1. /\ Len(queue) \in Nat \ {0} /\ Len(queue') = Len(queue) - 1
      /\ \A i \in 1..Len(queue') : i + 1 \in 1..Len(queue) /\ queue'[i] = queue[i + 1]
      /\ Head(queue) = queue[1]
  OBVIOUS
<1>2. NoIdleComing(p) => NoIdleComing(p)'
  BY <1>1 DEF NoIdleComing
<1>3. OneIdleComing(p) => OneIdleComing(p)'
  <2>1. ASSUME OneIdleComing(p), NEW i \in 1..Len(queue'), NEW j \in 1..Len(queue'),
               queue'[i] = IdleEvent(p), queue'[j] = IdleEvent(p)
        PROVE  i = j
    <3>1. i + 1 = j + 1
      BY <1>1, <2>1 DEF OneIdleComing
    <3>2. QED
      BY <3>1
  <2>2. QED
    BY <1>1, <2>1 DEF OneIdleComing
<1>4. ASSUME OneIdleComing(p), Head(queue) = IdleEvent(p)
      PROVE  NoIdleComing(p)'
  <2>1. 1 \in 1..Len(queue) /\ queue[1] = IdleEvent(p)
    BY <1>1, <1>4
  <2>2. ASSUME NEW i \in 1..Len(queue'), queue'[i] = IdleEvent(p)
        PROVE  FALSE
    <3>1. i + 1 \in 1..Len(queue) /\ queue[i + 1] = IdleEvent(p) /\ i + 1 # 1
      BY <1>1, <2>2
    <3>2. QED
      BY <1>4, <2>1, <3>1 DEF OneIdleComing
  <2>3. \A t \in Threads : hand'[t] # IdleEvent(p)
    BY <1>4, <2>1 DEF OneIdleComing
  <2>4. QED
    BY <2>2, <2>3 DEF NoIdleComing
<1>5. QED
  BY <1>2, <1>3, <1>4 DEF Quiet

\* A thread takes the event it waited for.
LEMMA Taken ==
  ASSUME TypeOK, NEW t \in Threads, hand[t] = NullEvent, Receive,
         hand' = [hand EXCEPT ![t] = Received], NEW p \in Pixmaps
  PROVE  Quiet(p)
<1> USE DEF TypeOK, ServerTypeOK, ThreadTypeOK
<1>1. hand'[t] = Received /\ \A u \in Threads : u # t => hand'[u] = hand[u]
  OBVIOUS
<1>2. CASE queue = <<>>
  <2>1. UNCHANGED <<queue, hand>>
    BY <1>2 DEF Receive, Received
  <2>2. QED
    BY <2>1, QuietUnchanged
<1>3. CASE queue # <<>>
  <2>1. /\ Len(queue) \in Nat \ {0} /\ Len(queue') = Len(queue) - 1
        /\ \A i \in 1..Len(queue') : i + 1 \in 1..Len(queue) /\ queue'[i] = queue[i + 1]
        /\ hand'[t] = queue[1] /\ 1 \in 1..Len(queue)
    BY <1>1, <1>3 DEF Receive, Received
  <2>2. NoIdleComing(p) => NoIdleComing(p)'
    BY <1>1, <2>1 DEF NoIdleComing
  <2>3. ASSUME OneIdleComing(p)
        PROVE  OneIdleComing(p)'
    <3>1. ASSUME NEW i \in 1..Len(queue'), NEW j \in 1..Len(queue'),
                 queue'[i] = IdleEvent(p), queue'[j] = IdleEvent(p)
          PROVE  i = j
      <4>1. /\ i + 1 \in 1..Len(queue) /\ queue[i + 1] = IdleEvent(p)
            /\ j + 1 \in 1..Len(queue) /\ queue[j + 1] = IdleEvent(p)
        BY <2>1, <3>1
      <4>2. \A k, l \in 1..Len(queue) :
              queue[k] = IdleEvent(p) /\ queue[l] = IdleEvent(p) => k = l
        BY <2>3 DEF OneIdleComing
      <4>3. i + 1 = j + 1
        BY ONLY <4>1, <4>2
      <4>4. QED
        BY <4>3
    <3>2. ASSUME NEW i \in 1..Len(queue'), NEW u \in Threads,
                 queue'[i] = IdleEvent(p), hand'[u] = IdleEvent(p)
          PROVE  FALSE
      <4>1. i + 1 \in 1..Len(queue) /\ queue[i + 1] = IdleEvent(p) /\ i + 1 # 1
        BY <2>1, <3>2
      <4>2. CASE u = t
        BY <2>1, <2>3, <3>2, <4>1, <4>2 DEF OneIdleComing
      <4>3. CASE u # t
        BY <1>1, <2>3, <3>2, <4>1, <4>3 DEF OneIdleComing
      <4>4. QED
        BY <4>2, <4>3
    <3>3. QED
      BY <3>1, <3>2 DEF OneIdleComing
  <2>4. QED
    BY <2>2, <2>3 DEF Quiet
<1>4. QED
  BY <1>2, <1>3

\* The event a thread took is handled; no other thread has one.
LEMMA Handled ==
  ASSUME TypeOK, NEW t \in Threads, \A u \in Threads : u # t => hand[u] = NullEvent,
         UNCHANGED queue, hand' = [hand EXCEPT ![t] = NullEvent], NEW p \in Pixmaps
  PROVE  /\ Quiet(p)
         /\ OneIdleComing(p) /\ hand[t] = IdleEvent(p) => NoIdleComing(p)'
<1>1. \A u \in Threads : hand'[u] = NullEvent
  BY DEF TypeOK, ThreadTypeOK
<1>2. QED
  BY <1>1, NullIsNotIdle DEF Quiet, NoIdleComing, OneIdleComing

---------------------------------------------------------------------------
(* The steps of the backend, as steps of BufferRelease.                    *)

\* The invariant again, and a step of BufferRelease or none.
BufferStep == BufferInvariant' /\ [Buffers!Next]_Owner

\* Who has a buffer changes nowhere.
LEMMA BufferStutter ==
  ASSUME BufferInvariant, UNCHANGED <<held, listed, released>>, \A p \in Pixmaps : Quiet(p)
  PROVE  BufferStep
<1>1. BufferInvariant'
  BY DEF BufferInvariant, BufferOK, Quiet
<1>2. UNCHANGED Owner
  BY DEF Owner
<1>3. QED
  BY <1>1, <1>2 DEF BufferStep

\* The server is done with the buffers of S.
LEMMA BufferFinish ==
  ASSUME TypeOK, BufferInvariant, UNCHANGED <<listed, released, hand>>, NEW S \in SUBSET Pixmaps,
         \A p \in S : held[p] # "none" /\ held'[p] = "none",
         \A p \in Pixmaps \ S : held'[p] = "none" <=> held[p] = "none",
         NEW evs \in Seq(Events), queue' = queue \o evs \/ queue' = queue, Finishes(evs, S)
  PROVE  BufferStep
<1>1. queue \in Seq(Events)
  BY DEF TypeOK, ServerTypeOK
<1>2. ASSUME NEW p \in Pixmaps
      PROVE  BufferOK(p)'
  <2>1. (p \notin S => Quiet(p)) /\ (NoIdleComing(p) => OneIdleComing(p)')
    BY <1>1, Appended
  <2>2. CASE p \in S
    BY <2>1, <2>2 DEF BufferInvariant, BufferOK
  <2>3. CASE p \notin S
    BY <2>1, <2>3 DEF BufferInvariant, BufferOK, Quiet
  <2>4. QED
    BY <2>2, <2>3
<1>3. /\ \A p \in S : Owner[p] = "server"
      /\ Owner' = [p \in Pixmaps |-> IF p \in S THEN "returning" ELSE Owner[p]]
  BY DEF BufferInvariant, BufferOK, Owner
<1>4. Buffers!Finish(S)
  BY <1>3 DEF Buffers!Finish, Buffers!Move
<1>5. QED
  BY <1>2, <1>4 DEF BufferStep, BufferInvariant, Buffers!Next

\* PRESENThandle_events on an event that was on its way and is no more.
LEMMA BufferHandle ==
  ASSUME TypeOK, BufferInvariant, UNCHANGED <<held, listed>>, NEW e, PRESENThandle_events(e),
         \A p \in Pixmaps : Quiet(p),
         \A p \in Pixmaps : e = IdleEvent(p) => ~NoIdleComing(p) /\ (OneIdleComing(p) => NoIdleComing(p)')
  PROVE  BufferStep
<1>1. CASE \E p \in Pixmaps : Idles(e, p)
  <2>1. PICK p \in Pixmaps : Idles(e, p)
    BY <1>1
  <2>2. p \in listed /\ e = IdleEvent(p) /\ \A q \in Pixmaps : Idles(e, q) => q = p
    BY <2>1 DEF Idles, IdleEvent
  <2>3. held[p] = "none" /\ ~released[p] /\ NoIdleComing(p)'
    BY <2>2 DEF BufferInvariant, BufferOK
  <2>4. released'[p] /\ \A q \in Pixmaps : q # p => released'[q] = released[q]
    <3>1. released'[p]
      BY <2>1, HandleReleases
    <3>2. \A q \in Pixmaps : q # p => ~Idles(e, q)
      BY <2>2
    <3>3. \A q \in Pixmaps : released[q] \in BOOLEAN
      BY DEF TypeOK, EventTypeOK
    <3>4. QED
      BY <3>1, <3>2, <3>3, HandleReleases
  <2>5. BufferInvariant'
    BY <2>2, <2>3, <2>4 DEF BufferInvariant, BufferOK, Quiet
  <2>6. /\ Owner[p] = "returning"
        /\ Owner' = [q \in Pixmaps |-> IF q \in {p} THEN "client" ELSE Owner[q]]
    BY <2>2, <2>3, <2>4 DEF Owner
  <2>7. Buffers!Learn(p)
    BY <2>6 DEF Buffers!Learn, Buffers!Move
  <2>8. QED
    BY <2>5, <2>7 DEF BufferStep, Buffers!Next
<1>2. CASE \A p \in Pixmaps : ~Idles(e, p)
  <2>1. \A p \in Pixmaps : released'[p] = released[p]
    BY <1>2, HandleReleases DEF TypeOK, EventTypeOK
  <2>2. released' = released
    <3>1. released' = [p \in Pixmaps |-> released'[p]]
      BY DEF PRESENThandle_events
    <3>2. released = [p \in Pixmaps |-> released[p]]
      BY DEF TypeOK, EventTypeOK
    <3>3. QED
      BY <2>1, <3>1, <3>2
  <2>3. QED
    BY <2>2, BufferStutter
<1>3. QED
  BY <1>1, <1>2

\* The next event of the queue is read and handled.
LEMMA BufferReceive ==
  ASSUME TypeOK, BufferInvariant, UNCHANGED <<held, listed, hand>>, Receive,
         PRESENThandle_events(Received)
  PROVE  BufferStep
<1> USE DEF TypeOK, ServerTypeOK
<1>1. CASE queue = <<>>
  <2>1. queue' = queue /\ Received = NullEvent
    BY <1>1 DEF Receive, Received
  <2>2. QED
    BY <2>1, BufferHandle, QuietUnchanged, NullIsNotIdle
<1>2. CASE queue # <<>>
  <2>1. queue' = Tail(queue) /\ Received = Head(queue)
    BY <1>2 DEF Receive, Received
  <2>2. \A p \in Pixmaps :
          /\ Quiet(p)
          /\ OneIdleComing(p) /\ Head(queue) = IdleEvent(p) => NoIdleComing(p)'
    BY <1>2, <2>1, Read
  <2>3. Head(queue) = queue[1] /\ 1 \in 1..Len(queue)
    BY <1>2
  <2>4. \A p \in Pixmaps : Received = IdleEvent(p) => ~NoIdleComing(p)
    BY <2>1, <2>3 DEF NoIdleComing
  <2>5. QED
    BY <2>1, <2>2, <2>4, BufferHandle
<1>3. QED
  BY <1>1, <1>2

\* What is idle when a window shows something else, and what follows.
LEMMA UnflipsFinish ==
  ASSUME NEW w, NEW S \in SUBSET Pixmaps, OnScreen(w) \subseteq S,
         NEW evs \in Seq(Events), Finishes(evs, S),
         \A i \in 1..Len(evs), q \in OnScreen(w) : evs[i] # IdleEvent(q)
  PROVE  Unflips(w) \o evs \in Seq(Events) /\ Finishes(Unflips(w) \o evs, S)
<1>1. CASE OnScreen(w) = {}
  <2>1. Unflips(w) \o evs = evs
    BY <1>1 DEF Unflips
  <2>2. QED
    BY <2>1
<1>2. CASE OnScreen(w) # {}
  <2> DEFINE q == CHOOSE r \in OnScreen(w) : TRUE
             all == <<IdleEvent(q)>> \o evs
  <2>1. q \in OnScreen(w) /\ q \in S
    BY <1>2
  <2>2. IdleEvent(q) \in Events
    BY <2>1, SentEvents
  <2>3. Unflips(w) \o evs = all
    BY <1>2 DEF Unflips
  <2> HIDE DEF q
  <2>4. /\ all \in Seq(Events) /\ Len(evs) \in Nat /\ Len(all) = Len(evs) + 1
        /\ all[1] = IdleEvent(q)
        /\ \A i \in 1..Len(all) : i # 1 => i - 1 \in 1..Len(evs) /\ all[i] = evs[i - 1]
    BY <2>2
  <2> HIDE DEF all
  <2>5. ASSUME NEW p \in Pixmaps, NEW i \in 1..Len(all), all[i] = IdleEvent(p)
        PROVE  /\ p \in S
               /\ i = 1 => p = q
               /\ i # 1 => p # q /\ i - 1 \in 1..Len(evs) /\ evs[i - 1] = IdleEvent(p)
    <3>1. CASE i = 1
      BY <2>1, <2>4, <2>5, <3>1 DEF IdleEvent
    <3>2. CASE i # 1
      BY <2>1, <2>4, <2>5, <3>2 DEF Finishes
    <3>3. QED
      BY <3>1, <3>2
  <2>6. ASSUME NEW p \in Pixmaps, NEW i \in 1..Len(all), NEW j \in 1..Len(all),
               all[i] = IdleEvent(p), all[j] = IdleEvent(p)
        PROVE  i = j
    <3>1. CASE i # 1 /\ j # 1
      <4>1. i - 1 = j - 1
        BY <2>5, <2>6, <3>1 DEF Finishes
      <4>2. QED
        BY <4>1
    <3>2. CASE i = 1 \/ j = 1
      BY <2>5, <2>6, <3>2
    <3>3. QED
      BY <3>1, <3>2
  <2>7. Finishes(all, S)
    BY <2>5, <2>6 DEF Finishes
  <2>8. QED
    BY <2>3, <2>4, <2>7
<1>3. QED
  BY <1>1, <1>2

\* The two events of a presentation, or the two of a forced one.
LEMMA PairFinishes ==
  ASSUME NEW p \in Pixmaps, NEW m \in Modes \cup {"copy"}, NEW S, p \in S
  PROVE  /\ Finishes(<<CompleteEvent(p, m), IdleEvent(p)>>, S)
         /\ Finishes(<<IdleEvent(p), CompleteEvent(p, m)>>, S)
         /\ Finishes(<<CompleteEvent(p, m)>>, S)
BY DEF Finishes, CompleteEvent, IdleEvent

\* A completion by copy.
LEMMA BufferCopy ==
  ASSUME TypeOK, BufferInvariant, UNCHANGED <<listed, released, hand>>, NEW p \in Pixmaps,
         CompleteCopy(p)
  PROVE  BufferStep
<1> DEFINE w == heldOn[p]
           S == {p} \cup OnScreen(w)
           a == <<CompleteEvent(p, "copy"), IdleEvent(p)>>
           b == <<IdleEvent(p), CompleteEvent(p, "copy")>>
<1>1. S \in SUBSET Pixmaps /\ OnScreen(w) \subseteq S /\ p \in S
  BY DEF OnScreen
<1>2. held[p] = "pending" /\ p \notin OnScreen(w)
  BY DEF CompleteCopy, OnScreen
<1>3. /\ \A q \in S : held[q] # "none" /\ held'[q] = "none"
      /\ \A q \in Pixmaps \ S : held'[q] = "none" <=> held[q] = "none"
  BY <1>2 DEF CompleteCopy, OnScreen
<1>4. /\ a \in Seq(Events) /\ Finishes(a, S) /\ \A i \in 1..Len(a), q \in OnScreen(w) : a[i] # IdleEvent(q)
      /\ b \in Seq(Events) /\ Finishes(b, S) /\ \A i \in 1..Len(b), q \in OnScreen(w) : b[i] # IdleEvent(q)
  <2>1. a \in Seq(Events) /\ b \in Seq(Events)
    BY SentEvents
  <2>2. Finishes(a, S) /\ Finishes(b, S)
    BY <1>1, PairFinishes
  <2>3. \A q \in OnScreen(w) : q # p
    BY <1>2
  <2>4. QED
    BY <2>1, <2>2, <2>3 DEF IdleEvent, CompleteEvent
<1>5. \/ queue' = queue \o (Unflips(w) \o a) \/ queue' = queue \o (Unflips(w) \o b)
      \/ queue' = queue
  BY DEF CompleteCopy, Deliver
<1> HIDE DEF w, S, a, b
<1>6. /\ Unflips(w) \o a \in Seq(Events) /\ Finishes(Unflips(w) \o a, S)
      /\ Unflips(w) \o b \in Seq(Events) /\ Finishes(Unflips(w) \o b, S)
  BY <1>1, <1>4, UnflipsFinish
<1>7. QED
  BY <1>1, <1>3, <1>5, <1>6, BufferFinish

\* A completion by flip: the pixmap stays with the server.
LEMMA BufferFlip ==
  ASSUME TypeOK, BufferInvariant, UNCHANGED <<listed, released, hand>>, NEW p \in Pixmaps,
         CompleteFlip(p)
  PROVE  BufferStep
<1> DEFINE w == heldOn[p]
           S == OnScreen(w)
           a == <<CompleteEvent(p, "flip")>>
<1>1. S \in SUBSET Pixmaps
  BY DEF OnScreen
<1>2. held[p] = "pending" /\ p \notin S
  BY DEF CompleteFlip, OnScreen
<1>3. /\ \A q \in S : held[q] # "none" /\ held'[q] = "none"
      /\ \A q \in Pixmaps \ S : held'[q] = "none" <=> held[q] = "none"
  BY <1>2 DEF CompleteFlip, OnScreen
<1>4. /\ a \in Seq(Events) /\ Finishes(a, S)
      /\ \A i \in 1..Len(a), q \in OnScreen(w) : a[i] # IdleEvent(q)
  <2>1. a \in Seq(Events)
    BY SentEvents DEF CompleteFlip
  <2>2. QED
    BY <2>1 DEF Finishes, IdleEvent, CompleteEvent
<1>5. queue' = queue \o (Unflips(w) \o a) \/ queue' = queue
  BY DEF CompleteFlip, Deliver
<1> HIDE DEF a
<1>6. Unflips(w) \o a \in Seq(Events) /\ Finishes(Unflips(w) \o a, S)
  BY <1>1, <1>4, UnflipsFinish
<1> HIDE DEF w, S
<1>7. QED
  BY <1>1, <1>3, <1>5, <1>6, BufferFinish

\* The steps of the server.
LEMMA BufferServer ==
  ASSUME TypeOK, BufferInvariant, Server
  PROVE  BufferStep
<1> USE DEF TypeOK, ServerTypeOK, requestVars, windowVars
<1>0. UNCHANGED <<listed, released, hand>>
  BY DEF Server, eventVars, deviceVars, argVars
<1>1. ASSUME NEW p \in Pixmaps, Complete(p)
      PROVE  BufferStep
  <2>1. CASE CompleteSkip(p)
    <3> DEFINE a == <<CompleteEvent(p, "skip"), IdleEvent(p)>>
    <3>0. "skip" \in Modes \cup {"copy"}
      BY <2>1 DEF CompleteSkip
    <3>1. a \in Seq(Events) /\ Finishes(a, {p})
      <4>1. CompleteEvent(p, "skip") \in Events /\ IdleEvent(p) \in Events
        BY <3>0, SentEvents
      <4>2. a \in Seq(Events)
        BY <4>1
      <4>3. \A S : p \in S => Finishes(a, S)
        BY <3>0, PairFinishes
      <4>4. QED
        BY <4>2, <4>3
    <3>2. /\ held[p] # "none" /\ held'[p] = "none"
          /\ \A q \in Pixmaps \ {p} : held'[q] = held[q]
          /\ queue' = queue \o a \/ queue' = queue
      BY <2>1 DEF CompleteSkip, Deliver
    <3> HIDE DEF a
    <3>3. QED
      BY <1>0, <3>1, <3>2, BufferFinish
  <2>2. QED
    BY <1>0, <1>1, <2>1, BufferCopy, BufferFlip DEF Complete
<1>2. ASSUME NEW n \in notifyOwed, Notify(n[1], n[2])
      PROVE  BufferStep
  <2> DEFINE a == <<NotifyEvent(n[2])>>
  <2>1. n[2] \in {0, 1}
    OBVIOUS
  <2>2. a \in Seq(Events) /\ Finishes(a, {})
    BY <2>1, SentEvents DEF Finishes, NotifyEvent, IdleEvent
  <2>3. held' = held /\ (queue' = queue \o a \/ queue' = queue)
    BY <1>2 DEF Notify, Deliver
  <2> HIDE DEF a
  <2>4. QED
    BY <1>0, <2>2, <2>3, BufferFinish
<1>3. ASSUME NEW f \in forcedOwed, Forced(f[1], f[2])
      PROVE  BufferStep
  <2> DEFINE w == f[2]
             S == OnScreen(w)
             a == <<CompleteEvent(NoPixmap, "copy"), IdleEvent(NoPixmap)>>
  <2>1. S \in SUBSET Pixmaps
    BY DEF OnScreen
  <2>2. /\ \A q \in S : held[q] # "none" /\ held'[q] = "none"
        /\ \A q \in Pixmaps \ S : held'[q] = held[q]
    BY <1>3 DEF Forced, OnScreen
  <2>3. /\ a \in Seq(Events) /\ Finishes(a, S)
        /\ \A i \in 1..Len(a), q \in OnScreen(w) : a[i] # IdleEvent(q)
    <3>1. a \in Seq(Events)
      BY SentEvents
    <3>2. \A q \in Pixmaps :
            CompleteEvent(NoPixmap, "copy") # IdleEvent(q) /\ IdleEvent(NoPixmap) # IdleEvent(q)
      BY ServerAssumption DEF IdleEvent, CompleteEvent
    <3>3. Len(a) = 2 /\ a[1] = CompleteEvent(NoPixmap, "copy") /\ a[2] = IdleEvent(NoPixmap)
      OBVIOUS
    <3>4. \A q \in Pixmaps, i \in 1..Len(a) : a[i] # IdleEvent(q)
      BY <3>2, <3>3
    <3>5. QED
      BY <2>1, <3>1, <3>4 DEF Finishes
  <2>4. queue' = queue \o (Unflips(w) \o a) \/ queue' = queue
    BY <1>3 DEF Forced, Deliver
  <2> HIDE DEF a
  <2>5. Unflips(w) \o a \in Seq(Events) /\ Finishes(Unflips(w) \o a, S)
    BY <2>1, <2>3, UnflipsFinish
  <2> HIDE DEF w, S
  <2>6. QED
    BY <1>0, <2>1, <2>2, <2>4, <2>5, BufferFinish
<1>4. ASSUME NEW w \in Windows, NEW g \in Geoms, Configure(w, g)
      PROVE  BufferStep
  <2> DEFINE a == <<ConfigureEvent(w, g)>>
  <2>1. a \in Seq(Events) /\ Finishes(a, {})
    BY SentEvents DEF Finishes, ConfigureEvent, IdleEvent
  <2>2. held' = held /\ (queue' = queue \o a \/ queue' = queue)
    BY <1>4 DEF Configure, Deliver
  <2> HIDE DEF a
  <2>3. QED
    BY <1>0, <2>1, <2>2, BufferFinish
<1>5. ASSUME NEW w \in Windows, DestroyWindow(w)
      PROVE  BufferStep
  <2> DEFINE S == {p \in Pixmaps : heldOn[p] = w /\ held[p] # "none"}
  <2>1. <<>> \in Seq(Events) /\ Finishes(<<>>, S)
    BY DEF Finishes
  <2>2. /\ \A q \in S : held[q] # "none" /\ held'[q] = "none"
        /\ \A q \in Pixmaps \ S : held'[q] = held[q]
        /\ queue' = queue
    BY <1>5 DEF DestroyWindow
  <2>3. S \in SUBSET Pixmaps
    OBVIOUS
  <2> HIDE DEF S
  <2>4. QED
    BY <1>0, <2>1, <2>2, <2>3, BufferFinish
<1>6. CASE Disconnect
  BY <1>0, <1>6, BufferStutter, QuietUnchanged DEF Disconnect
<1>7. QED
  BY <1>1, <1>2, <1>3, <1>4, <1>5, <1>6 DEF Server, ServerStep

\* The steps that begin a call: a buffer is created or freed.
LEMMA BufferCall ==
  ASSUME TypeOK, CallInvariant, BufferInvariant, NEW t \in Threads, Call(t)
  PROVE  BufferStep
<1> USE DEF serverVars, requestVars, eventVars, deviceVars, argVars
<1>1. CASE \/ PRESENTInit(t) \/ (\E p \in Pixmaps, w \in Windows : BeginPresentBuffer(t, p, w))
           \/ (\E p \in Pixmaps : BeginWaitBuffer(t, p)) \/ BeginWaitEvent(t)
           \/ BeginIsReleased(t) \/ BeginDestroy(t)
  <2>1. UNCHANGED <<held, listed, released, queue, hand>>
    BY <1>1 DEF PRESENTInit, BeginPresentBuffer, BeginWaitBuffer, BeginWaitEvent,
                BeginIsReleased, BeginDestroy
  <2>2. QED
    BY <2>1, BufferStutter, QuietUnchanged
<1>2. ASSUME NEW p \in Pixmaps, PRESENTPixmapInit(t, p)
      PROVE  BufferStep
  <2>1. /\ p \notin listed /\ listed' = listed \cup {p}
        /\ released' = [released EXCEPT ![p] = TRUE]
        /\ UNCHANGED <<held, queue, hand>>
    BY <1>2 DEF PRESENTPixmapInit
  <2>2. released'[p] /\ \A q \in Pixmaps : q # p => released'[q] = released[q]
    BY <2>1 DEF TypeOK, EventTypeOK
  <2>3. held[p] = "none" /\ NoIdleComing(p)
    BY <2>1 DEF BufferInvariant, BufferOK
  <2>4. BufferInvariant'
    BY <2>1, <2>2, <2>3 DEF BufferInvariant, BufferOK, NoIdleComing, OneIdleComing
  <2>5. /\ Owner[p] = "none"
        /\ Owner' = [q \in Pixmaps |-> IF q \in {p} THEN "client" ELSE Owner[q]]
    BY <2>1, <2>2, <2>3 DEF Owner
  <2>6. Buffers!Create(p)
    BY <2>5 DEF Buffers!Create, Buffers!Move
  <2>7. QED
    BY <2>4, <2>6 DEF BufferStep, Buffers!Next
<1>3. ASSUME NEW p \in Pixmaps, PRESENTTryFreePixmap(t, p)
      PROVE  BufferStep
  <2>1. UNCHANGED <<held, released, queue, hand>> /\ p \in listed
    BY <1>3 DEF PRESENTTryFreePixmap, CallInvariant
  <2>2. CASE Freeable(p)
    <3>1. released[p] /\ listed' = listed \ {p}
      BY <1>3, <2>2 DEF PRESENTTryFreePixmap, Freeable
    <3>2. held[p] = "none" /\ NoIdleComing(p)
      BY <3>1 DEF BufferInvariant, BufferOK
    <3>3. BufferInvariant'
      BY <2>1, <3>1, <3>2 DEF BufferInvariant, BufferOK, NoIdleComing, OneIdleComing
    <3>4. /\ Owner[p] = "client"
          /\ Owner' = [q \in Pixmaps |-> IF q \in {p} THEN "none" ELSE Owner[q]]
      BY <2>1, <3>1, <3>2 DEF Owner
    <3>5. Buffers!Discard(p)
      BY <3>4 DEF Buffers!Discard, Buffers!Move
    <3>6. QED
      BY <3>3, <3>5 DEF BufferStep, Buffers!Next
  <2>3. CASE ~Freeable(p)
    <3>1. listed' = listed
      BY <1>3, <2>3 DEF PRESENTTryFreePixmap
    <3>2. QED
      BY <2>1, <3>1, BufferStutter, QuietUnchanged
  <2>4. QED
    BY <2>2, <2>3
<1>4. QED
  BY <1>1, <1>2, <1>3 DEF Call

\* The steps of PRESENTForceReleases: they read events and nothing else.
LEMMA BufferForce ==
  ASSUME TypeOK, BufferInvariant, NEW t \in Threads, ForceReleases(t)
  PROVE  BufferStep
<1> USE DEF serverVars, eventVars, deviceVars, argVars
<1>1. ASSUME WaitEvent
      PROVE  BufferStep
  BY <1>1, BufferReceive DEF WaitEvent, requestVars
<1>2. CASE UNCHANGED <<held, listed, released, queue, hand>>
  BY <1>2, BufferStutter, QuietUnchanged
<1>3. WaitEvent \/ UNCHANGED <<held, listed, released, queue, hand>>
  BY DEF ForceReleases, ForceBegin, ForceHandshake, ForceDrain, ForceNotify, ForceWalk,
         ForcePixmap, ForceWait, ForceEnd, requestVars
<1>4. QED
  BY <1>1, <1>2, <1>3

\* A presentation is sent.
LEMMA BufferPresent ==
  ASSUME TypeOK, CallInvariant, BufferInvariant, NEW t \in Threads, PRESENTPixmap(t)
  PROVE  BufferStep
<1> DEFINE p == buf[t]
<1>1. p \in Pixmaps /\ p \in listed /\ released[p]
  BY Presented DEF PRESENTPixmap
<1>2. held[p] = "none" /\ NoIdleComing(p)
  BY <1>1 DEF BufferInvariant, BufferOK
<1>3. UNCHANGED <<queue, hand, listed>>
  BY DEF PRESENTPixmap, deviceVars
<1>4. CASE dest[t] \in alive /\ connected
  <2>1. /\ held' = [held EXCEPT ![p] = "pending"]
        /\ released' = [released EXCEPT ![p] = FALSE]
    BY <1>4 DEF PRESENTPixmap
  <2> HIDE DEF p
  <2>2. /\ held'[p] = "pending" /\ ~released'[p]
        /\ \A q \in Pixmaps : q # p => held'[q] = held[q] /\ released'[q] = released[q]
    BY <1>1, <2>1 DEF TypeOK, ServerTypeOK, EventTypeOK
  <2>3. BufferInvariant'
    BY <1>1, <1>2, <1>3, <2>2 DEF BufferInvariant, BufferOK, NoIdleComing, OneIdleComing
  <2>4. /\ Owner[p] = "client"
        /\ Owner' = [q \in Pixmaps |-> IF q \in {p} THEN "server" ELSE Owner[q]]
    BY <1>1, <1>2, <1>3, <2>2 DEF Owner
  <2>5. Buffers!Present(p)
    BY <2>4 DEF Buffers!Present, Buffers!Move
  <2>6. QED
    BY <1>1, <2>3, <2>5 DEF BufferStep, Buffers!Next
<1>5. CASE ~(dest[t] \in alive /\ connected)
  BY <1>3, <1>5, BufferStutter, QuietUnchanged DEF PRESENTPixmap
<1>6. QED
  BY <1>4, <1>5

\* The steps of the calls under way.
LEMMA BufferContinue ==
  ASSUME TypeOK, LockProtocol, CallInvariant, BufferInvariant, NEW t \in Threads, Continue(t)
  PROVE  BufferStep
<1> USE DEF serverVars, requestVars, eventVars, deviceVars, argVars
<1>1. CASE FlushEvent(t)
  <2>1. Receive /\ PRESENThandle_events(Received)
    BY <1>1 DEF FlushEvent, Receive, Received
  <2>2. QED
    BY <1>1, <2>1, BufferReceive DEF FlushEvent
<1>2. CASE ForceReleases(t)
  BY <1>2, BufferForce
<1>3. CASE PRESENTPixmap(t)
  BY <1>3, BufferPresent
<1>4. CASE PRESENTPrivChangeWindow(t)
  BY <1>4, BufferStutter, QuietDropped DEF PRESENTPrivChangeWindow
<1>5. CASE TakeEvent(t)
  <2>1. hand[t] = NullEvent
    BY <1>5 DEF TakeEvent, CallInvariant
  <2>2. QED
    BY <1>5, <2>1, BufferStutter, Taken DEF TakeEvent
<1>6. CASE HandleTaken(t)
  <2>1. \A u \in Threads : u # t => hand[u] = NullEvent
    BY <1>6 DEF HandleTaken, LockProtocol, CallInvariant
  <2>2. /\ queue' = queue /\ hand' = [hand EXCEPT ![t] = NullEvent]
        /\ UNCHANGED <<held, listed>> /\ PRESENThandle_events(hand[t])
    BY <1>6 DEF HandleTaken
  <2>3. \A p \in Pixmaps :
          /\ Quiet(p)
          /\ OneIdleComing(p) /\ hand[t] = IdleEvent(p) => NoIdleComing(p)'
    BY <2>1, <2>2, Handled
  <2>4. \A p \in Pixmaps : hand[t] = IdleEvent(p) => ~NoIdleComing(p)
    BY DEF NoIdleComing
  <2>5. QED
    BY <2>2, <2>3, <2>4, BufferHandle
<1>7. CASE PRESENTDestroy(t)
  <2>1. /\ pc[t] = "free" /\ listed' = {} /\ queue' = <<>>
        /\ held' = [p \in Pixmaps |-> "none"] /\ hand' = hand
    BY <1>7 DEF PRESENTDestroy
  <2>2. \A u \in Threads : hand[u] = NullEvent
    BY <2>1 DEF CallInvariant, ForcePCs
  <2>3. BufferInvariant'
    BY <2>1, <2>2, NullIsNotIdle DEF BufferInvariant, BufferOK, NoIdleComing, OneIdleComing
  <2>4. Buffers!Close
    BY <2>1 DEF Buffers!Close, Owner
  <2>5. QED
    BY <2>3, <2>4 DEF BufferStep, Buffers!Next
<1>8. CASE \/ PRESENTPixmapPrepare(t) \/ ChangeWindowSelect(t) \/ PrepareEnd(t) \/ WaitLock(t)
           \/ WaitFlushEnd(t) \/ WaitReturn(t) \/ WaitBehind(t) \/ WaitWake(t)
           \/ PRESENTwait_events(t) \/ PRESENTIsPixmapReleased(t)
  <2>1. UNCHANGED <<held, listed, released, queue, hand>>
    BY <1>8 DEF PRESENTPixmapPrepare, ChangeWindowSelect, PrepareEnd, WaitLock, WaitFlushEnd,
                WaitReturn, WaitBehind, WaitWake, PRESENTwait_events, PRESENTIsPixmapReleased
  <2>2. QED
    BY <2>1, BufferStutter, QuietUnchanged
<1>9. QED
  BY <1>1, <1>2, <1>3, <1>4, <1>5, <1>6, <1>7, <1>8 DEF Continue

---------------------------------------------------------------------------
(* Who has a buffer.                                                       *)

LEMMA BufferInit == Init => BufferInvariant /\ Buffers!Init
<1> SUFFICES ASSUME Init
             PROVE  BufferInvariant /\ Buffers!Init
  OBVIOUS
<1>1. /\ listed = {} /\ held = [p \in Pixmaps |-> "none"] /\ queue = <<>>
      /\ hand = [t \in Threads |-> NullEvent]
  BY DEF Init, ServerInit
<1>2. BufferInvariant
  BY <1>1, NullIsNotIdle DEF BufferInvariant, BufferOK, NoIdleComing, OneIdleComing
<1>3. Buffers!Init
  BY <1>1 DEF Buffers!Init, Owner
<1>4. QED
  BY <1>2, <1>3

LEMMA BufferNext ==
  TypeOK /\ LockProtocol /\ CallInvariant /\ BufferInvariant /\ [Next]_vars => BufferStep
<1>1. BufferInvariant /\ UNCHANGED vars => BufferStep
  BY BufferStutter, QuietUnchanged
     DEF vars, serverVars, requestVars, eventVars, deviceVars, argVars
<1>2. QED
  BY <1>1, BufferServer, BufferCall, BufferContinue DEF Next

\* The calls and the buffers, together.
LEMMA BufferAlways == Spec => [](CallInvariant /\ BufferInvariant)
<1>1. TypeOK /\ LockProtocol /\ CallInvariant /\ BufferInvariant /\ [Next]_vars
        => CallInvariant' /\ BufferInvariant'
  BY CallStep, BufferNext DEF BufferStep
<1>2. Init => CallInvariant /\ BufferInvariant
  BY CallInit, BufferInit
<1>3. QED
  BY <1>1, <1>2, TypeCorrect, LocksHeld, PTL DEF Spec

\* A pixmap that the backend calls released, or has freed, is not the
\* server's and no idle event of it comes, for any threads, pixmaps and
\* windows, whichever windows die and wherever the connection breaks.
THEOREM BuffersReleased == Spec => []ReleasedIsReleased
<1>1. BufferInvariant => ReleasedIsReleased
  BY DEF BufferInvariant, BufferOK, ReleasedIsReleased
<1>2. QED
  BY <1>1, BufferAlways, PTL

\* The backend implements the abstract life of a buffer: every step of it
\* is a step of BufferRelease or changes no buffer's owner.
THEOREM ReleaseRefined == Spec => ReleaseProtocol
<1>1. TypeOK /\ LockProtocol /\ CallInvariant /\ BufferInvariant /\ [Next]_vars
        => [Buffers!Next]_Owner
  BY BufferNext DEF BufferStep
<1>2. Init => Buffers!Init
  BY BufferInit
<1>3. QED
  BY <1>1, <1>2, TypeCorrect, LocksHeld, BufferAlways, PTL
     DEF Spec, ReleaseProtocol, Buffers!Spec
=============================================================================
