----------------------- MODULE XcbPresentProperties -----------------------
(***************************************************************************)
(* What the PRESENT backend promises.                                      *)
(***************************************************************************)
EXTENDS XcbPresent

\* The thread may take the next event of the special event queue.
Reads(t) ==
  \/ pc[t] \in {"xcb", "drain", "drain1", "serial", "forced"}
  \/ pc[t] \in Flushes /\ MayFlush(t)

\* Where a thread is inside mutex_present.
Critical == {"rflush", "free", "wflush", "check", "behind", "change", "select", "pflush"}
              \cup ForcePCs

\* Who holds the locks: a thread inside mutex_present owns it, and
\* PRESENTForceReleases reads only after the waiting thread left xcb.
LockProtocol ==
  /\ \A t \in Threads : pc[t] \in Critical <=> mutexPresent = t
  /\ \A t \in Threads : pc[t] = "xcb" <=> mutexXcbWait = t
  /\ \A t \in Threads : pc[t] \in {"xcb", "got"} => xcbWait
  /\ \A t, u \in Threads : pc[t] \in {"xcb", "got"} /\ pc[u] \in {"xcb", "got"} => t = u
  /\ xcbWait => \E t \in Threads : pc[t] \in {"xcb", "got"}
  /\ \A t \in Threads : pc[t] \in ForcePCs \ {"force", "handshake"} => mutexXcbWait = NoThread

\* At most one thread takes events off the queue: a flush, or a thread in
\* PRESENTForceReleases, never steals the event another thread waits for
\* (xcb_present.c:194 "don't steal events to someone waiting", 794 "we allow
\* only one thread to dispatch events", 269 "There should be no other thread
\* listening for events here").
OneReader == \A t, u \in Threads : Reads(t) /\ Reads(u) => t = u

Count(p, Kind(_, _)) ==
  Cardinality({i \in 1..Len(queue) : Kind(queue[i], p)})
    + Cardinality({t \in Threads : Kind(hand[t], p)})

Pending(p) == IF held[p] = "pending" THEN 1 ELSE 0
CompletesOwed(p) == Pending(p) + Count(p, Completes)

\* The presentations the backend waits for a complete event of, the n-th of p
\* as <<p, n>>.
Outstanding == UNION {{p} \X (1..completePending[p]) : p \in listed}

\* present_complete_pending is unsigned: it never counts fewer presentations
\* than complete events can still arrive, in the queue or in the hand of a
\* thread that has not handled its event yet, and exactly as many while
\* neither the connection nor a window is lost.  pixmap_present_pending is
\* their sum: PRESENTForceReleases waits for it to reach zero.
CompletesAccounted ==
  /\ \A p \in listed : completePending[p] >= CompletesOwed(p)
  /\ connected /\ alive = Windows =>
       \A p \in listed : completePending[p] = CompletesOwed(p)
  /\ pending = Cardinality(Outstanding)

NoIdleComing(p) ==
  /\ \A i \in 1..Len(queue) : queue[i] # IdleEvent(p)
  /\ \A t \in Threads : hand[t] # IdleEvent(p)

\* A pixmap the backend calls released, and one it has freed, is neither
\* held by the server nor awaited by an idle event: drawing to it cannot
\* reach the screen, and a late event cannot release a later presentation.
ReleasedIsReleased ==
  \A p \in Pixmaps : p \notin listed \/ released[p] =>
    held[p] = "none" /\ NoIdleComing(p)

\* The converse: as long as a pixmap is not released, the server still has
\* it or its one idle event is on the way.  An idle event that is dropped
\* makes every later wait for the buffer endless.
NoIdleLost ==
  \A p \in listed : ~released[p] =>
    (IF held[p] = "none" THEN 0 ELSE 1) + Count(p, Idles) = 1

\* xcb_present.c:341 "Now all pixmaps are released (possibility if xcb_wait
\* is true that one is not aware yet), and we don't expect any new Present
\* event": when PRESENTForceReleases returns, before the queue is dropped.
AllReleasedAfterForce ==
  \A t \in Threads : pc[t] \in {"change", "free"} =>
    \A p \in listed : \/ released[p]
                      \/ \E u \in Threads : hand[u] = IdleEvent(p)

\* The message of xcb_present.c:314, "a pixmap seems not released by PRESENT
\* for no reason. Code bug", is never due.
NoUnexplained ==
  \A t \in Threads : pc[t] = "walk" => \A p \in todo[t] : ~Unexplained(p)

\* present.c:1097 asks whether the present mutex is needed between
\* PRESENTPixmapPrepare and PRESENTPixmap: without it the buffer is still
\* released and the backend still bound to the window (or to none, when the
\* window could not be bound) when the presentation is sent.
PreparedStays ==
  \A t \in Threads : pc[t] = "pixmap" =>
    /\ buf[t] \in listed /\ released[buf[t]]
    /\ window \in {dest[t], NoWindow}

\* xcb_present.c:370 "We track geometry changes. Initialize the values": with
\* the window bound and every configure event handled, the recorded geometry
\* is the window's.
GeometryTracked ==
  /\ special # NoWindow
  /\ \A i \in 1..Len(queue) : queue[i].type # "configure"
  /\ \A t \in Threads : hand[t].type # "configure"
  => lastGeom = geom[special]

---------------------------------------------------------------------------

\* Who has a buffer, told from both sides of the protocol.
Owner == [p \in Pixmaps |->
  IF held[p] # "none" THEN "server"
  ELSE IF p \notin listed THEN "none"
  ELSE IF released[p] THEN "client"
  ELSE "returning"]

Buffers == INSTANCE BufferRelease WITH Buffers <- Pixmaps, owner <- Owner

\* The backend implements the abstract life of a buffer: the server gets a
\* buffer only from the client, the client gets it back only after the server
\* was done with it, by one event of its own, and a buffer is freed early
\* only when the client has it.  Holds with windows that die and a connection
\* that breaks.
ReleaseProtocol == Buffers!Spec

---------------------------------------------------------------------------
(* The invariant from which ReleasedIsReleased, PreparedStays and            *)
(* ReleaseProtocol are proved.                                               *)

\* The arguments and locals of a thread, and what a call may rely on.
CallInvariant ==
  /\ handle \subseteq listed
  /\ \A t \in Threads : pc[t] \in {"idle", "rflush"} => buf[t] = NoPixmap
  /\ \A t \in Threads :
       pc[t] \in PresentPCs \cup ForcePCs => buf[t] # NoPixmap \/ device = "closing"
  /\ \A t \in Threads : buf[t] # NoPixmap => buf[t] \in listed
  /\ \A t, u \in Threads : buf[t] = buf[u] /\ buf[t] # NoPixmap => t = u
  /\ \A t \in Threads : pc[t] = "pixmap" => released[buf[t]]
  /\ \A t \in Threads : pc[t] # "got" => hand[t] = NullEvent
  /\ \A t \in Threads : pc[t] = "free" => device = "closing"
  /\ device = "closing" =>
       /\ handle = {}
       /\ \A t \in Threads : pc[t] \in {"idle", "free"} \cup ForcePCs /\ buf[t] = NoPixmap

\* context_section keeps the window of a presentation.
WindowInvariant ==
  \A t \in Threads :
    /\ pc[t] \in PresentPCs => contextSection = t
    /\ pc[t] \in ForcePCs => contextSection = t \/ device = "closing"
    /\ pc[t] = "select" => window = dest[t]
    /\ pc[t] \in {"pflush", "pixmap"} => window \in {dest[t], NoWindow}

\* At most one idle event of p is on the way.
OneIdleComing(p) ==
  /\ \A i, j \in 1..Len(queue) :
       queue[i] = IdleEvent(p) /\ queue[j] = IdleEvent(p) => i = j
  /\ \A i \in 1..Len(queue), t \in Threads :
       ~(queue[i] = IdleEvent(p) /\ hand[t] = IdleEvent(p))

BufferOK(p) ==
  /\ held[p] # "none" => p \in listed /\ ~released[p]
  /\ p \notin listed \/ released[p] \/ held[p] # "none" => NoIdleComing(p)
  /\ OneIdleComing(p)

BufferInvariant == \A p \in Pixmaps : BufferOK(p)

---------------------------------------------------------------------------
(* The invariant from which CompletesAccounted is proved, with those above.  *)

\* The complete events of p; PRESENThandle_events counts them down.
CompletesOf(p) == {CompleteEvent(p, m) : m \in Modes \cup {"copy"}}

\* No presentation is under way at the server, no complete event in the queue.
NothingPending == \A p \in Pixmaps : held[p] # "pending"
NoCompleteQueued == \A p \in Pixmaps, i \in 1..Len(queue) : queue[i] \notin CompletesOf(p)

\* The window of the queue, of the backend and of the server's answers.
SpecialInvariant ==
  /\ \A t \in Threads : pc[t] = "select" => special = NoWindow
  /\ (\A t \in Threads : pc[t] # "select") => special = window
  /\ special = NoWindow => queue = <<>>
  /\ \A p \in Pixmaps : held[p] # "none" => heldOn[p] \in Windows
  /\ \A t \in Threads :
       pc[t] \in PresentPCs \cup ForcePCs /\ device # "closing" => dest[t] \in Windows
  /\ \A t \in Threads : pc[t] \in ForcePCs \ {"force"} => window # NoWindow
  /\ device = "absent" =>
       /\ listed = {} /\ special = NoWindow /\ window = NoWindow
       /\ notifyOwed = {} /\ forcedOwed = {}
       /\ \A t \in Threads : pc[t] = "idle"

\* The one answer with serial 1, which is asked for by the thread at "serial".
Asked == \E t \in Threads : pc[t] = "serial" /\ notifySerial
SerialInvariant ==
  /\ \A w \in Windows :
       <<w, 1>> \in notifyOwed =>
         Asked /\ w = special /\ \A i \in 1..Len(queue) : queue[i] # NotifyEvent(1)
  /\ \A i \in 1..Len(queue) : queue[i] = NotifyEvent(1) => Asked
  /\ \A i, j \in 1..Len(queue) :
       queue[i] = NotifyEvent(1) /\ queue[j] = NotifyEvent(1) => i = j

\* While no window and no connection is lost: what is presented goes to the
\* window of the queue, the answer with serial 1 comes after every complete
\* event, and behind it, or behind an empty count, nothing is pending.
Calm == connected /\ alive = Windows
OrderInvariant ==
  /\ \A t \in Threads : pc[t] \in {"pflush", "pixmap"} => window = dest[t]
  /\ \A p \in Pixmaps : held[p] = "pending" => heldOn[p] = special
  /\ \A i \in 1..Len(queue) : queue[i] = NotifyEvent(1) =>
       /\ NothingPending
       /\ \A p \in Pixmaps, j \in i..Len(queue) : queue[j] \notin CompletesOf(p)
  /\ \A t \in Threads :
       \/ pc[t] \in {"dflush", "walk", "forced", "fflush", "change"}
       \/ pc[t] = "serial" /\ ~notifySerial
       => NothingPending /\ NoCompleteQueued

---------------------------------------------------------------------------
(* The invariant from which NoIdleLost, AllReleasedAfterForce and            *)
(* NoUnexplained are proved for a calm server, with those above.             *)

NothingHeld == \A p \in Pixmaps : held[p] = "none"

\* What the server still owes, to whom and when.
OwedInvariant ==
  /\ \A p \in Pixmaps : held[p] # "none" => heldOn[p] = special
  /\ \A p, q \in Pixmaps : held[p] = "screen" /\ held[q] = "screen" => p = q
  /\ \A n \in notifyOwed : n[1] = special
  /\ notifyOwed # {} =>
       \E t \in Threads : pc[t] \in {"handshake", "drain1", "d1flush", "serial"}
  /\ \A f \in forcedOwed : f[2] = special
  /\ forcedOwed # {} => \E t \in Threads : pc[t] = "forced"
  /\ \A f, g \in forcedOwed : f = g
  /\ \A i \in 1..Len(queue) : queue[i] = NotifyEvent(1) => i = Len(queue) /\ notifyOwed = {}

\* The steps of PRESENTForceReleases: from the walk on the queue is empty but
\* for the answer to a presentation with serial 0, and what was walked past,
\* or all after such an answer, is not held.
WalkAt(t) ==
  /\ pc[t] \in {"drain", "dflush"} => ~xcbWait
  /\ pc[t] = "serial" /\ ~notifySerial => queue = <<>> /\ notifyOwed = {}
  /\ pc[t] \in {"walk", "forced", "fflush"} => todo[t] \subseteq listed
  /\ pc[t] = "walk" => queue = <<>> /\ \A p \in listed \ todo[t] : held[p] = "none"
  /\ pc[t] = "forced" => (queue = <<>> /\ forcedOwed # {}) \/ (forcedOwed = {} /\ NothingHeld)
  /\ pc[t] = "fflush" => NothingHeld
  /\ pc[t] \in {"change", "free"} => queue = <<>> /\ NothingHeld

WalkInvariant == \A t \in Threads : WalkAt(t)

\* What is not released is held, or its idle event is on the way.
IdleKept(p) ==
  p \in listed /\ ~released[p] => held[p] # "none" \/ ~NoIdleComing(p)

\* What is on the screen was flipped, and the backend knows, or will when it
\* has handled its events, unless a thread that waits is late with one.
Copies(p, e) == e = CompleteEvent(p, "copy")
Forcing == \E t \in Threads : pc[t] \in ForcePCs \ {"force", "handshake"}
FlipKnown(p) ==
  held[p] = "screen" =>
    \/ \E i \in 1..Len(queue) :
         queue[i] = CompleteEvent(p, "flip") /\ \A j \in i..Len(queue) : ~Copies(p, queue[j])
    \/ /\ \A i \in 1..Len(queue) : ~Copies(p, queue[i])
       /\ \/ lastFlip[p] /\ \A t \in Threads : ~Copies(p, hand[t])
          \/ \E t \in Threads : hand[t] = CompleteEvent(p, "flip")
          \/ Forcing /\ xcbWait

ForceInvariant ==
  /\ OwedInvariant /\ WalkInvariant
  /\ \A p \in Pixmaps : IdleKept(p) /\ FlipKnown(p)

---------------------------------------------------------------------------

\* A presentation returns: a thread that wants to present is not kept out
\* by the threads that wait for events.
PresentReturns == \A t \in Threads : pc[t] = "prepare" ~> pc[t] = "idle"

\* A wait returns, unless what it waits for is on the screen.
WaitReturns ==
  \A t \in Threads :
    pc[t] \in WaitPCs ~>
      \/ pc[t] = "idle"
      \/ \E p \in Pixmaps : held[p] = "screen" /\ buf[t] \in {p, NoPixmap}

\* The destruction of the device returns: xcb_present.h:24 "will clean
\* properly and free all PRESENTPixmapPriv".
DestroyReturns == device = "closing" ~> device = "absent"
=============================================================================
