--------------------------- MODULE XcbForceProofs ---------------------------
(***************************************************************************)
(* What PRESENTForceReleases relies on and leaves behind: proofs for any   *)
(* threads, pixmaps, windows and completion modes that, while no window    *)
(* and no connection is lost and no configure event comes, no idle event   *)
(* is dropped, every pixmap is back when it returns, and its message of a  *)
(* code bug is never due.                                                  *)
(***************************************************************************)
EXTENDS XcbCountProofs

\* All that is known of a state while nothing is lost.
Steady == Calm /\ OrderContext /\ ForceInvariant

LEMMA SteadyFacts ==
  Steady =>
    /\ TypeOK /\ LockProtocol /\ CallInvariant /\ BufferInvariant /\ SpecialInvariant
    /\ OrderInvariant /\ CountInvariant /\ WindowInvariant /\ SerialInvariant
    /\ OwedInvariant /\ WalkInvariant
    /\ \A p \in Pixmaps : IdleKept(p) /\ FlipKnown(p)
BY DEF Steady, OrderContext, CountContext, ForceInvariant

\* mutex_present has one owner.
LEMMA OneCritical ==
  ASSUME LockProtocol, NEW t \in Threads, NEW u \in Threads, pc[t] \in Critical,
         pc[u] \in Critical
  PROVE  t = u
BY DEF LockProtocol

\* The server owes an answer only to the thread that waits for it.
LEMMA NotOwed ==
  ASSUME Steady, NEW t \in Threads, pc[t] \in Critical
  PROVE  /\ pc[t] \notin {"handshake", "drain1", "d1flush", "serial"} => notifyOwed = {}
         /\ pc[t] # "forced" => forcedOwed = {}
<1>1. \A u \in Threads : pc[u] \in Critical => u = t
  BY SteadyFacts, OneCritical
<1>2. QED
  BY <1>1, SteadyFacts DEF OwedInvariant, Critical, ForcePCs

---------------------------------------------------------------------------
(* A step of the server.                                                   *)

\* The events evs reach the queue: what leaves the server has an idle event,
\* what comes to the screen a flip; the last answer with serial 1 comes last.
Tells(evs) ==
  /\ queue' = queue \o evs
  /\ UNCHANGED <<special, heldOn>>
  /\ notifyOwed' \subseteq notifyOwed /\ forcedOwed' \subseteq forcedOwed
  /\ \A p \in Pixmaps :
       /\ held[p] = "none" => held'[p] = "none"
       /\ held[p] # "none" /\ held'[p] = "none" => \E i \in 1..Len(evs) : evs[i] = IdleEvent(p)
       /\ held'[p] = "screen" /\ held[p] = "screen" =>
            \A i \in 1..Len(evs) : ~Copies(p, evs[i])
       /\ held'[p] = "screen" /\ held[p] # "screen" =>
            \E i \in 1..Len(evs) :
              evs[i] = CompleteEvent(p, "flip") /\ \A j \in i..Len(evs) : ~Copies(p, evs[j])
  /\ \A p, q \in Pixmaps : held'[p] = "screen" /\ held'[q] = "screen" => p = q
  /\ \A i \in 1..Len(evs) : evs[i] = NotifyEvent(1) => i = Len(evs) /\ notifyOwed' = {}
  /\ \/ ~NothingPending
     \/ notifyOwed # {}
     \/ forcedOwed # {} /\ forcedOwed' = {} /\ \A p \in Pixmaps : held'[p] = "none"

Told == \E evs \in Seq(Events) : Tells(evs)

\* Events tell pixmaps and kinds apart.
LEMMA EventsDiffer ==
  /\ \A p, q, m, n : CompleteEvent(p, m) = CompleteEvent(q, n) => p = q /\ m = n
  /\ \A p, q : IdleEvent(p) = IdleEvent(q) => p = q
  /\ \A p, q, m : CompleteEvent(p, m) # IdleEvent(q)
  /\ \A p, m, s : CompleteEvent(p, m) # NotifyEvent(s)
  /\ \A p, s : IdleEvent(p) # NotifyEvent(s)
BY DEF CompleteEvent, IdleEvent, NotifyEvent

\* A window shows one pixmap.
Lone(w) == \A q, r \in OnScreen(w) : r = q

\* evs are the events a, after an idle event of what leaves the screen of w.
Unflipping(w, a, evs) ==
  /\ evs \in Seq(Events)
  /\ \A i \in 1..Len(a) : \E k \in 1..Len(evs) : evs[k] = a[i]
  /\ \A q \in OnScreen(w) : \E k \in 1..Len(evs) : evs[k] = IdleEvent(q)
  /\ \A k \in 1..Len(evs) : \/ \E q \in OnScreen(w) : evs[k] = IdleEvent(q)
                            \/ \E i \in 1..Len(a) : evs[k] = a[i]
  /\ Len(evs) \in 1..Len(evs) /\ evs[Len(evs)] = a[Len(a)]

LEMMA UnflippedHas ==
  ASSUME NEW w, NEW a \in Seq(Events), a # <<>>, Lone(w)
  PROVE  Unflipping(w, a, Unflipped(w, a))
<1> DEFINE u == Unflips(w)
           evs == u \o a
<1>1. u \in Seq(Events) /\ Len(a) \in Nat \ {0}
  BY UnflipsType
<1>2. \A i \in 1..Len(u) : \E q \in OnScreen(w) : u[i] = IdleEvent(q)
  BY UnflipsIdle
<1>3. ASSUME NEW q \in OnScreen(w)
      PROVE  Len(u) = 1 /\ u[1] = IdleEvent(q)
  <2>1. (CHOOSE r \in OnScreen(w) : TRUE) = q
    BY <1>3 DEF Lone
  <2>2. u = <<IdleEvent(q)>>
    BY <2>1 DEF Unflips
  <2>3. QED
    BY <2>2
<1> HIDE DEF u
<1>4. /\ evs \in Seq(Events) /\ Len(u) \in Nat /\ Len(evs) = Len(u) + Len(a)
      /\ \A i \in 1..Len(u) : i \in 1..Len(evs) /\ evs[i] = u[i]
      /\ \A i \in 1..Len(a) : Len(u) + i \in 1..Len(evs) /\ evs[Len(u) + i] = a[i]
      /\ \A i \in 1..Len(evs) : i \notin 1..Len(u) =>
           i - Len(u) \in 1..Len(a) /\ evs[i] = a[i - Len(u)]
  BY <1>1, CatElements
<1> HIDE DEF evs
<1>5. \A q \in OnScreen(w) :
        \E k \in 1..Len(evs) : evs[k] = IdleEvent(q)
  <2> SUFFICES ASSUME NEW q \in OnScreen(w)
               PROVE  \E k \in 1..Len(evs) : evs[k] = IdleEvent(q)
    OBVIOUS
  <2>1. Len(u) = 1 /\ u[1] = IdleEvent(q)
    BY <1>3
  <2>2. 1 \in 1..Len(u)
    BY <2>1
  <2>3. QED
    BY <1>4, <2>1, <2>2
<1>6. \A k \in 1..Len(evs) : \/ \E q \in OnScreen(w) : evs[k] = IdleEvent(q)
                             \/ \E i \in 1..Len(a) : evs[k] = a[i]
  BY <1>2, <1>4
<1>7. Len(evs) \in 1..Len(evs) /\ evs[Len(evs)] = a[Len(a)]
  <2>1. Len(a) \in 1..Len(a)
    BY <1>1
  <2>2. QED
    BY <1>4, <2>1
<1>8. \A i \in 1..Len(a) : \E k \in 1..Len(evs) : evs[k] = a[i]
  BY <1>4
<1>9. QED
  BY <1>4, <1>5, <1>6, <1>7, <1>8 DEF Unflipping, evs, u, Unflipped

\* One event for each end of a presentation, and what it leaves held.
LEMMA Sole ==
  ASSUME Steady, NEW w, w = special
  PROVE  /\ \A q \in Pixmaps : held[q] = "screen" <=> q \in OnScreen(w)
         /\ Lone(w)
BY SteadyFacts DEF OwedInvariant, OnScreen, Lone

LEMMA TellsCopy ==
  ASSUME Steady, NEW p \in Pixmaps, CompleteCopy(p)
  PROVE  Told
<1>1. held[p] = "pending" /\ special \in Windows /\ heldOn[p] = special
  BY SteadyFacts DEF CompleteCopy, OwedInvariant, SpecialInvariant
<1> DEFINE a == <<CompleteEvent(p, "copy"), IdleEvent(p)>>
           b == <<IdleEvent(p), CompleteEvent(p, "copy")>>
<1>2. \E evs \in {a, b} : queue' = queue \o Unflipped(special, evs)
  BY <1>1 DEF CompleteCopy, Deliver, Unflipped
<1>3. \A q \in Pixmaps : held'[q] = IF q = p \/ q \in OnScreen(special) THEN "none" ELSE held[q]
  BY <1>1 DEF CompleteCopy
<1>4. UNCHANGED <<special, heldOn, notifyOwed, forcedOwed>>
  BY DEF CompleteCopy
<1>5. ASSUME NEW e \in {a, b}
      PROVE  /\ e \in Seq(Events) /\ e # <<>>
             /\ \E i \in 1..Len(e) : e[i] = IdleEvent(p)
             /\ \A i \in 1..Len(e) : e[i] # NotifyEvent(1)
  <2>1. CASE e = a
    <3>1. a \in Seq(Events) /\ Len(a) = 2 /\ a[1] = CompleteEvent(p, "copy") /\ a[2] = IdleEvent(p)
      BY SentEvents
    <3> HIDE DEF a
    <3>2. QED
      BY <2>1, <3>1, NotNotify
  <2>2. CASE e = b
    <3>1. b \in Seq(Events) /\ Len(b) = 2 /\ b[2] = CompleteEvent(p, "copy") /\ b[1] = IdleEvent(p)
      BY SentEvents
    <3> HIDE DEF b
    <3>2. QED
      BY <2>2, <3>1, NotNotify
  <2>3. QED
    BY <2>1, <2>2
<1> HIDE DEF a, b
<1>6. PICK e \in {a, b} : queue' = queue \o Unflipped(special, e)
  BY <1>2
<1> DEFINE evs == Unflipped(special, e)
<1>a. /\ e \in Seq(Events) /\ e # <<>>
      /\ \E i \in 1..Len(e) : e[i] = IdleEvent(p)
      /\ \A i \in 1..Len(e) : e[i] # NotifyEvent(1)
  BY <1>5
<1>7. Unflipping(special, e, evs)
  BY <1>a, UnflippedHas, Sole
<1>8. queue' = queue \o evs
  BY <1>6
<1> HIDE DEF evs
<1>9. \A q \in Pixmaps : held'[q] # "screen"
  BY <1>3, Sole
<1>10. \A q \in Pixmaps : held[q] # "none" /\ held'[q] = "none" =>
         \E k \in 1..Len(evs) : evs[k] = IdleEvent(q)
  <2>1. \E k \in 1..Len(evs) : evs[k] = IdleEvent(p)
    BY <1>a, <1>7 DEF Unflipping
  <2>2. \A q \in OnScreen(special) : \E k \in 1..Len(evs) : evs[k] = IdleEvent(q)
    BY <1>7 DEF Unflipping
  <2>3. QED
    BY <1>3, <2>1, <2>2
<1>11. \A k \in 1..Len(evs) : evs[k] # NotifyEvent(1)
  <2>1. \A q \in OnScreen(special) : IdleEvent(q) # NotifyEvent(1)
    BY NotNotify
  <2>2. QED
    BY <1>a, <1>7, <2>1 DEF Unflipping
<1>12. \A q \in Pixmaps : held[q] = "none" => held'[q] = "none"
  BY <1>3
<1>13. ~NothingPending
  BY <1>1 DEF NothingPending
<1>14. Tells(evs)
  BY <1>4, <1>8, <1>9, <1>10, <1>11, <1>12, <1>13 DEF Tells
<1>15. QED
  BY <1>7, <1>14 DEF Told, Unflipping

LEMMA TellsFlip ==
  ASSUME Steady, NEW p \in Pixmaps, CompleteFlip(p)
  PROVE  Told
<1>1. held[p] = "pending" /\ special \in Windows /\ heldOn[p] = special
  BY SteadyFacts DEF CompleteFlip, OwedInvariant, SpecialInvariant
<1> DEFINE a == <<CompleteEvent(p, "flip")>>
           evs == Unflipped(special, a)
<1>2. queue' = queue \o evs
  BY <1>1 DEF CompleteFlip, Deliver, Unflipped
<1>3. \A q \in Pixmaps : held'[q] = IF q = p THEN "screen"
                                    ELSE IF q \in OnScreen(special) THEN "none" ELSE held[q]
  BY <1>1 DEF CompleteFlip
<1>4. UNCHANGED <<special, heldOn, notifyOwed, forcedOwed>>
  BY DEF CompleteFlip
<1>5. a \in Seq(Events) /\ Len(a) = 1 /\ a[1] = CompleteEvent(p, "flip") /\ a # <<>>
  BY SentEvents DEF CompleteFlip
<1>6. 1 \in 1..Len(a) /\ \A i \in 1..Len(a) : a[i] = CompleteEvent(p, "flip")
  BY <1>5
<1> HIDE DEF a
<1>7. Unflipping(special, a, evs)
  BY <1>5, UnflippedHas, Sole
<1> HIDE DEF evs
<1>8. \A q \in Pixmaps : held'[q] = "screen" <=> q = p
  BY <1>3, Sole
<1>9. \A q \in Pixmaps : held[q] # "none" /\ held'[q] = "none" =>
         \E k \in 1..Len(evs) : evs[k] = IdleEvent(q)
  BY <1>3, <1>7 DEF Unflipping
<1>10. \A k \in 1..Len(evs) : evs[k] # NotifyEvent(1)
  <2>1. \A i \in 1..Len(a) : a[i] # NotifyEvent(1)
    BY <1>6, NotNotify
  <2>2. \A q \in OnScreen(special) : IdleEvent(q) # NotifyEvent(1)
    BY NotNotify
  <2>3. QED
    BY <1>7, <2>1, <2>2 DEF Unflipping
<1>11. \A q \in Pixmaps : held[q] = "none" => held'[q] = "none"
  BY <1>1, <1>3, Sole
<1>12. ~NothingPending /\ held[p] # "screen"
  BY <1>1 DEF NothingPending
<1>13. evs[Len(evs)] = CompleteEvent(p, "flip")
  BY <1>6, <1>7, <1>5 DEF Unflipping
<1>14. \A j \in Len(evs)..Len(evs) : ~Copies(p, evs[j])
  <2>1. \A j \in Len(evs)..Len(evs) : j = Len(evs)
    BY <1>7 DEF Unflipping
  <2>2. ~Copies(p, CompleteEvent(p, "flip"))
    BY DEF Copies, CompleteEvent
  <2>3. QED
    BY <1>13, <2>1, <2>2
<1>15. Tells(evs)
  BY <1>2, <1>4, <1>7, <1>8, <1>9, <1>10, <1>11, <1>12, <1>13, <1>14 DEF Tells, Unflipping
<1>16. QED
  BY <1>7, <1>15 DEF Told, Unflipping

LEMMA TellsSkip ==
  ASSUME Steady, NEW p \in Pixmaps, CompleteSkip(p)
  PROVE  Told
<1>1. held[p] = "pending" /\ special \in Windows /\ heldOn[p] = special
  BY SteadyFacts DEF CompleteSkip, OwedInvariant, SpecialInvariant
<1> DEFINE evs == <<CompleteEvent(p, "skip"), IdleEvent(p)>>
<1>2. queue' = queue \o evs
  BY <1>1 DEF CompleteSkip, Deliver
<1>3. \A q \in Pixmaps : held'[q] = IF q = p THEN "none" ELSE held[q]
  BY SteadyFacts DEF CompleteSkip, TypeOK, ServerTypeOK
<1>4. UNCHANGED <<special, heldOn, notifyOwed, forcedOwed>>
  BY DEF CompleteSkip
<1>5. evs \in Seq(Events) /\ Len(evs) = 2 /\ evs[1] = CompleteEvent(p, "skip") /\ evs[2] = IdleEvent(p)
  BY SentEvents DEF CompleteSkip
<1> HIDE DEF evs
<1>6. \A i \in 1..Len(evs) : evs[i] # NotifyEvent(1) /\ \A q : ~Copies(q, evs[i])
  BY <1>5, NotNotify, EventsDiffer DEF Copies
<1>7. \A q, r \in Pixmaps : held'[q] = "screen" /\ held'[r] = "screen" => q = r
  BY <1>3, SteadyFacts DEF OwedInvariant
<1>8. \A q \in Pixmaps : held[q] # "none" /\ held'[q] = "none" =>
         \E k \in 1..Len(evs) : evs[k] = IdleEvent(q)
  BY <1>3, <1>5
<1>9. ~NothingPending
  BY <1>1 DEF NothingPending
<1>10. Tells(evs)
  BY <1>2, <1>3, <1>4, <1>6, <1>7, <1>8, <1>9 DEF Tells
<1>11. QED
  BY <1>5, <1>10 DEF Told

LEMMA TellsNotify ==
  ASSUME Steady, NEW n \in notifyOwed, Notify(n[1], n[2])
  PROVE  Told
<1>1. n = <<special, n[2]>> /\ n[2] \in {0, 1}
  BY SteadyFacts DEF OwedInvariant, TypeOK, ServerTypeOK
<1>2. n[1] = special
  BY SteadyFacts DEF OwedInvariant
<1> DEFINE evs == <<NotifyEvent(n[2])>>
<1>3. /\ queue' = queue \o evs
      /\ UNCHANGED <<special, held, heldOn, forcedOwed>>
      /\ notifyOwed' = notifyOwed \ {n}
  BY <1>1, <1>2 DEF Notify, Deliver
<1>4. evs \in Seq(Events) /\ Len(evs) = 1 /\ evs[1] = NotifyEvent(n[2])
  BY <1>1, SentEvents
<1>5. n[2] = 1 => notifyOwed' = {}
  <2>1. \A m \in notifyOwed : m = <<special, m[2]>> /\ m[2] \in {0, 1}
    BY SteadyFacts DEF OwedInvariant, TypeOK, ServerTypeOK
  <2>2. n[2] = 1 => <<special, 0>> \notin notifyOwed
    BY <1>2 DEF Notify
  <2>3. QED
    BY <1>1, <1>3, <2>1, <2>2
<1>6. n[2] = 0 => evs[1] # NotifyEvent(1)
  BY <1>4, NotNotify
<1> HIDE DEF evs
<1>7. \A i \in 1..Len(evs) : i = Len(evs) /\ i = 1
  BY <1>4
<1>8. \A q : ~Copies(q, evs[1])
  BY <1>4, EventsDiffer DEF Copies
<1>9. \A q, r \in Pixmaps : held'[q] = "screen" /\ held'[r] = "screen" => q = r
  BY <1>3, SteadyFacts DEF OwedInvariant
<1>10. \A i \in 1..Len(evs) : evs[i] = NotifyEvent(1) => i = Len(evs) /\ notifyOwed' = {}
  BY <1>1, <1>5, <1>6, <1>7
<1>11. Tells(evs)
  BY <1>3, <1>7, <1>8, <1>9, <1>10 DEF Tells
<1>12. QED
  BY <1>4, <1>11 DEF Told

LEMMA TellsForced ==
  ASSUME Steady, NEW f \in forcedOwed, Forced(f[1], f[2])
  PROVE  Told
<1>1. f[2] = special /\ f = <<f[1], f[2]>>
  BY SteadyFacts DEF OwedInvariant, TypeOK, ServerTypeOK
<1> DEFINE a == <<CompleteEvent(NoPixmap, "copy"), IdleEvent(NoPixmap)>>
           evs == Unflipped(special, a)
<1>2. queue' = queue \o evs
  BY <1>1 DEF Forced, Deliver, Unflipped
<1>3. /\ \A q \in Pixmaps : held'[q] = IF q \in OnScreen(special) THEN "none" ELSE held[q]
      /\ forcedOwed' = forcedOwed \ {f}
      /\ UNCHANGED <<special, heldOn, notifyOwed>>
  BY <1>1 DEF Forced
<1>4. /\ a \in Seq(Events) /\ Len(a) = 2
      /\ a[1] = CompleteEvent(NoPixmap, "copy") /\ a[2] = IdleEvent(NoPixmap)
  BY SentEvents
<1> HIDE DEF a
<1>5. a # <<>> /\ \A i \in 1..Len(a) : a[i] # NotifyEvent(1)
  BY <1>4, NotNotify
<1>6. Lone(special)
  BY Sole
<1>7. Unflipping(special, a, evs)
  BY <1>4, <1>5, <1>6, UnflippedHas
<1> HIDE DEF evs
<1>8. \A k \in 1..Len(evs) : evs[k] # NotifyEvent(1)
  BY <1>5, <1>7, NotNotify DEF Unflipping
<1>9. \A q \in Pixmaps : held'[q] # "screen" /\ (held[q] # "screen" => held'[q] = held[q])
  BY <1>3, Sole
<1>10. \A q \in Pixmaps : held[q] # "none" /\ held'[q] = "none" =>
         \E k \in 1..Len(evs) : evs[k] = IdleEvent(q)
  BY <1>3, <1>7 DEF Unflipping
<1>11. \A q \in Pixmaps : held'[q] = "none"
  <2>1. PICK u \in Threads : pc[u] = "forced"
    BY SteadyFacts DEF OwedInvariant
  <2>2. NothingPending
    BY <2>1, SteadyFacts DEF OrderInvariant
  <2>3. \A q \in Pixmaps : held[q] \in {"none", "screen"}
    BY <2>2, SteadyFacts DEF NothingPending, TypeOK, ServerTypeOK
  <2>4. QED
    BY <1>3, <2>3, Sole
<1>12. forcedOwed # {} /\ forcedOwed' = {}
  BY <1>3, SteadyFacts DEF OwedInvariant
<1>13. Tells(evs)
  BY <1>2, <1>3, <1>8, <1>9, <1>10, <1>11, <1>12 DEF Tells
<1>14. QED
  BY <1>7, <1>13 DEF Told, Unflipping

LEMMA ServerTells ==
  ASSUME MaxQueue = 0, Steady, Calm', Server
  PROVE  Told
<1>1. \A w \in Windows, g \in Geoms : ~Configure(w, g)
  <2>1. Len(queue) \in Nat
    BY SteadyFacts DEF TypeOK, ServerTypeOK
  <2>2. ~(Len(queue) < MaxQueue)
    BY <2>1
  <2>3. QED
    BY <2>2 DEF Configure
<1>2. \A w \in Windows : ~DestroyWindow(w)
  BY DEF DestroyWindow, Calm
<1>3. ~Disconnect
  BY DEF Disconnect, Calm
<1>4. QED
  BY <1>1, <1>2, <1>3, TellsCopy, TellsFlip, TellsSkip, TellsNotify, TellsForced
     DEF Server, ServerStep, Complete

\* What the server still owes is owed after its step as before.
LEMMA ServerOwed ==
  ASSUME Steady, NEW evs \in Seq(Events), Tells(evs), pc' = pc
  PROVE  OwedInvariant'
<1>1. queue \in Seq(Events) /\ OwedInvariant /\ OrderInvariant /\ SerialInvariant
  BY SteadyFacts DEF TypeOK, ServerTypeOK
<1>2. \A p \in Pixmaps : held'[p] # "none" => heldOn'[p] = special'
  BY <1>1 DEF Tells, OwedInvariant
<1>3. ASSUME NEW i \in 1..Len(queue'), queue'[i] = NotifyEvent(1)
      PROVE  i = Len(queue') /\ notifyOwed' = {}
  <2>1. /\ queue' = queue \o evs /\ Len(queue') = Len(queue) + Len(evs)
        /\ Len(queue) \in Nat /\ Len(evs) \in Nat
    BY <1>1, CatElements DEF Tells
  <2>2. CASE i \in 1..Len(queue)
    <3>1. queue[i] = NotifyEvent(1)
      BY <1>1, <1>3, <2>1, <2>2, CatElements
    <3>2. i = Len(queue) /\ notifyOwed = {} /\ NothingPending /\ Asked
      BY <1>1, <2>2, <3>1 DEF OwedInvariant, OrderInvariant, SerialInvariant
    <3>3. PICK u \in Threads : pc[u] = "serial"
      BY <3>2 DEF Asked
    <3>4. forcedOwed = {}
      BY <3>3, NotOwed DEF Critical, ForcePCs
    <3>5. QED
      BY <3>2, <3>4 DEF Tells
  <2>3. CASE i \notin 1..Len(queue)
    <3>1. i - Len(queue) \in 1..Len(evs) /\ queue'[i] = evs[i - Len(queue)]
      BY <1>1, <2>1, <2>3, CatElements
    <3>2. i - Len(queue) = Len(evs) /\ notifyOwed' = {}
      BY <1>3, <3>1 DEF Tells
    <3>3. QED
      BY <2>1, <3>2
  <2>4. QED
    BY <2>2, <2>3
<1>4. QED
  BY <1>1, <1>2, <1>3 DEF Tells, OwedInvariant

\* A thread in PRESENTForceReleases that waits for nothing gets nothing.
LEMMA ServerWalk ==
  ASSUME Steady, NEW evs \in Seq(Events), Tells(evs), NEW t \in Threads,
         UNCHANGED <<pc, xcbWait, notifySerial, todo, listed>>
  PROVE  WalkAt(t)'
<1>1. WalkAt(t) /\ OrderInvariant
  BY SteadyFacts DEF WalkInvariant
<1>2. pc[t] \in {"serial", "walk", "forced", "fflush", "change", "free"} =>
        /\ pc[t] # "serial" => notifyOwed = {}
        /\ pc[t] # "forced" => forcedOwed = {}
  BY NotOwed DEF Critical, ForcePCs
<1>3. pc[t] \in {"walk", "forced", "fflush", "change", "free"} => NothingPending
  BY <1>1 DEF OrderInvariant, WalkAt, NothingHeld, NothingPending
<1>4. pc[t] = "serial" /\ ~notifySerial => NothingPending /\ notifyOwed = {}
  BY <1>1 DEF OrderInvariant, WalkAt
<1>5. pc[t] \notin {"walk", "fflush", "change", "free"} /\ ~(pc[t] = "serial" /\ ~notifySerial)
  BY <1>2, <1>3, <1>4 DEF Tells
<1>6. pc[t] = "forced" => forcedOwed' = {} /\ \A p \in Pixmaps : held'[p] = "none"
  BY <1>2, <1>3 DEF Tells
<1>7. QED
  BY <1>1, <1>5, <1>6 DEF WalkAt, NothingHeld

LEMMA ServerKept ==
  ASSUME Steady, NEW evs \in Seq(Events), Tells(evs), NEW p \in Pixmaps,
         UNCHANGED <<hand, listed, released, lastFlip, xcbWait, pc>>
  PROVE  IdleKept(p)' /\ FlipKnown(p)'
<1>1. queue \in Seq(Events) /\ IdleKept(p) /\ FlipKnown(p)
  BY SteadyFacts DEF TypeOK, ServerTypeOK
<1>2. /\ Len(queue) \in Nat /\ Len(evs) \in Nat /\ Len(queue') = Len(queue) + Len(evs)
      /\ \A i \in 1..Len(queue) : i \in 1..Len(queue') /\ queue'[i] = queue[i]
      /\ \A i \in 1..Len(evs) :
           Len(queue) + i \in 1..Len(queue') /\ queue'[Len(queue) + i] = evs[i]
      /\ \A i \in 1..Len(queue') : i \notin 1..Len(queue) =>
           i - Len(queue) \in 1..Len(evs) /\ queue'[i] = evs[i - Len(queue)]
  BY <1>1, CatElements DEF Tells
<1>3. IdleKept(p)'
  <2> SUFFICES ASSUME p \in listed', ~released'[p], held'[p] = "none"
               PROVE  ~NoIdleComing(p)'
    BY DEF IdleKept
  <2>1. CASE held[p] = "none"
    BY <1>1, <1>2, <2>1 DEF IdleKept, NoIdleComing, IdleEvent
  <2>2. CASE held[p] # "none"
    <3>1. PICK i \in 1..Len(evs) : evs[i] = IdleEvent(p)
      BY <2>2 DEF Tells
    <3>2. Len(queue) + i \in 1..Len(queue') /\ queue'[Len(queue) + i] = IdleEvent(p)
      BY <1>2, <3>1
    <3>3. QED
      BY <3>2 DEF NoIdleComing, IdleEvent
  <2>3. QED
    BY <2>1, <2>2
<1>4. FlipKnown(p)'
  <2> SUFFICES ASSUME held'[p] = "screen" PROVE FlipKnown(p)'
    BY DEF FlipKnown
  <2>1. CASE held[p] = "screen"
    <3>1. \A i \in 1..Len(evs) : ~Copies(p, evs[i])
      BY <2>1 DEF Tells
    <3>2. CASE \E i \in 1..Len(queue) : queue[i] = CompleteEvent(p, "flip") /\ \A j \in i..Len(queue) : ~Copies(p, queue[j])
      <4>1. PICK i \in 1..Len(queue) : queue[i] = CompleteEvent(p, "flip") /\ \A j \in i..Len(queue) : ~Copies(p, queue[j])
        BY <3>2
      <4>2. i \in 1..Len(queue') /\ queue'[i] = CompleteEvent(p, "flip")
        BY <1>2, <4>1
      <4>3. ASSUME NEW j \in i..Len(queue') PROVE ~Copies(p, queue'[j])
        <5>1. j \in 1..Len(queue')
          BY <1>2
        <5>2. CASE j \in 1..Len(queue)
          <6>1. j \in i..Len(queue)
            BY <1>2, <5>2
          <6>2. QED
            BY <1>2, <4>1, <5>2, <6>1
        <5>3. CASE j \notin 1..Len(queue)
          BY <1>2, <3>1, <5>1, <5>3
        <5>4. QED
          BY <5>2, <5>3
      <4>4. QED
        BY <4>2, <4>3 DEF FlipKnown, Copies, CompleteEvent
    <3>3. CASE \A i \in 1..Len(queue) : ~Copies(p, queue[i])
      <4>1. \A i \in 1..Len(queue') : ~Copies(p, queue'[i])
        BY <1>2, <3>1, <3>3
      <4>2. CASE \E i \in 1..Len(queue) : queue[i] = CompleteEvent(p, "flip")
        BY <3>2, <3>3, <1>2, <4>2
      <4>3. CASE ~\E i \in 1..Len(queue) : queue[i] = CompleteEvent(p, "flip")
        BY <1>1, <2>1, <4>1, <4>3 DEF FlipKnown, Copies, CompleteEvent, Forcing
      <4>4. QED
        BY <4>2, <4>3
    <3>4. QED
      BY <1>1, <2>1, <3>2, <3>3 DEF FlipKnown
  <2>2. CASE held[p] # "screen"
    <3>1. PICK i \in 1..Len(evs) : evs[i] = CompleteEvent(p, "flip") /\ \A j \in i..Len(evs) : ~Copies(p, evs[j])
      BY <2>2 DEF Tells
    <3>2. Len(queue) + i \in 1..Len(queue') /\ queue'[Len(queue) + i] = CompleteEvent(p, "flip")
      BY <1>2, <3>1
    <3>3. ASSUME NEW j \in (Len(queue) + i)..Len(queue') PROVE ~Copies(p, queue'[j])
      <4>1. j \in 1..Len(queue') /\ j \notin 1..Len(queue)
        BY <1>2, <3>1
      <4>2. j - Len(queue) \in i..Len(evs) /\ queue'[j] = evs[j - Len(queue)]
        BY <1>2, <3>1, <4>1
      <4>3. QED
        BY <3>1, <4>2
    <3>4. QED
      BY <3>2, <3>3 DEF FlipKnown, Copies, CompleteEvent
  <2>3. QED
    BY <2>1, <2>2
<1>5. QED
  BY <1>3, <1>4

LEMMA ServerForce ==
  ASSUME MaxQueue = 0, Steady, Calm', Server
  PROVE  ForceInvariant'
<1>1. UNCHANGED <<pc, xcbWait, notifySerial, todo, listed, hand, released, lastFlip>>
  BY DEF Server, eventVars, deviceVars, lockVars, argVars
<1>2. PICK evs \in Seq(Events) : Tells(evs)
  BY ServerTells DEF Told
<1>3. OwedInvariant'
  BY <1>1, <1>2, ServerOwed
<1>4. WalkInvariant'
  BY <1>1, <1>2, ServerWalk DEF WalkInvariant
<1>5. \A p \in Pixmaps : IdleKept(p)' /\ FlipKnown(p)'
  BY <1>1, <1>2, ServerKept
<1>6. QED
  BY <1>3, <1>4, <1>5 DEF ForceInvariant

---------------------------------------------------------------------------
(* A step of a thread, beside PRESENTForceReleases or in it.               *)

LEMMA ForceWaits ==
  ASSUME Steady, NEW t \in Threads, Waits(t)
  PROVE  ForceInvariant'
<1>1. /\ UNCHANGED <<special, queue, held, heldOn, notifyOwed, forcedOwed, released, lastFlip,
                     listed, xcbWait, notifySerial, hand, todo>>
      /\ pc[t] = "idle" /\ pc'[t] \in {"prepare", "wait"}
      /\ \A u \in Threads : u # t => pc'[u] = pc[u]
  BY SteadyFacts DEF Waits, TypeOK, ThreadTypeOK
<1>2. OwedInvariant'
  BY <1>1, SteadyFacts DEF OwedInvariant
<1>3. \A u \in Threads : WalkAt(u)'
  BY <1>1, SteadyFacts DEF WalkInvariant, WalkAt, NothingHeld
<1>4. ASSUME NEW p \in Pixmaps
      PROVE  IdleKept(p)'
  BY <1>1, SteadyFacts DEF IdleKept, NoIdleComing, IdleEvent
<1>5. Forcing => Forcing'
  BY <1>1 DEF Forcing, ForcePCs
<1>6. ASSUME NEW p \in Pixmaps
      PROVE  FlipKnown(p)'
  BY <1>1, <1>5, SteadyFacts DEF FlipKnown, Copies, CompleteEvent
<1>7. QED
  BY <1>2, <1>3, <1>4, <1>6 DEF ForceInvariant, WalkInvariant

\* Where WalkAt says something.
WalkPCs == {"drain", "dflush", "serial", "walk", "forced", "fflush", "change", "free"}
NotifyPCs == {"handshake", "drain1", "d1flush", "serial"}

LEMMA WalkElsewhere ==
  ASSUME NEW t \in Threads, pc'[t] \notin WalkPCs
  PROVE  WalkAt(t)'
BY DEF WalkAt, WalkPCs

\* The step leaves the presentations and the other threads alone.
Beside(t) ==
  /\ UNCHANGED <<special, held, heldOn>> /\ Shrinks
  /\ \A u \in Threads : u # t => pc'[u] = pc[u]

LEMMA WalkOthers ==
  ASSUME Steady, NEW t \in Threads, NobodyInner(t), Beside(t), NEW u \in Threads, u # t
  PROVE  WalkAt(u)'
<1>1. pc'[u] = pc[u] /\ UNCHANGED held /\ Shrinks
  BY DEF Beside
<1>2. pc[u] \notin Inner /\ WalkAt(u)
  BY SteadyFacts DEF NobodyInner, WalkInvariant
<1>3. CASE pc[u] \in {"change", "free"}
  <2>1. queue = <<>> /\ NothingHeld
    BY <1>2, <1>3 DEF WalkAt
  <2>2. queue' = <<>>
    BY <1>1, <2>1 DEF Shrinks
  <2>3. QED
    BY <1>1, <1>3, <2>1, <2>2 DEF WalkAt, NothingHeld
<1>4. CASE pc[u] \notin {"change", "free"}
  BY <1>1, <1>2, <1>4, WalkElsewhere DEF WalkPCs, Inner, ForcePCs
<1>5. QED
  BY <1>3, <1>4

\* The answer with serial 1 stays the last event.
LEMMA AnswerLast ==
  ASSUME Steady, Shrinks
  PROVE  \A i \in 1..Len(queue') :
           queue'[i] = NotifyEvent(1) => i = Len(queue') /\ notifyOwed = {} /\ Asked
<1>1. /\ queue \in Seq(Events)
      /\ \A i \in 1..Len(queue) : queue[i] = NotifyEvent(1) => i = Len(queue) /\ notifyOwed = {} /\ Asked
  BY SteadyFacts DEF TypeOK, ServerTypeOK, OwedInvariant, SerialInvariant
<1>2. CASE queue' = queue
  BY <1>1, <1>2
<1>3. CASE queue # <<>> /\ queue' = Tail(queue)
  <2>1. /\ Len(queue') = Len(queue) - 1 /\ Len(queue) \in Nat \ {0}
        /\ \A i \in 1..Len(queue') : i + 1 \in 1..Len(queue) /\ queue'[i] = queue[i + 1]
    BY <1>1, <1>3, TailElements
  <2>2. QED
    BY <1>1, <2>1
<1>4. CASE queue' = <<>>
  BY <1>4
<1>5. QED
  BY <1>2, <1>3, <1>4 DEF Shrinks

\* Nothing is asked for, and who is waited for waits on.
LEMMA OwedBeside ==
  ASSUME Steady, NEW t \in Threads, Beside(t), UNCHANGED <<notifyOwed, forcedOwed>>,
         pc[t] \in NotifyPCs => pc'[t] \in NotifyPCs \/ notifyOwed = {},
         pc[t] = "forced" => pc'[t] = "forced" \/ forcedOwed = {}
  PROVE  OwedInvariant'
<1>1. OwedInvariant
  BY SteadyFacts
<1>2. \A i \in 1..Len(queue') : queue'[i] = NotifyEvent(1) => i = Len(queue') /\ notifyOwed' = {}
  BY AnswerLast DEF Beside
<1>3. notifyOwed' # {} => \E u \in Threads : pc'[u] \in {"handshake", "drain1", "d1flush", "serial"}
  BY <1>1 DEF OwedInvariant, Beside, NotifyPCs
<1>4. forcedOwed' # {} => \E u \in Threads : pc'[u] = "forced"
  BY <1>1 DEF OwedInvariant, Beside
<1>5. QED
  BY <1>1, <1>2, <1>3, <1>4 DEF OwedInvariant, Beside

\* A step that takes no event off the queue and handles none.
Handless == UNCHANGED <<queue, hand>>
Kept(p) ==
  /\ p \in listed' /\ ~released'[p] => p \in listed /\ ~released[p]
  /\ p \in listed => lastFlip'[p] = lastFlip[p]

LEMMA Quietly ==
  ASSUME Steady, NEW t \in Threads, Beside(t), Handless, NEW p \in Pixmaps, Kept(p),
         NothingHeld \/ (Forcing /\ xcbWait => Forcing' /\ xcbWait')
  PROVE  IdleKept(p)' /\ FlipKnown(p)'
<1>1. UNCHANGED <<held, queue, hand>> /\ IdleKept(p) /\ FlipKnown(p) /\ BufferOK(p)
  BY SteadyFacts DEF Beside, Handless, BufferInvariant
<1>2. IdleKept(p)'
  BY <1>1 DEF IdleKept, Kept, NoIdleComing, IdleEvent
<1>3. ASSUME held'[p] = "screen"
      PROVE  FlipKnown(p)'
  <2>1. held[p] = "screen" /\ p \in listed /\ lastFlip'[p] = lastFlip[p]
    BY <1>1, <1>3 DEF BufferOK, Kept
  <2>2. Forcing /\ xcbWait => Forcing' /\ xcbWait'
    BY <2>1 DEF NothingHeld
  <2>3. QED
    BY <1>1, <2>1, <2>2 DEF FlipKnown, Copies, CompleteEvent
<1>4. QED
  BY <1>2, <1>3 DEF FlipKnown

\* All together for such a step.
LEMMA QuietForce ==
  ASSUME Steady, NEW t \in Threads, NobodyInner(t), Beside(t), Handless,
         \A p \in Pixmaps : Kept(p), OwedInvariant', WalkAt(t)',
         NothingHeld \/ (Forcing /\ xcbWait => Forcing' /\ xcbWait')
  PROVE  ForceInvariant'
<1>1. \A u \in Threads : WalkAt(u)'
  BY WalkOthers
<1>2. \A p \in Pixmaps : IdleKept(p)' /\ FlipKnown(p)'
  BY Quietly
<1>3. QED
  BY <1>1, <1>2 DEF ForceInvariant, WalkInvariant

LEMMA NotForcing ==
  ASSUME NEW t \in Threads, NobodyInner(t), pc[t] \notin Inner
  PROVE  ~Forcing
BY DEF Forcing, NobodyInner, Inner

LEMMA StaysForcing ==
  ASSUME NEW t \in Threads, pc'[t] \in Inner
  PROVE  Forcing'
BY DEF Forcing, Inner, ForcePCs

\* A device is created.
LEMMA ForceCreated ==
  ASSUME OrderContext, NEW t \in Threads, PRESENTInit(t)
  PROVE  ForceInvariant'
<1>1. /\ device = "absent" /\ pc' = pc
      /\ UNCHANGED <<held, queue, listed, notifyOwed, forcedOwed>>
  BY DEF PRESENTInit, requestVars
<1>2. /\ listed = {} /\ special = NoWindow /\ \A u \in Threads : pc[u] = "idle"
      /\ notifyOwed = {} /\ forcedOwed = {}
  BY <1>1 DEF OrderContext, CountContext, SpecialInvariant
<1>3. queue = <<>>
  BY <1>2 DEF OrderContext, CountContext, SpecialInvariant
<1>4. \A p \in Pixmaps : held'[p] = "none"
  BY <1>1, <1>2 DEF OrderContext, CountContext, BufferInvariant, BufferOK
<1>5. OwedInvariant'
  BY <1>1, <1>2, <1>3, <1>4 DEF OwedInvariant
<1>6. \A u \in Threads : WalkAt(u)'
  BY <1>1, <1>2, WalkElsewhere DEF WalkPCs
<1>7. \A p \in Pixmaps : IdleKept(p)' /\ FlipKnown(p)'
  BY <1>1, <1>2, <1>4 DEF IdleKept, FlipKnown
<1>8. QED
  BY <1>5, <1>6, <1>7 DEF ForceInvariant, WalkInvariant

LEMMA ForceCall ==
  ASSUME Steady, NEW t \in Threads, NobodyInner(t), Call(t), ~PRESENTInit(t)
  PROVE  ForceInvariant'
<1> USE DEF serverVars, requestVars, deviceVars, lockVars, argVars, eventVars, Goto, Acquire
<1>1. /\ pc \in [Threads -> PCs] /\ released \in [Pixmaps -> BOOLEAN]
      /\ lastFlip \in [Pixmaps -> BOOLEAN]
  BY SteadyFacts DEF TypeOK, ThreadTypeOK, EventTypeOK
<1>2. /\ UNCHANGED <<special, held, heldOn, queue, hand, notifyOwed, forcedOwed>>
      /\ \A u \in Threads : u # t => pc'[u] = pc[u]
      /\ pc[t] = "idle"
      /\ pc'[t] \in {"idle", "prepare", "wait", "rflush", "force"}
  BY <1>1 DEF Call, PRESENTPixmapInit, PRESENTTryFreePixmap, BeginPresentBuffer, BeginWaitBuffer,
     BeginWaitEvent, BeginIsReleased, BeginDestroy
<1>3. ASSUME NEW p \in Pixmaps
      PROVE  Kept(p)
  <2>1. CASE \E q \in Pixmaps : PRESENTPixmapInit(t, q)
    <3>1. PICK q \in Pixmaps : PRESENTPixmapInit(t, q)
      BY <2>1
    <3>2. QED
      BY <1>1, <3>1 DEF PRESENTPixmapInit, Kept
  <2>2. CASE \E q \in Pixmaps : PRESENTTryFreePixmap(t, q)
    BY <2>2 DEF PRESENTTryFreePixmap, Kept
  <2>3. CASE UNCHANGED <<listed, released, lastFlip>>
    BY <2>3 DEF Kept
  <2>4. QED
    BY <2>1, <2>2, <2>3 DEF Call, BeginPresentBuffer, BeginWaitBuffer,
       BeginWaitEvent, BeginIsReleased, BeginDestroy
<1>4. Beside(t) /\ Handless
  BY <1>2 DEF Beside, Handless, Shrinks
<1>5. OwedInvariant'
  BY <1>2, <1>4, OwedBeside DEF NotifyPCs
<1>6. WalkAt(t)'
  BY <1>2, WalkElsewhere DEF WalkPCs
<1>7. ~Forcing
  BY <1>2, NotForcing DEF Inner, ForcePCs
<1>8. QED
  BY <1>3, <1>4, <1>5, <1>6, <1>7, QuietForce

\* The queue of a window that was given up, and what is left for a change.
LEMMA Unbound ==
  ASSUME Steady, special = NoWindow
  PROVE  NothingHeld /\ queue = <<>> /\ notifyOwed = {} /\ forcedOwed = {}
BY SteadyFacts, ServerAssumption
   DEF OwedInvariant, SpecialInvariant, NothingHeld, TypeOK, ServerTypeOK

LEMMA SpecialIs ==
  ASSUME Steady, NEW t \in Threads, pc[t] \in ForcePCs
  PROVE  special = window
<1>1. \A u \in Threads : pc[u] # "select"
  BY SteadyFacts, OneCritical DEF Critical, ForcePCs
<1>2. QED
  BY <1>1, SteadyFacts DEF SpecialInvariant

\* A flush that is over left nothing in the queue, where it is asserted.
LEMMA FlushedEmpty ==
  ASSUME Steady, NEW t \in Threads, pc[t] \in AssertingFlushes, FlushDone(t)
  PROVE  queue = <<>>
BY SteadyFacts DEF FlushDone, MayFlush, SpecialInvariant

\* A pixmap that is not released is on the screen, and known to be, when no
\* thread is late with an event.
LEMMA Explained ==
  ASSUME Steady, NEW t \in Threads, pc[t] = "walk", NEW p \in Pixmaps, p \in todo[t]
  PROVE  ~Unexplained(p)
<1> SUFFICES ASSUME ~released[p], ~xcbWait PROVE lastFlip[p]
  BY SteadyFacts DEF Unexplained, TypeOK, EventTypeOK
<1>1. queue = <<>> /\ p \in listed
  BY SteadyFacts DEF WalkInvariant, WalkAt
<1>2. \A u \in Threads : hand[u] = NullEvent
  BY SteadyFacts DEF LockProtocol, CallInvariant
<1>3. NoIdleComing(p)
  BY <1>1, <1>2, NullIsNotIdle DEF NoIdleComing
<1>4. held[p] # "none" /\ held[p] # "pending"
  BY <1>1, <1>3, SteadyFacts DEF IdleKept, OrderInvariant, NothingPending
<1>5. held[p] = "screen"
  BY <1>4, SteadyFacts DEF TypeOK, ServerTypeOK
<1>6. \A u \in Threads : hand[u] # CompleteEvent(p, "flip")
  BY <1>2 DEF NullEvent, CompleteEvent
<1>7. QED
  BY <1>1, <1>5, <1>6, SteadyFacts DEF FlipKnown

---------------------------------------------------------------------------
(* Events are read and handled.                                            *)

\* What handling an event does to what is known of p.
LEMMA HandleKnows ==
  ASSUME NEW e, PRESENThandle_events(e), NEW p \in Pixmaps, p \in listed, UNCHANGED listed
  PROVE  /\ ~released'[p] => ~released[p] /\ e # IdleEvent(p)
         /\ e = CompleteEvent(p, "flip") /\ "flip" \in Modes => lastFlip'[p]
         /\ lastFlip[p] /\ ~Copies(p, e) => lastFlip'[p]
<1>1. /\ released'[p] = (released[p] \/ Idles(e, p))
      /\ lastFlip'[p] = FlipAfter(e, p)
  BY DEF PRESENThandle_events
<1>2. ~released'[p] => ~released[p] /\ e # IdleEvent(p)
  BY <1>1 DEF Idles
<1>3. e = CompleteEvent(p, "flip") /\ "flip" \in Modes => FlipAfter(e, p)
  BY DEF FlipAfter, Completes, CompleteEvent
<1>4. lastFlip[p] /\ ~Copies(p, e) => FlipAfter(e, p)
  BY DEF FlipAfter, Completes, CompleteEvent, Copies
<1>5. QED
  BY <1>1, <1>2, <1>3, <1>4

\* A flip that is reported is one the server makes.
LEMMA FlipIsMode ==
  ASSUME NEW p, CompleteEvent(p, "flip") \in Events
  PROVE  "flip" \in Modes
BY DEF Events, CompleteEvent, NullEvent

\* The first event is taken off the queue.
Takes == connected /\ Receive
LEMMA TakesFirst ==
  ASSUME TypeOK, Takes
  PROVE  /\ queue # <<>> /\ queue' = Tail(queue) /\ Received = queue[1] /\ 1 \in 1..Len(queue)
         /\ Len(queue) \in Nat /\ Len(queue') = Len(queue) - 1
         /\ \A i \in 1..Len(queue') : i + 1 \in 1..Len(queue) /\ queue'[i] = queue[i + 1]
         /\ \A i \in 1..Len(queue) : i # 1 => i - 1 \in 1..Len(queue') /\ queue'[i - 1] = queue[i]
         /\ Received \in Events
<1>1. queue \in Seq(Events) /\ queue # <<>> /\ queue' = Tail(queue) /\ Received = Head(queue)
  BY DEF Takes, Receive, Received, TypeOK, ServerTypeOK
<1>2. /\ Received = queue[1] /\ 1 \in 1..Len(queue) /\ Received \in Events
      /\ Len(queue) \in Nat /\ Len(queue') = Len(queue) - 1
      /\ \A i \in 1..Len(queue') : i + 1 \in 1..Len(queue) /\ queue'[i] = queue[i + 1]
  BY <1>1, TailElements
<1>3. ASSUME NEW i \in 1..Len(queue), i # 1
      PROVE  i - 1 \in 1..Len(queue') /\ queue'[i - 1] = queue[i]
  <2>1. i - 1 \in 1..Len(queue') /\ (i - 1) + 1 = i
    BY <1>2, <1>3
  <2>2. QED
    BY <1>2, <2>1
<1>4. QED
  BY <1>1, <1>2, <1>3

\* The queue after the first event: p is still reported, or its report was first.
LEMMA FlipTail ==
  ASSUME TypeOK, Takes, NEW p \in Pixmaps, held[p] = "screen", FlipKnown(p)
  PROVE  \/ \E i \in 1..Len(queue') :
              queue'[i] = CompleteEvent(p, "flip") /\ \A j \in i..Len(queue') : ~Copies(p, queue'[j])
         \/ Received = CompleteEvent(p, "flip") /\ \A i \in 1..Len(queue') : ~Copies(p, queue'[i])
         \/ /\ \A i \in 1..Len(queue') : ~Copies(p, queue'[i])
            /\ ~Copies(p, Received)
            /\ \/ lastFlip[p] /\ \A t \in Threads : ~Copies(p, hand[t])
               \/ \E t \in Threads : hand[t] = CompleteEvent(p, "flip")
               \/ Forcing /\ xcbWait
<1>1. /\ Received = queue[1] /\ 1 \in 1..Len(queue)
      /\ Len(queue) \in Nat /\ Len(queue') = Len(queue) - 1
      /\ \A i \in 1..Len(queue') : i + 1 \in 1..Len(queue) /\ queue'[i] = queue[i + 1]
      /\ \A i \in 1..Len(queue) : i # 1 => i - 1 \in 1..Len(queue') /\ queue'[i - 1] = queue[i]
  BY TakesFirst
<1>2. ASSUME NEW i \in 1..Len(queue), queue[i] = CompleteEvent(p, "flip"),
             \A j \in i..Len(queue) : ~Copies(p, queue[j])
      PROVE  \/ \E k \in 1..Len(queue') :
                  queue'[k] = CompleteEvent(p, "flip") /\ \A j \in k..Len(queue') : ~Copies(p, queue'[j])
             \/ Received = CompleteEvent(p, "flip") /\ \A k \in 1..Len(queue') : ~Copies(p, queue'[k])
  <2>1. ASSUME NEW j \in 1..Len(queue'), i <= j + 1
        PROVE  ~Copies(p, queue'[j])
    <3>1. j + 1 \in i..Len(queue)
      BY <1>1, <2>1
    <3>2. QED
      BY <1>1, <1>2, <3>1
  <2>2. CASE i = 1
    BY <1>1, <1>2, <2>1, <2>2
  <2>3. CASE i # 1
    <3>1. i - 1 \in 1..Len(queue') /\ queue'[i - 1] = CompleteEvent(p, "flip")
      BY <1>1, <1>2, <2>3
    <3>2. ASSUME NEW j \in (i - 1)..Len(queue')
          PROVE  ~Copies(p, queue'[j])
      <4>1. j \in 1..Len(queue') /\ i <= j + 1
        BY <1>1, <3>1
      <4>2. QED
        BY <2>1, <4>1
    <3>3. QED
      BY <3>1, <3>2
  <2>4. QED
    BY <2>2, <2>3
<1>3. ASSUME \A i \in 1..Len(queue) : ~Copies(p, queue[i])
      PROVE  ~Copies(p, Received) /\ \A i \in 1..Len(queue') : ~Copies(p, queue'[i])
  BY <1>1, <1>3
<1>4. QED
  BY <1>2, <1>3 DEF FlipKnown

\* A thread reads an event and handles it.
ReadStep(t) ==
  /\ Beside(t) /\ Takes /\ PRESENThandle_events(Received)
  /\ UNCHANGED <<hand, listed, xcbWait, notifyOwed, forcedOwed>>

LEMMA IdleRead ==
  ASSUME Steady, NEW t \in Threads, ReadStep(t), NEW p \in Pixmaps
  PROVE  IdleKept(p)'
<1> SUFFICES ASSUME p \in listed', ~released'[p], held'[p] = "none"
             PROVE  ~NoIdleComing(p)'
  BY DEF IdleKept
<1>1. p \in listed /\ held[p] = "none" /\ ~released[p] /\ Received # IdleEvent(p)
  BY HandleKnows DEF ReadStep, Beside
<1>2. ~NoIdleComing(p)
  BY <1>1, SteadyFacts DEF IdleKept
<1>3. CASE \E u \in Threads : hand[u] = IdleEvent(p)
  BY <1>3 DEF ReadStep, NoIdleComing, IdleEvent
<1>4. CASE \E i \in 1..Len(queue) : queue[i] = IdleEvent(p)
  <2>1. PICK i \in 1..Len(queue) : queue[i] = IdleEvent(p)
    BY <1>4
  <2>2. i - 1 \in 1..Len(queue') /\ queue'[i - 1] = IdleEvent(p)
    BY <1>1, <2>1, TakesFirst, SteadyFacts DEF ReadStep
  <2>3. QED
    BY <2>2 DEF NoIdleComing, IdleEvent
<1>5. QED
  BY <1>2, <1>3, <1>4 DEF NoIdleComing

LEMMA FlipRead ==
  ASSUME Steady, NEW t \in Threads, ReadStep(t), NEW p \in Pixmaps, xcbWait => Forcing',
         Forcing => Forcing'
  PROVE  FlipKnown(p)'
<1> SUFFICES ASSUME held'[p] = "screen"
             PROVE  FlipKnown(p)'
  BY DEF FlipKnown
<1>1. /\ held[p] = "screen" /\ p \in listed /\ TypeOK /\ Takes /\ FlipKnown(p)
      /\ UNCHANGED <<hand, listed, xcbWait>>
  BY SteadyFacts DEF ReadStep, Beside, BufferInvariant, BufferOK
<1>2. CASE \E i \in 1..Len(queue') :
             queue'[i] = CompleteEvent(p, "flip") /\ \A j \in i..Len(queue') : ~Copies(p, queue'[j])
  BY <1>2 DEF FlipKnown, Copies, CompleteEvent
<1>3. CASE Received = CompleteEvent(p, "flip") /\ \A i \in 1..Len(queue') : ~Copies(p, queue'[i])
  <2>1. lastFlip'[p]
    BY <1>1, <1>3, HandleKnows, FlipIsMode, TakesFirst DEF ReadStep
  <2>2. (\A u \in Threads : ~Copies(p, hand[u])) \/ xcbWait
    <3>1. \A u \in Threads : hand[u] = NullEvent \/ xcbWait
      BY SteadyFacts DEF LockProtocol, CallInvariant
    <3>2. QED
      BY <3>1 DEF NullEvent, Copies, CompleteEvent
  <2>3. QED
    BY <1>1, <1>3, <2>1, <2>2 DEF FlipKnown, Copies, CompleteEvent
<1>4. CASE /\ \A i \in 1..Len(queue') : ~Copies(p, queue'[i])
           /\ ~Copies(p, Received)
           /\ \/ lastFlip[p] /\ \A u \in Threads : ~Copies(p, hand[u])
              \/ \E u \in Threads : hand[u] = CompleteEvent(p, "flip")
              \/ Forcing /\ xcbWait
  <2>1. lastFlip[p] => lastFlip'[p]
    BY <1>1, <1>4, HandleKnows DEF ReadStep
  <2>2. QED
    BY <1>1, <1>4, <2>1 DEF FlipKnown, Copies, CompleteEvent
<1>5. QED
  BY <1>1, <1>2, <1>3, <1>4, FlipTail

LEMMA ReadForce ==
  ASSUME Steady, NEW t \in Threads, NobodyInner(t), ReadStep(t), xcbWait => Forcing',
         Forcing => Forcing', OwedInvariant', WalkAt(t)'
  PROVE  ForceInvariant'
<1>1. \A u \in Threads : WalkAt(u)'
  BY WalkOthers DEF ReadStep
<1>2. \A p \in Pixmaps : IdleKept(p)' /\ FlipKnown(p)'
  BY IdleRead, FlipRead
<1>3. QED
  BY <1>1, <1>2 DEF ForceInvariant, WalkInvariant

---------------------------------------------------------------------------
(* PRESENTForceReleases.                                                   *)

\* What its steps that read nothing leave alone.
ForceStill(t) ==
  /\ UNCHANGED <<special, held, heldOn, queue, hand, listed, released, lastFlip, xcbWait>>
  /\ \A u \in Threads : u # t => pc'[u] = pc[u]

LEMMA StillForce ==
  ASSUME Steady, NEW t \in Threads, NobodyInner(t), ForceStill(t), OwedInvariant', WalkAt(t)',
         pc[t] \in Inner => pc'[t] \in Inner \/ NothingHeld
  PROVE  ForceInvariant'
<1>1. Beside(t) /\ Handless /\ \A p \in Pixmaps : Kept(p)
  BY DEF ForceStill, Beside, Handless, Shrinks, Kept
<1>2. NothingHeld \/ (Forcing /\ xcbWait => Forcing' /\ xcbWait')
  BY NotForcing, StaysForcing DEF ForceStill
<1>3. QED
  BY <1>1, <1>2, QuietForce

LEMMA ForceBeginKept ==
  ASSUME Steady, NEW t \in Threads, NobodyInner(t), ForceBegin(t)
  PROVE  ForceInvariant'
<1> USE DEF serverVars, windowVars, eventVars, deviceVars, lockVars, argVars
<1>1. /\ pc[t] = "force" /\ window # NoWindow /\ pc \in [Threads -> PCs] /\ special = window
      /\ window \in Windows
  BY SteadyFacts, SpecialIs DEF ForceBegin, TypeOK, ThreadTypeOK, ServerTypeOK, ForcePCs
<1>2. /\ ForceStill(t) /\ UNCHANGED forcedOwed
      /\ \/ pc'[t] = "drain" /\ ~xcbWait /\ UNCHANGED notifyOwed
         \/ pc'[t] = "handshake" /\ notifyOwed' \in {notifyOwed, notifyOwed \cup {<<window, 0>>}}
  BY <1>1 DEF ForceBegin, ForceStill, Goto
<1>3. notifyOwed = {} /\ forcedOwed = {} /\ ~Asked
  <2>1. \A u \in Threads : pc[u] # "serial"
    BY <1>1, SteadyFacts, OneCritical DEF Critical, ForcePCs
  <2>2. QED
    BY <1>1, <2>1, NotOwed DEF Asked, Critical, ForcePCs
<1>4. OwedInvariant'
  <2>1. \A i \in 1..Len(queue') : queue'[i] # NotifyEvent(1)
    BY <1>2, <1>3, SteadyFacts DEF ForceStill, SerialInvariant
  <2>2. \A n \in notifyOwed' : n[1] = special
    BY <1>1, <1>2, <1>3
  <2>3. notifyOwed' # {} => pc'[t] = "handshake"
    BY <1>2, <1>3
  <2>4. QED
    BY <1>2, <1>3, <2>1, <2>2, <2>3, SteadyFacts DEF OwedInvariant, ForceStill
<1>5. WalkAt(t)'
  BY <1>2 DEF WalkAt, ForceStill
<1>6. QED
  BY <1>1, <1>2, <1>4, <1>5, StillForce DEF Inner, ForcePCs

LEMMA ForceNotifyKept ==
  ASSUME Steady, NEW t \in Threads, NobodyInner(t), ForceNotify(t)
  PROVE  ForceInvariant'
<1> USE DEF serverVars, windowVars, eventVars, deviceVars, lockVars, argVars
<1>1. pc[t] = "d1flush" /\ pc \in [Threads -> PCs] /\ special = window
  BY SteadyFacts, SpecialIs DEF ForceNotify, TypeOK, ThreadTypeOK, ForcePCs
<1>2. /\ ForceStill(t) /\ UNCHANGED forcedOwed /\ pc'[t] = "serial" /\ notifySerial'
      /\ notifyOwed' \subseteq notifyOwed \cup {<<window, 1>>}
  BY <1>1 DEF ForceNotify, ForceStill, Goto
<1>3. forcedOwed = {} /\ ~Asked
  <2>1. \A u \in Threads : pc[u] # "serial"
    BY <1>1, SteadyFacts, OneCritical DEF Critical, ForcePCs
  <2>2. QED
    BY <1>1, <2>1, NotOwed DEF Asked, Critical, ForcePCs
<1>4. OwedInvariant'
  <2>1. \A i \in 1..Len(queue') : queue'[i] # NotifyEvent(1)
    BY <1>2, <1>3, SteadyFacts DEF ForceStill, SerialInvariant
  <2>2. \A n \in notifyOwed' : n[1] = special
    BY <1>1, <1>2, SteadyFacts DEF OwedInvariant
  <2>3. QED
    BY <1>2, <1>3, <2>1, <2>2, SteadyFacts DEF OwedInvariant, ForceStill
<1>5. WalkAt(t)'
  BY <1>2 DEF WalkAt, ForceStill
<1>6. QED
  BY <1>1, <1>2, <1>4, <1>5, StillForce DEF Inner, ForcePCs

\* A step that asks for nothing.
LEMMA AskedNothing ==
  ASSUME Steady, NEW t \in Threads, ForceStill(t), UNCHANGED <<notifyOwed, forcedOwed>>,
         pc[t] \in NotifyPCs => pc'[t] \in NotifyPCs \/ notifyOwed = {},
         pc[t] = "forced" => pc'[t] = "forced" \/ forcedOwed = {}
  PROVE  OwedInvariant'
<1>1. Beside(t)
  BY DEF ForceStill, Beside, Shrinks
<1>2. QED
  BY <1>1, OwedBeside

LEMMA ForceGoesOn ==
  ASSUME Steady, NEW t \in Threads, NobodyInner(t),
         \/ ForceHandshake(t) \/ ForceWalk(t)
         \/ ForceDrain(t) /\ pc' # pc
         \/ ForceWait(t) /\ pc[t] = "fflush"
  PROVE  ForceInvariant'
<1> USE DEF serverVars, windowVars, eventVars, deviceVars, lockVars, argVars
<1>1. pc \in [Threads -> PCs] /\ todo \in [Threads -> SUBSET Pixmaps] /\ WalkAt(t)
  BY SteadyFacts DEF TypeOK, ThreadTypeOK, WalkInvariant
<1>2. CASE ForceHandshake(t)
  <2>1. /\ ForceStill(t) /\ UNCHANGED <<notifyOwed, forcedOwed>> /\ pc[t] = "handshake"
        /\ pc'[t] = "drain1"
    BY <1>1, <1>2 DEF ForceHandshake, ForceStill, Goto, requestVars
  <2>2. OwedInvariant'
    BY <2>1, AskedNothing DEF NotifyPCs
  <2>3. WalkAt(t)'
    BY <2>1, WalkElsewhere DEF WalkPCs
  <2>4. QED
    BY <2>1, <2>2, <2>3, StillForce DEF Inner, ForcePCs
<1>3. CASE ForceWalk(t)
  <2>1. /\ ForceStill(t) /\ UNCHANGED <<notifyOwed, forcedOwed>>
        /\ pc'[t] = "walk" /\ todo'[t] = listed /\ UNCHANGED listed
        /\ \/ pc[t] = "dflush" /\ FlushDone(t)
           \/ pc[t] = "serial" /\ ~notifySerial
    BY <1>1, <1>3 DEF ForceWalk, ForceStill, Goto, requestVars
  <2>2. queue = <<>> /\ (pc[t] = "serial" => notifyOwed = {})
    BY <1>1, <2>1, FlushedEmpty DEF WalkAt, AssertingFlushes
  <2>3. OwedInvariant'
    BY <2>1, <2>2, AskedNothing DEF NotifyPCs
  <2>4. WalkAt(t)'
    BY <2>1, <2>2 DEF WalkAt, ForceStill
  <2>5. QED
    BY <2>1, <2>3, <2>4, StillForce DEF Inner, ForcePCs
<1>4. CASE ForceDrain(t) /\ pc' # pc
  <2>1. /\ ForceStill(t) /\ UNCHANGED <<notifyOwed, forcedOwed>>
        /\ \/ pc[t] = "drain" /\ pc'[t] = "dflush"
           \/ pc[t] = "drain1" /\ pc'[t] = "d1flush"
    BY <1>1, <1>4 DEF ForceDrain, ForceStill, Goto, requestVars
  <2>2. OwedInvariant'
    BY <2>1, AskedNothing DEF NotifyPCs
  <2>3. WalkAt(t)'
    BY <1>1, <2>1 DEF WalkAt, ForceStill
  <2>4. QED
    BY <2>1, <2>2, <2>3, StillForce DEF Inner, ForcePCs
<1>5. CASE ForceWait(t) /\ pc[t] = "fflush"
  <2>1. /\ ForceStill(t) /\ UNCHANGED <<notifyOwed, forcedOwed, todo>>
        /\ pc'[t] = "walk" /\ FlushDone(t)
    BY <1>1, <1>5 DEF ForceWait, ForceStill, Goto, requestVars
  <2>2. queue = <<>> /\ NothingHeld /\ todo[t] \subseteq listed
    BY <1>1, <1>5, <2>1, FlushedEmpty DEF WalkAt, AssertingFlushes
  <2>3. OwedInvariant'
    BY <1>5, <2>1, AskedNothing DEF NotifyPCs
  <2>4. WalkAt(t)'
    <3>1. \A p \in Pixmaps : held'[p] = "none"
      BY <2>1, <2>2 DEF ForceStill, NothingHeld
    <3>2. listed \subseteq Pixmaps
      BY SteadyFacts DEF TypeOK, DeviceTypeOK
    <3>3. QED
      BY <2>1, <2>2, <3>1, <3>2 DEF WalkAt, ForceStill
  <2>5. QED
    BY <1>5, <2>1, <2>3, <2>4, StillForce DEF Inner, ForcePCs
<1>6. QED
  BY <1>2, <1>3, <1>4, <1>5

\* A thread waits for an answer in PRESENTForceReleases.
LEMMA ForceReads ==
  ASSUME Steady, NEW t \in Threads, NobodyInner(t),
         \/ ForceDrain(t) /\ UNCHANGED pc
         \/ ForceWait(t) /\ pc[t] = "forced",
         pc[t] \in {"drain", "drain1", "serial", "forced"}, WaitEvent
  PROVE  ForceInvariant'
<1> USE DEF serverVars, requestVars, windowVars, eventVars, deviceVars, lockVars, argVars
<1>1. pc \in [Threads -> PCs] /\ WalkAt(t) /\ connected /\ TypeOK
  BY SteadyFacts DEF Steady, Calm, TypeOK, ThreadTypeOK, WalkInvariant
<1>2. /\ pc[t] # "forced" => pc' = pc
      /\ pc[t] = "forced" => pc' = [pc EXCEPT ![t] = "fflush"]
  BY DEF ForceDrain, ForceWait, Goto
<1>3. ReadStep(t) /\ UNCHANGED <<special, held, heldOn, todo, xcbWait>>
  <2>1. Shrinks
    BY QueueShrinks DEF Continue, ForceReleases
  <2>2. Beside(t)
    BY <1>1, <1>2, <2>1 DEF WaitEvent, Beside
  <2>3. QED
    BY <1>1, <2>2 DEF WaitEvent, ReadStep, Takes
<1>4. queue # <<>>
  BY <1>1, <1>3, TakesFirst DEF ReadStep
<1>5. pc[t] = "forced" => forcedOwed = {} /\ NothingHeld
  BY <1>1, <1>4 DEF WalkAt
<1>6. OwedInvariant'
  BY <1>2, <1>3, <1>5, OwedBeside DEF ReadStep, NotifyPCs
<1>7. WalkAt(t)'
  <2>1. CASE pc[t] = "drain"
    BY <1>1, <1>2, <1>3, <2>1 DEF WalkAt
  <2>2. CASE pc[t] = "drain1"
    BY <1>2, <2>2, WalkElsewhere DEF WalkPCs
  <2>3. CASE pc[t] = "serial"
    <3>1. ASSUME ~notifySerial'
          PROVE  queue' = <<>> /\ notifyOwed' = {}
      <4>1. notifySerial
        BY <2>3, <1>2 DEF ForceDrain
      <4>2. Received = NotifyEvent(1)
        BY <3>1, <4>1 DEF WaitEvent, PRESENThandle_events
      <4>3. queue[1] = NotifyEvent(1) /\ 1 \in 1..Len(queue) /\ Len(queue') = Len(queue) - 1
        BY <1>1, <1>3, <4>2, TakesFirst DEF ReadStep
      <4>4. 1 = Len(queue) /\ notifyOwed = {}
        BY <4>3, SteadyFacts DEF OwedInvariant
      <4>5. queue' \in Seq(Events) /\ Len(queue') = 0
        BY <1>1, <4>3, <4>4, ReceiveType DEF WaitEvent, TypeOK, ServerTypeOK
      <4>6. QED
        BY <1>3, <4>4, <4>5 DEF ReadStep
    <3>2. QED
      BY <1>2, <2>3, <3>1 DEF WalkAt
  <2>4. CASE pc[t] = "forced"
    BY <1>1, <1>2, <1>3, <1>5, <2>4 DEF WalkAt, NothingHeld, ReadStep
  <2>5. QED
    BY <2>1, <2>2, <2>3, <2>4
<1>8. Forcing'
  BY <1>1, <1>2, StaysForcing DEF Inner, ForcePCs
<1>9. QED
  BY <1>3, <1>6, <1>7, <1>8, ReadForce

LEMMA ForcePixmapKept ==
  ASSUME Steady, NEW t \in Threads, NobodyInner(t), NEW p \in Pixmaps, ForcePixmap(t, p)
  PROVE  ForceInvariant'
<1> USE DEF serverVars, windowVars, eventVars, deviceVars, lockVars, argVars
<1>1. /\ pc \in [Threads -> PCs] /\ todo \in [Threads -> SUBSET Pixmaps] /\ WalkAt(t)
      /\ pc[t] = "walk" /\ p \in todo[t] /\ ~Unexplained(p)
  BY SteadyFacts, Explained DEF ForcePixmap, TypeOK, ThreadTypeOK, WalkInvariant
<1>2. special = window /\ window \in alive /\ notifyOwed = {} /\ forcedOwed = {}
  <2>1. window \in Windows
    BY <1>1, SteadyFacts DEF SpecialInvariant, ForcePCs, TypeOK, DeviceTypeOK
  <2>2. QED
    BY <1>1, <2>1, SpecialIs, NotOwed DEF Steady, Calm, Critical, ForcePCs
<1>3. /\ ForceStill(t) /\ UNCHANGED notifyOwed
      /\ todo'[t] = todo[t] \ {p} /\ pc'[t] = "forced"
      /\ forcedOwed' = forcedOwed \cup {<<p, window>>}
  BY <1>1, <1>2 DEF ForcePixmap, ForceStill, Goto
<1>4. queue = <<>> /\ todo[t] \subseteq listed
  BY <1>1 DEF WalkAt
<1>5. OwedInvariant'
  <2>1. \A i \in 1..Len(queue') : FALSE
    BY <1>3, <1>4 DEF ForceStill
  <2>2. \A f \in forcedOwed' : f[2] = special /\ \A g \in forcedOwed' : f = g
    BY <1>2, <1>3
  <2>3. QED
    BY <1>2, <1>3, <2>1, <2>2, SteadyFacts DEF OwedInvariant, ForceStill
<1>6. WalkAt(t)'
  BY <1>3, <1>4 DEF WalkAt, ForceStill
<1>7. QED
  BY <1>3, <1>5, <1>6, StillForce DEF Inner, ForcePCs

LEMMA ForceEndKept ==
  ASSUME Steady, NEW t \in Threads, NobodyInner(t), ForceEnd(t)
  PROVE  ForceInvariant'
<1> USE DEF serverVars, requestVars, windowVars, eventVars, deviceVars, lockVars, argVars
<1>1. /\ pc \in [Threads -> PCs] /\ WalkAt(t) /\ pc[t] \in {"force", "walk"}
      /\ listed \subseteq Pixmaps
  BY SteadyFacts DEF ForceEnd, TypeOK, ThreadTypeOK, DeviceTypeOK, WalkInvariant
<1>2. /\ ForceStill(t) /\ UNCHANGED <<notifyOwed, forcedOwed>> /\ pc'[t] \in {"free", "change"}
  BY <1>1 DEF ForceEnd, ForceStill, Goto
<1>3. queue = <<>> /\ NothingHeld
  <2>1. CASE pc[t] = "force"
    <3>1. special = NoWindow
      BY <2>1, SpecialIs DEF ForceEnd, ForcePCs
    <3>2. QED
      BY <3>1, Unbound
  <2>2. CASE pc[t] = "walk"
    <3>1. queue = <<>> /\ \A p \in listed \ todo[t] : held[p] = "none"
      BY <1>1, <2>2 DEF WalkAt
    <3>2. \A p \in todo[t] : released[p]
      BY <2>2 DEF ForceEnd
    <3>3. \A p \in Pixmaps : held[p] # "none" => p \in listed /\ ~released[p]
      BY SteadyFacts DEF BufferInvariant, BufferOK
    <3>4. QED
      BY <3>1, <3>2, <3>3 DEF NothingHeld
  <2>3. QED
    BY <1>1, <2>1, <2>2
<1>4. OwedInvariant'
  BY <1>1, <1>2, AskedNothing DEF NotifyPCs
<1>5. WalkAt(t)'
  BY <1>2, <1>3 DEF WalkAt, ForceStill, NothingHeld
<1>6. QED
  BY <1>2, <1>3, <1>4, <1>5, StillForce

LEMMA ForceForce ==
  ASSUME Steady, NEW t \in Threads, NobodyInner(t), ForceReleases(t)
  PROVE  ForceInvariant'
<1>1. ASSUME ForceDrain(t)
      PROVE  ForceInvariant'
  <2>1. CASE UNCHANGED pc /\ WaitEvent /\ pc[t] \in {"drain", "drain1", "serial"}
    BY <1>1, <2>1, ForceReads
  <2>2. CASE pc' # pc
    BY <1>1, <2>2, ForceGoesOn
  <2>3. CASE pc[t] \in {"drain", "drain1"} /\ (Goto(t, "dflush") \/ Goto(t, "d1flush"))
    <3>1. pc' # pc
      BY <2>3, SteadyFacts DEF Goto, TypeOK, ThreadTypeOK
    <3>2. QED
      BY <2>2, <3>1
  <2>4. QED
    BY <1>1, <2>1, <2>3 DEF ForceDrain
<1>2. ASSUME ForceWait(t)
      PROVE  ForceInvariant'
  <2>1. CASE pc[t] = "forced"
    BY <1>2, <2>1, ForceReads DEF ForceWait
  <2>2. CASE pc[t] = "fflush"
    BY <1>2, <2>2, ForceGoesOn
  <2>3. QED
    BY <1>2, <2>1, <2>2 DEF ForceWait
<1>3. QED
  BY <1>1, <1>2, ForceBeginKept, ForceGoesOn, ForceNotifyKept, ForcePixmapKept, ForceEndKept
     DEF ForceReleases

---------------------------------------------------------------------------
(* The other calls.                                                        *)

LEMMA FlushForce ==
  ASSUME Steady, NEW t \in Threads, NobodyInner(t), FlushEvent(t)
  PROVE  ForceInvariant'
<1> USE DEF serverVars, requestVars, windowVars, eventVars, deviceVars, lockVars, argVars
<1>1. WalkAt(t) /\ connected
  BY SteadyFacts DEF Steady, Calm, WalkInvariant
<1>2. /\ UNCHANGED <<special, held, heldOn, pc, todo, xcbWait>> /\ pc[t] \in Flushes
      /\ ReadStep(t)
  <2>1. Beside(t)
    BY DEF FlushEvent, Beside, Shrinks
  <2>2. Takes
    BY <1>1 DEF FlushEvent, Takes, Receive
  <2>3. PRESENThandle_events(Received)
    BY DEF FlushEvent, Received
  <2>4. QED
    BY <2>1, <2>2, <2>3 DEF FlushEvent, ReadStep
<1>3. OwedInvariant'
  BY <1>2, OwedBeside DEF ReadStep
<1>4. WalkAt(t)'
  BY <1>1, <1>2 DEF WalkAt, ReadStep, Flushes, AssertingFlushes, NothingHeld
<1>5. Forcing' <=> Forcing
  BY <1>2 DEF Forcing
<1>6. xcbWait => Forcing
  BY DEF FlushEvent, MayFlush, Forcing, ForcePCs, AssertingFlushes
<1>7. QED
  BY <1>2, <1>3, <1>4, <1>5, <1>6, ReadForce

\* The waiting thread has an event; nobody is past the handshake.
LEMMA TakeForce ==
  ASSUME Steady, NEW t \in Threads, NobodyInner(t), TakeEvent(t)
  PROVE  ForceInvariant'
<1> USE DEF serverVars, requestVars, windowVars, eventVars, deviceVars, lockVars, argVars
<1>1. /\ pc \in [Threads -> PCs] /\ hand \in [Threads -> Events] /\ TypeOK
      /\ pc[t] = "xcb" /\ connected
  BY SteadyFacts DEF Steady, Calm, TypeOK, ThreadTypeOK, TakeEvent
<1>2. /\ Beside(t) /\ Takes /\ pc'[t] = "got"
      /\ UNCHANGED <<notifyOwed, forcedOwed, listed, released, lastFlip, held, todo>>
      /\ hand'[t] = Received /\ \A u \in Threads : u # t => hand'[u] = hand[u]
  <2>1. Shrinks
    BY QueueShrinks DEF Continue
  <2>2. QED
    BY <1>1, <2>1 DEF TakeEvent, Beside, Takes, Goto
<1>3. ~Forcing /\ \A u \in Threads : hand[u] = NullEvent
  <2>1. ~Forcing
    BY <1>1, NotForcing DEF Inner, ForcePCs
  <2>2. \A u \in Threads : pc[u] # "got"
    BY <1>1, SteadyFacts DEF LockProtocol
  <2>3. QED
    BY <2>1, <2>2, SteadyFacts DEF CallInvariant
<1>4. OwedInvariant'
  BY <1>1, <1>2, OwedBeside DEF NotifyPCs
<1>5. \A u \in Threads : WalkAt(u)'
  BY <1>2, WalkOthers, WalkElsewhere DEF WalkPCs
<1>6. ASSUME NEW p \in Pixmaps
      PROVE  IdleKept(p)'
  <2> SUFFICES ASSUME p \in listed', ~released'[p], held'[p] = "none"
               PROVE  ~NoIdleComing(p)'
    BY DEF IdleKept
  <2>1. ~NoIdleComing(p)
    BY <1>2, SteadyFacts DEF IdleKept
  <2>2. PICK i \in 1..Len(queue) : queue[i] = IdleEvent(p)
    BY <1>3, <2>1, NullIsNotIdle DEF NoIdleComing
  <2>3. CASE i = 1
    <3>1. hand'[t] = IdleEvent(p)
      BY <1>1, <1>2, <2>2, <2>3, TakesFirst
    <3>2. QED
      BY <3>1 DEF NoIdleComing, IdleEvent
  <2>4. CASE i # 1
    <3>1. i - 1 \in 1..Len(queue') /\ queue'[i - 1] = IdleEvent(p)
      BY <1>1, <1>2, <2>2, <2>4, TakesFirst
    <3>2. QED
      BY <3>1 DEF NoIdleComing, IdleEvent
  <2>5. QED
    BY <2>3, <2>4
<1>7. ASSUME NEW p \in Pixmaps
      PROVE  FlipKnown(p)'
  <2> SUFFICES ASSUME held'[p] = "screen"
               PROVE  FlipKnown(p)'
    BY DEF FlipKnown
  <2>1. held[p] = "screen" /\ FlipKnown(p)
    BY <1>2, SteadyFacts
  <2>2. CASE \E i \in 1..Len(queue') :
               queue'[i] = CompleteEvent(p, "flip") /\ \A j \in i..Len(queue') : ~Copies(p, queue'[j])
    BY <2>2 DEF FlipKnown, Copies, CompleteEvent
  <2>3. CASE Received = CompleteEvent(p, "flip") /\ \A i \in 1..Len(queue') : ~Copies(p, queue'[i])
    BY <1>2, <2>3 DEF FlipKnown, Copies, CompleteEvent
  <2>4. CASE /\ \A i \in 1..Len(queue') : ~Copies(p, queue'[i])
             /\ ~Copies(p, Received)
             /\ \/ lastFlip[p] /\ \A u \in Threads : ~Copies(p, hand[u])
                \/ \E u \in Threads : hand[u] = CompleteEvent(p, "flip")
                \/ Forcing /\ xcbWait
    <3>1. \A u \in Threads : hand[u] # CompleteEvent(p, "flip")
      BY <1>3 DEF NullEvent, CompleteEvent
    <3>2. lastFlip[p]
      BY <1>3, <2>4, <3>1
    <3>3. \A u \in Threads : ~Copies(p, hand'[u])
      BY <1>2, <1>3, <2>4 DEF Copies, NullEvent, CompleteEvent
    <3>4. QED
      BY <1>2, <2>4, <3>2, <3>3 DEF FlipKnown, Copies, CompleteEvent
  <2>5. QED
    BY <1>1, <1>2, <2>1, <2>2, <2>3, <2>4, FlipTail
<1>8. QED
  BY <1>4, <1>5, <1>6, <1>7 DEF ForceInvariant, WalkInvariant

LEMMA HandleForce ==
  ASSUME Steady, NEW t \in Threads, NobodyInner(t), HandleTaken(t)
  PROVE  ForceInvariant'
<1> USE DEF serverVars, requestVars, windowVars, eventVars, deviceVars, lockVars, argVars
<1>1. /\ pc \in [Threads -> PCs] /\ hand \in [Threads -> Events] /\ pc[t] = "got"
  BY SteadyFacts DEF TypeOK, ThreadTypeOK, HandleTaken
<1>2. /\ Beside(t) /\ PRESENThandle_events(hand[t]) /\ pc'[t] \in {"idle", "check"}
      /\ UNCHANGED <<notifyOwed, forcedOwed, listed, held, queue>>
      /\ hand'[t] = NullEvent /\ \A u \in Threads : u # t => hand'[u] = hand[u]
  BY <1>1 DEF HandleTaken, Beside, Shrinks, Goto
<1>3. ~Forcing /\ \A u \in Threads : u # t => hand[u] = NullEvent
  <2>1. ~Forcing
    BY <1>1, NotForcing DEF Inner, ForcePCs
  <2>2. \A u \in Threads : u # t => pc[u] # "got"
    BY <1>1, SteadyFacts DEF LockProtocol
  <2>3. QED
    BY <2>1, <2>2, SteadyFacts DEF CallInvariant
<1>4. OwedInvariant'
  BY <1>1, <1>2, OwedBeside DEF NotifyPCs
<1>5. \A u \in Threads : WalkAt(u)'
  BY <1>2, WalkOthers, WalkElsewhere DEF WalkPCs
<1>6. ASSUME NEW p \in Pixmaps
      PROVE  IdleKept(p)'
  <2> SUFFICES ASSUME p \in listed', ~released'[p], held'[p] = "none"
               PROVE  ~NoIdleComing(p)'
    BY DEF IdleKept
  <2>1. p \in listed /\ ~released[p] /\ hand[t] # IdleEvent(p)
    BY <1>2, HandleKnows
  <2>2. ~NoIdleComing(p)
    BY <1>2, <2>1, SteadyFacts DEF IdleKept
  <2>3. PICK i \in 1..Len(queue) : queue[i] = IdleEvent(p)
    BY <1>3, <2>1, <2>2, NullIsNotIdle DEF NoIdleComing
  <2>4. QED
    BY <1>2, <2>3 DEF NoIdleComing, IdleEvent
<1>7. ASSUME NEW p \in Pixmaps
      PROVE  FlipKnown(p)'
  <2> SUFFICES ASSUME held'[p] = "screen"
               PROVE  FlipKnown(p)'
    BY DEF FlipKnown
  <2>1. held[p] = "screen" /\ FlipKnown(p) /\ p \in listed
    BY <1>2, SteadyFacts DEF BufferInvariant, BufferOK
  <2>2. CASE \E i \in 1..Len(queue) :
               queue[i] = CompleteEvent(p, "flip") /\ \A j \in i..Len(queue) : ~Copies(p, queue[j])
    BY <1>2, <2>2 DEF FlipKnown, Copies, CompleteEvent
  <2>3. CASE /\ \A i \in 1..Len(queue) : ~Copies(p, queue[i])
             /\ \/ lastFlip[p] /\ \A u \in Threads : ~Copies(p, hand[u])
                \/ \E u \in Threads : hand[u] = CompleteEvent(p, "flip")
                \/ Forcing /\ xcbWait
    <3>1. \A u \in Threads : u # t => hand[u] # CompleteEvent(p, "flip")
      BY <1>3 DEF NullEvent, CompleteEvent
    <3>2. ASSUME lastFlip[p], \A u \in Threads : ~Copies(p, hand[u])
          PROVE  lastFlip'[p]
      BY <1>2, <2>1, <3>2, HandleKnows
    <3>3. ASSUME hand[t] = CompleteEvent(p, "flip")
          PROVE  lastFlip'[p]
      <4>1. "flip" \in Modes
        BY <1>1, <3>3, FlipIsMode
      <4>2. QED
        BY <1>2, <2>1, <3>3, <4>1, HandleKnows
    <3>4. lastFlip'[p]
      BY <1>3, <2>3, <3>1, <3>2, <3>3
    <3>5. \A u \in Threads : ~Copies(p, hand'[u])
      BY <1>2, <1>3 DEF Copies, NullEvent, CompleteEvent
    <3>6. QED
      BY <1>2, <2>3, <3>4, <3>5 DEF FlipKnown, Copies, CompleteEvent
  <2>4. QED
    BY <2>1, <2>2, <2>3 DEF FlipKnown
<1>8. QED
  BY <1>4, <1>5, <1>6, <1>7 DEF ForceInvariant, WalkInvariant

\* Nothing is held, in the queue or asked for: the binding of a window.
LEMMA BindForce ==
  ASSUME Steady, NEW t \in Threads, pc[t] \in {"change", "select"},
         PRESENTPrivChangeWindow(t) \/ ChangeWindowSelect(t)
  PROVE  ForceInvariant'
<1> USE DEF serverVars, requestVars, windowVars, eventVars, deviceVars, lockVars, argVars
<1>1. pc \in [Threads -> PCs] /\ WalkAt(t)
  BY SteadyFacts DEF TypeOK, ThreadTypeOK, WalkInvariant
<1>2. /\ UNCHANGED <<held, heldOn, notifyOwed, forcedOwed, listed, released, hand>>
      /\ pc'[t] \in {"select", "pflush"} /\ \A u \in Threads : u # t => pc'[u] = pc[u]
      /\ queue' = <<>> \/ queue' = queue
  BY <1>1 DEF PRESENTPrivChangeWindow, ChangeWindowSelect, Goto
<1>3. NothingHeld /\ queue = <<>> /\ notifyOwed = {} /\ forcedOwed = {}
  <2>1. CASE pc[t] = "change"
    BY <1>1, <2>1, NotOwed DEF WalkAt, Critical
  <2>2. CASE pc[t] = "select"
    BY <2>2, Unbound, SteadyFacts DEF SpecialInvariant
  <2>3. QED
    BY <2>1, <2>2
<1>4. queue' = <<>> /\ \A p \in Pixmaps : held'[p] = "none"
  BY <1>2, <1>3 DEF NothingHeld
<1>5. OwedInvariant'
  BY <1>2, <1>3, <1>4 DEF OwedInvariant
<1>6. ASSUME NEW u \in Threads
      PROVE  WalkAt(u)'
  <2>1. u # t => pc[u] \notin Critical
    BY SteadyFacts, OneCritical DEF Critical
  <2>2. pc'[u] \notin WalkPCs
    BY <1>2, <2>1 DEF WalkPCs, Critical, ForcePCs
  <2>3. QED
    BY <2>2, WalkElsewhere
<1>7. ASSUME NEW p \in Pixmaps
      PROVE  IdleKept(p)' /\ FlipKnown(p)'
  <2>1. IdleKept(p)'
    BY <1>2, <1>3, <1>4, SteadyFacts DEF IdleKept, NoIdleComing, IdleEvent
  <2>2. FlipKnown(p)'
    BY <1>4 DEF FlipKnown
  <2>3. QED
    BY <2>1, <2>2
<1>8. QED
  BY <1>5, <1>6, <1>7 DEF ForceInvariant, WalkInvariant

\* A presentation is sent: nobody is in PRESENTForceReleases.
LEMMA PresentForce ==
  ASSUME Steady, NEW t \in Threads, PRESENTPixmap(t)
  PROVE  ForceInvariant'
<1> DEFINE p == buf[t]
<1>1. /\ pc \in [Threads -> PCs] /\ pc[t] = "pixmap" /\ p \in Pixmaps
      /\ held \in [Pixmaps -> {"none", "pending", "screen"}]
      /\ heldOn \in [Pixmaps -> Windows \cup {NoWindow}]
      /\ released \in [Pixmaps -> BOOLEAN]
  BY SteadyFacts, Presented DEF PRESENTPixmap, TypeOK, ThreadTypeOK, ServerTypeOK, EventTypeOK
<1>2. \A u \in Threads : pc[u] \notin Critical
  BY SteadyFacts, ThreadAssumption DEF PRESENTPixmap, LockProtocol
<1>3. notifyOwed = {} /\ forcedOwed = {} /\ ~Forcing /\ ~Asked
  BY <1>2, SteadyFacts DEF OwedInvariant, Forcing, Asked, Critical, ForcePCs
<1>4. /\ UNCHANGED <<special, queue, notifyOwed, forcedOwed, listed, lastFlip, hand>>
      /\ pc'[t] = "idle" /\ \A u \in Threads : u # t => pc'[u] = pc[u]
  BY <1>1 DEF PRESENTPixmap, Goto, deviceVars
<1>5. dest[t] = special
  <2>1. \A u \in Threads : u # t => pc[u] # "select"
    BY <1>2 DEF Critical
  <2>2. special = window
    BY <1>1, <2>1, SteadyFacts DEF SpecialInvariant
  <2>3. QED
    BY <1>1, <2>2, SteadyFacts DEF OrderInvariant
<1>6. \/ UNCHANGED <<held, heldOn, released>>
      \/ /\ held' = [held EXCEPT ![p] = "pending"]
         /\ heldOn' = [heldOn EXCEPT ![p] = special]
         /\ released' = [released EXCEPT ![p] = FALSE]
  BY <1>5 DEF PRESENTPixmap
<1> HIDE DEF p
<1>7. /\ \A q \in Pixmaps : held'[q] # "none" => heldOn'[q] = special
      /\ \A q \in Pixmaps : held'[q] = "screen" => held[q] = "screen"
      /\ \A q \in Pixmaps : held'[q] # "none" \/ (held'[q] = held[q] /\ released'[q] = released[q])
  BY <1>1, <1>6, SteadyFacts DEF OwedInvariant
<1>8. OwedInvariant'
  <2>1. \A i \in 1..Len(queue') : queue'[i] # NotifyEvent(1)
    BY <1>3, <1>4, SteadyFacts DEF SerialInvariant
  <2>2. \A q, r \in Pixmaps : held'[q] = "screen" /\ held'[r] = "screen" => q = r
    BY <1>7, SteadyFacts DEF OwedInvariant
  <2>3. QED
    BY <1>3, <1>4, <1>7, <2>1, <2>2 DEF OwedInvariant
<1>9. ASSUME NEW u \in Threads
      PROVE  WalkAt(u)'
  BY <1>2, <1>4, WalkElsewhere DEF WalkPCs, Critical, ForcePCs
<1>10. ASSUME NEW q \in Pixmaps
       PROVE  IdleKept(q)' /\ FlipKnown(q)'
  <2>1. IdleKept(q)'
    BY <1>4, <1>7, SteadyFacts DEF IdleKept, NoIdleComing, IdleEvent
  <2>2. FlipKnown(q)'
    BY <1>3, <1>4, <1>7, SteadyFacts DEF FlipKnown, Copies, CompleteEvent
  <2>3. QED
    BY <2>1, <2>2
<1>11. QED
  BY <1>8, <1>9, <1>10 DEF ForceInvariant, WalkInvariant

LEMMA DestroyForce ==
  ASSUME Steady, NEW t \in Threads, PRESENTDestroy(t)
  PROVE  ForceInvariant'
<1>1. /\ pc \in [Threads -> PCs] /\ pc[t] = "free" /\ pc' = [pc EXCEPT ![t] = "idle"]
      /\ queue' = <<>> /\ listed' = {} /\ notifyOwed' = {} /\ forcedOwed' = {}
      /\ \A p \in Pixmaps : held'[p] = "none"
  BY SteadyFacts DEF PRESENTDestroy, Goto, TypeOK, ThreadTypeOK
<1>2. \A u \in Threads : u # t => pc[u] \notin Critical
  BY <1>1, SteadyFacts, OneCritical DEF Critical
<1>3. \A u \in Threads : WalkAt(u)'
  BY <1>1, <1>2, WalkElsewhere DEF WalkPCs, Critical, ForcePCs
<1>4. OwedInvariant'
  BY <1>1 DEF OwedInvariant
<1>5. \A p \in Pixmaps : IdleKept(p)' /\ FlipKnown(p)'
  BY <1>1 DEF IdleKept, FlipKnown
<1>6. QED
  BY <1>3, <1>4, <1>5 DEF ForceInvariant, WalkInvariant

LEMMA ForceContinue ==
  ASSUME Steady, NEW t \in Threads, NobodyInner(t), Continue(t)
  PROVE  ForceInvariant'
<1> USE DEF serverVars, requestVars, deviceVars, lockVars, argVars, eventVars, Goto, Acquire,
        Release
<1>1. pc \in [Threads -> PCs]
  BY SteadyFacts DEF TypeOK, ThreadTypeOK
<1>2. CASE \/ PRESENTPixmapPrepare(t) \/ PrepareEnd(t) \/ WaitLock(t) \/ WaitFlushEnd(t)
           \/ WaitReturn(t) \/ WaitBehind(t) \/ WaitWake(t) \/ PRESENTwait_events(t)
           \/ PRESENTIsPixmapReleased(t)
  <2>1. /\ UNCHANGED <<special, held, heldOn, queue, hand, notifyOwed, forcedOwed, listed,
                       released, lastFlip>>
        /\ pc[t] \in {"prepare", "pflush", "wait", "wflush", "check", "behind", "sleep", "rflush"}
        /\ \E l \in {"force", "pflush", "pixmap", "idle", "check", "wflush", "behind", "sleep", "xcb"} :
             pc' = [pc EXCEPT ![t] = l]
    BY <1>2 DEF PRESENTPixmapPrepare, PrepareEnd, WaitLock, WaitFlushEnd, WaitReturn, WaitBehind,
       WaitWake, PRESENTwait_events, PRESENTIsPixmapReleased
  <2>2. Beside(t) /\ Handless /\ \A p \in Pixmaps : Kept(p)
    BY <1>1, <2>1 DEF Beside, Handless, Kept, Shrinks
  <2>3. OwedInvariant'
    BY <2>1, <2>2, OwedBeside DEF NotifyPCs
  <2>4. WalkAt(t)'
    BY <1>1, <2>1, WalkElsewhere DEF WalkPCs
  <2>5. ~Forcing
    BY <2>1, NotForcing DEF Inner, ForcePCs
  <2>6. QED
    BY <2>2, <2>3, <2>4, <2>5, QuietForce
<1>3. CASE PRESENTPrivChangeWindow(t) \/ ChangeWindowSelect(t)
  BY <1>3, BindForce DEF PRESENTPrivChangeWindow, ChangeWindowSelect
<1>4. QED
  BY <1>2, <1>3, FlushForce, ForceForce, PresentForce, TakeForce, HandleForce, DestroyForce
     DEF Continue

LEMMA ForceStep ==
  ASSUME MaxQueue = 0, OrderContext, Calm => ForceInvariant, [Next]_vars, Calm'
  PROVE  ForceInvariant'
<1>1. ASSUME UNCHANGED vars
      PROVE  ForceInvariant'
  <2> USE DEF vars, serverVars, requestVars, windowVars, eventVars, deviceVars, lockVars, argVars
  <2>1. /\ UNCHANGED <<special, queue, held, heldOn, notifyOwed, forcedOwed, released, lastFlip,
                       listed, xcbWait, notifySerial, hand, todo, pc>>
        /\ Calm
    BY <1>1 DEF Calm
  <2>2. ForceInvariant
    BY <2>1
  <2>3. QED
    <3>1. OwedInvariant'
      BY <2>1, <2>2 DEF ForceInvariant, OwedInvariant, NotifyEvent
    <3>2. \A t \in Threads : WalkAt(t)'
      BY <2>1, <2>2 DEF ForceInvariant, WalkInvariant, WalkAt, NothingHeld
    <3>3. \A p \in Pixmaps : IdleKept(p)'
      BY <2>1, <2>2 DEF ForceInvariant, IdleKept, NoIdleComing, IdleEvent
    <3>4. Forcing => Forcing'
      BY <2>1 DEF Forcing
    <3>5. \A p \in Pixmaps : FlipKnown(p)'
      BY <2>1, <2>2, <3>4 DEF ForceInvariant, FlipKnown, Copies, CompleteEvent
    <3>6. QED
      BY <3>1, <3>2, <3>3, <3>5 DEF ForceInvariant, WalkInvariant
<1>2. ASSUME Server
      PROVE  ForceInvariant'
  <2>1. Calm
    <3>1. Sent
      BY <1>2, ServerSends DEF OrderContext, CountContext
    <3>2. QED
      BY <3>1 DEF Sent, Sends
  <2>2. QED
    BY <1>2, <2>1, ServerForce DEF Steady
<1>3. ASSUME NEW t \in Threads, Call(t) \/ Continue(t), ~PRESENTInit(t)
      PROVE  ForceInvariant'
  <2>1. Steady
    BY <1>3, CalmKept DEF Steady
  <2>2. CASE NobodyInner(t)
    BY <1>3, <2>1, <2>2, ForceCall, ForceContinue
  <2>3. CASE ~NobodyInner(t)
    <3>1. Waits(t)
      BY <1>3, <2>3, Alone DEF NobodyInner, OrderContext, CountContext
    <3>2. QED
      BY <2>1, <3>1, ForceWaits
  <2>4. QED
    BY <2>2, <2>3
<1>4. QED
  BY <1>1, <1>2, <1>3, ForceCreated DEF Next

LEMMA ForceInit == Init => ForceInvariant
<1> SUFFICES ASSUME Init PROVE ForceInvariant
  OBVIOUS
<1>1. /\ queue = <<>> /\ notifyOwed = {} /\ forcedOwed = {} /\ listed = {}
      /\ \A p \in Pixmaps : held[p] = "none"
      /\ \A t \in Threads : pc[t] = "idle"
  BY DEF Init, ServerInit
<1>2. OwedInvariant
  BY <1>1 DEF OwedInvariant
<1>3. WalkInvariant
  BY <1>1 DEF WalkInvariant, WalkAt
<1>4. QED
  BY <1>1, <1>2, <1>3 DEF ForceInvariant, IdleKept, FlipKnown

---------------------------------------------------------------------------
(* The theorems.                                                           *)

LEMMA ForceAlways ==
  ASSUME MaxQueue = 0
  PROVE  Spec => [](OrderContext /\ (Calm => ForceInvariant))
<1> DEFINE Known == Calm => ForceInvariant
<1>1. Init => Known
  BY ForceInit
<1>2. OrderContext /\ Known /\ [Next]_vars => Known'
  <2>1. ASSUME OrderContext, Known, [Next]_vars, Calm'
        PROVE  ForceInvariant'
    BY <2>1, ForceStep
  <2>2. QED
    BY <2>1
<1>3. Spec => []OrderContext
  BY OrderAlways
<1> HIDE DEF Known
<1>4. Spec => [](OrderContext /\ Known)
  BY <1>1, <1>2, <1>3, PTL DEF Spec
<1>5. QED
  BY <1>4 DEF Known

\* A pixmap is out once: at the server, or by the one idle event that comes.
LEMMA OneOut ==
  ASSUME Steady, NEW p \in listed, ~released[p]
  PROVE  (IF held[p] = "none" THEN 0 ELSE 1) + Count(p, Idles) = 1
<1> DEFINE E == {IdleEvent(p)}
<1>1. /\ p \in Pixmaps /\ queue \in Seq(Events) /\ IdleKept(p) /\ BufferOK(p)
  BY SteadyFacts DEF TypeOK, DeviceTypeOK, ServerTypeOK, BufferInvariant
<1>2. Count(p, Idles) = Num(queue, E) + HandNum(hand, E)
  <2>1. {i \in 1..Len(queue) : Idles(queue[i], p)} = Hits(queue, E)
    BY DEF Hits, Idles
  <2>2. {t \in Threads : Idles(hand[t], p)} = {t \in Threads : hand[t] \in E}
    BY DEF Idles
  <2>3. QED
    BY <2>1, <2>2 DEF Count, Num, HandNum
<1>3. \A t, u \in Threads : hand[t] \in E /\ hand[u] \in E => t = u
  BY SteadyFacts, NullIsNotIdle DEF LockProtocol, CallInvariant
<1>4. CASE held[p] # "none"
  <2>1. NoIdleComing(p)
    BY <1>1, <1>4 DEF BufferOK
  <2>2. Num(queue, E) = 0 /\ HandNum(hand, E) = 0
    BY <2>1, NumFew, NoHand DEF NoIdleComing
  <2>3. QED
    BY <1>2, <1>4, <2>2
<1>5. CASE held[p] = "none"
  <2>1. ~NoIdleComing(p) /\ OneIdleComing(p)
    BY <1>1, <1>5 DEF BufferOK, IdleKept
  <2>2. CASE \E t \in Threads : hand[t] \in E
    <3>1. PICK t \in Threads : hand[t] \in E
      BY <2>2
    <3>2. \A i \in 1..Len(queue) : queue[i] \notin E
      BY <2>1, <3>1 DEF OneIdleComing
    <3>3. HandNum(hand, E) = 1
      BY <1>3, <3>1, OneHand
    <3>4. Num(queue, E) = 0
      BY <3>2, NumFew
    <3>5. QED
      BY <1>2, <1>5, <3>3, <3>4
  <2>3. CASE \A t \in Threads : hand[t] \notin E
    <3>1. PICK i \in 1..Len(queue) : queue[i] \in E
      BY <2>1, <2>3 DEF NoIdleComing
    <3>2. \A j \in 1..Len(queue) : queue[j] \in E => j = i
      BY <2>1, <3>1 DEF OneIdleComing
    <3>3. Num(queue, E) = 1
      BY <3>1, <3>2, NumFew
    <3>4. HandNum(hand, E) = 0
      BY <2>3, NoHand
    <3>5. QED
      BY <1>2, <1>5, <3>3, <3>4
  <2>4. QED
    BY <2>2, <2>3
<1>6. QED
  BY <1>4, <1>5

\* No idle event is lost: a pixmap the backend still waits for is at the
\* server, or its one idle event is in the queue or in a thread's hand.  For
\* any threads, pixmaps, windows and completion modes, while no window and no
\* connection is lost and no configure event comes (one that is read by
\* PRESENTForceReleases in the place of an answer does lose idle events).
THEOREM IdlesKept ==
  ASSUME MaxQueue = 0
  PROVE  Spec => [](Calm => NoIdleLost)
<1>1. OrderContext /\ (Calm => ForceInvariant) => (Calm => NoIdleLost)
  BY OneOut DEF Steady, NoIdleLost
<1>2. QED
  BY <1>1, ForceAlways, PTL

\* xcb_present.c:341: when PRESENTForceReleases returns every pixmap is
\* released, or a thread has its idle event in hand, under the same conditions.
THEOREM ReleasesForced ==
  ASSUME MaxQueue = 0
  PROVE  Spec => [](Calm => AllReleasedAfterForce)
<1>1. ASSUME Steady, NEW t \in Threads, pc[t] \in {"change", "free"}, NEW p \in listed, ~released[p]
      PROVE  \E u \in Threads : hand[u] = IdleEvent(p)
  <2>1. p \in Pixmaps /\ IdleKept(p) /\ WalkAt(t)
    BY <1>1, SteadyFacts DEF TypeOK, DeviceTypeOK, WalkInvariant
  <2>2. queue = <<>> /\ held[p] = "none"
    BY <1>1, <2>1 DEF WalkAt, NothingHeld
  <2>3. QED
    BY <1>1, <2>1, <2>2 DEF IdleKept, NoIdleComing
<1>2. OrderContext /\ (Calm => ForceInvariant) => (Calm => AllReleasedAfterForce)
  BY <1>1, SteadyFacts DEF Steady, AllReleasedAfterForce
<1>3. QED
  BY <1>2, ForceAlways, PTL

\* The message "Code bug" of xcb_present.c:314 is never due, under the same
\* conditions.
THEOREM AllExplained ==
  ASSUME MaxQueue = 0
  PROVE  Spec => [](Calm => NoUnexplained)
<1>1. OrderContext /\ (Calm => ForceInvariant) => (Calm => NoUnexplained)
  <2> SUFFICES ASSUME Steady, NEW t \in Threads, pc[t] = "walk", NEW p \in todo[t]
               PROVE  ~Unexplained(p)
    BY DEF Steady, NoUnexplained
  <2>1. p \in Pixmaps
    BY SteadyFacts DEF TypeOK, ThreadTypeOK
  <2>2. QED
    BY <2>1, Explained
<1>2. QED
  BY <1>1, ForceAlways, PTL

\* Without a window that dies or a connection that breaks nothing is ever
\* lost, whatever the threads do.
LEMMA CalmAlways ==
  ASSUME Mortal = {}, CanDisconnect = FALSE
  PROVE  Spec => []Calm
<1>1. Init => Calm
  BY DEF Init, ServerInit, Calm
<1>2. Calm /\ [Next]_vars => Calm'
  <2> SUFFICES ASSUME Calm, [Next]_vars PROVE Calm'
    OBVIOUS
  <2> USE DEF serverVars, windowVars
  <2>1. UNCHANGED vars => Calm'
    BY DEF vars, Calm
  <2>2. Server => Calm'
    BY DEF Server, ServerStep, Complete, CompleteCopy, CompleteFlip, CompleteSkip, Notify,
       Forced, Configure, DestroyWindow, Disconnect, Calm
  <2>3. \A t \in Threads : Call(t) => Calm'
    BY DEF Call, PRESENTInit, PRESENTPixmapInit, PRESENTTryFreePixmap, BeginPresentBuffer,
       BeginWaitBuffer, BeginWaitEvent, BeginIsReleased, BeginDestroy, Calm
  <2>4. \A t \in Threads : ForceReleases(t) => UNCHANGED <<alive, connected>>
    BY DEF ForceReleases, ForceBegin, ForceHandshake, ForceDrain, WaitEvent, ForceNotify,
       ForceWalk, ForcePixmap, ForceWait, ForceEnd
  <2>5. \A t \in Threads : Continue(t) => UNCHANGED <<alive, connected>>
    BY <2>4 DEF Continue, FlushEvent, PRESENTPixmapPrepare, PRESENTPrivChangeWindow,
       ChangeWindowSelect, PrepareEnd, PRESENTPixmap, WaitLock, WaitFlushEnd, WaitReturn,
       WaitBehind, WaitWake, PRESENTwait_events, TakeEvent, HandleTaken,
       PRESENTIsPixmapReleased, PRESENTDestroy
  <2>6. QED
    BY <2>1, <2>2, <2>3, <2>5 DEF Next, Calm
<1>3. QED
  BY <1>1, <1>2, PTL DEF Spec

\* The three together, for the constants of the run present_safety.
THEOREM ForceReleasesAll ==
  ASSUME MaxQueue = 0, Mortal = {}, CanDisconnect = FALSE
  PROVE  Spec => [](NoIdleLost /\ AllReleasedAfterForce /\ NoUnexplained)
BY IdlesKept, ReleasesForced, AllExplained, CalmAlways, PTL
=============================================================================
