--------------------------- MODULE XcbCountProofs ---------------------------
(***************************************************************************)
(* How many presentations are pending: proofs for any threads, pixmaps,    *)
(* windows and failures that present_complete_pending and                  *)
(* pixmap_present_pending never count fewer complete events than can still *)
(* arrive, and exactly as many while nothing is lost.                      *)
(***************************************************************************)
EXTENDS XcbBufferProofs, FiniteSetTheorems

---------------------------------------------------------------------------
(* Events and queues of events.                                            *)

\* Which events are complete events of a pixmap, and which answer a notify.
LEMMA EventKinds ==
  ASSUME NEW p \in Pixmaps
  PROVE  /\ \A q, m : CompleteEvent(q, m) \in CompletesOf(p) => q = p
         /\ \A m \in Modes \cup {"copy"} : CompleteEvent(p, m) \in CompletesOf(p)
         /\ \A m : CompleteEvent(NoPixmap, m) \notin CompletesOf(p)
         /\ \A q : IdleEvent(q) \notin CompletesOf(p)
         /\ \A s : NotifyEvent(s) \notin CompletesOf(p)
         /\ \A w, g : ConfigureEvent(w, g) \notin CompletesOf(p)
         /\ NullEvent \notin CompletesOf(p)
         /\ \A q \in Pixmaps : q # p => CompletesOf(p) \cap CompletesOf(q) = {}
<1> USE ServerAssumption DEF CompletesOf, CompleteEvent
<1>1. \A q, m : CompleteEvent(q, m).type = "complete" /\ CompleteEvent(q, m).pix = q
  OBVIOUS
<1>2. \A e \in CompletesOf(p) : e.type = "complete" /\ e.pix = p
  BY <1>1
<1>3. \A m \in Modes \cup {"copy"} : CompleteEvent(p, m) \in CompletesOf(p)
  OBVIOUS
<1>4. \A q : IdleEvent(q) \notin CompletesOf(p)
  BY <1>2 DEF IdleEvent
<1>5. \A s : NotifyEvent(s) \notin CompletesOf(p)
  BY <1>2 DEF NotifyEvent
<1>6. \A w, g : ConfigureEvent(w, g) \notin CompletesOf(p)
  BY <1>2 DEF ConfigureEvent
<1>7. NullEvent \notin CompletesOf(p)
  BY <1>2 DEF NullEvent
<1>8. \A q \in Pixmaps : q # p => CompletesOf(p) \cap CompletesOf(q) = {}
  BY <1>2
<1> HIDE DEF CompletesOf, CompleteEvent
<1>9. QED
  BY <1>1, <1>2, <1>3, <1>4, <1>5, <1>6, <1>7, <1>8

LEMMA NotNotify ==
  /\ \A q, m : CompleteEvent(q, m) # NotifyEvent(1)
  /\ \A q : IdleEvent(q) # NotifyEvent(1)
  /\ NotifyEvent(0) # NotifyEvent(1)
  /\ \A w, g : ConfigureEvent(w, g) # NotifyEvent(1)
BY DEF CompleteEvent, IdleEvent, NotifyEvent, ConfigureEvent

\* An element of a concatenation is one of the first or of the second part.
LEMMA CatElements ==
  ASSUME NEW S, NEW q \in Seq(S), NEW r \in Seq(S)
  PROVE  /\ q \o r \in Seq(S) /\ Len(q \o r) = Len(q) + Len(r)
         /\ Len(q) \in Nat /\ Len(r) \in Nat
         /\ \A i \in 1..Len(q) : i \in 1..Len(q \o r) /\ (q \o r)[i] = q[i]
         /\ \A i \in 1..Len(r) :
              Len(q) + i \in 1..Len(q \o r) /\ (q \o r)[Len(q) + i] = r[i]
         /\ \A i \in 1..Len(q \o r) : i \notin 1..Len(q) =>
              i - Len(q) \in 1..Len(r) /\ (q \o r)[i] = r[i - Len(q)]
OBVIOUS

\* What is left of a queue when its head is read.
LEMMA TailElements ==
  ASSUME NEW S, NEW q \in Seq(S), q # <<>>
  PROVE  /\ Tail(q) \in Seq(S) /\ Len(Tail(q)) = Len(q) - 1 /\ Len(q) \in Nat \ {0}
         /\ Head(q) = q[1] /\ 1 \in 1..Len(q) /\ Head(q) \in S
         /\ \A i \in 1..Len(Tail(q)) : i + 1 \in 1..Len(q) /\ Tail(q)[i] = q[i + 1]
OBVIOUS

LEMMA UnflipsIdle ==
  ASSUME NEW w
  PROVE  \A i \in 1..Len(Unflips(w)) : \E q \in OnScreen(w) : Unflips(w)[i] = IdleEvent(q)
<1>1. CASE OnScreen(w) = {}
  BY <1>1 DEF Unflips
<1>2. CASE OnScreen(w) # {}
  <2> DEFINE q == CHOOSE r \in OnScreen(w) : TRUE
  <2>1. Unflips(w) = <<IdleEvent(q)>> /\ q \in OnScreen(w)
    BY <1>2 DEF Unflips
  <2> HIDE DEF q
  <2>2. QED
    BY <2>1
<1>3. QED
  BY <1>1, <1>2

---------------------------------------------------------------------------
(* A step of the server.                                                   *)

\* The events evs reach the queue; what they say is what the server did.
Sends(evs) ==
  /\ evs \in Seq(Events) /\ queue' = queue \o evs
  /\ special = NoWindow => evs = <<>>
  /\ \A p \in Pixmaps : held[p] = "none" => held'[p] = "none"
  /\ \A p \in Pixmaps : held'[p] = "pending" => held[p] = "pending"
  /\ \A p \in Pixmaps, i \in 1..Len(evs) :
       evs[i] \in CompletesOf(p) => held[p] = "pending" /\ held'[p] # "pending"
  /\ \A p \in Pixmaps, i, j \in 1..Len(evs) :
       evs[i] \in CompletesOf(p) /\ evs[j] \in CompletesOf(p) => i = j
  /\ \A p \in Pixmaps :
       Calm' /\ held[p] = "pending" /\ held'[p] # "pending" /\ heldOn[p] = special =>
         \E i \in 1..Len(evs) : evs[i] \in CompletesOf(p)
  /\ \A i \in 1..Len(evs) : evs[i] = NotifyEvent(1) =>
       /\ Len(evs) = 1 /\ held' = held
       /\ <<special, 1>> \in notifyOwed /\ <<special, 1>> \notin notifyOwed'
       /\ \A p \in Pixmaps : heldOn[p] = special => held[p] # "pending"
  /\ notifyOwed' \subseteq notifyOwed /\ forcedOwed' \subseteq forcedOwed
  /\ UNCHANGED <<special, heldOn>>
  /\ Calm' => Calm

Sent == \E evs \in Seq(Events) : Sends(evs)

\* What the windows and the other fields of the server do meanwhile.
Around ==
  /\ notifyOwed' \subseteq notifyOwed /\ forcedOwed' \subseteq forcedOwed
  /\ UNCHANGED <<special, heldOn>>
  /\ Calm' => Calm

\* The events evs are delivered to w.
Delivered(w, evs) ==
  /\ w \in Windows /\ evs \in Seq(Events)
  /\ special = w => queue' = queue \o evs
  /\ special # w => queue' = queue

\* No complete event and no answer with serial 1.
Other(evs) ==
  \A i \in 1..Len(evs) : /\ evs[i] # NotifyEvent(1)
                         /\ \A p \in Pixmaps : evs[i] \notin CompletesOf(p)

\* One complete event, of p; the others are idle events.
OneComplete(evs, p) ==
  \E c \in 1..Len(evs) :
    /\ evs[c] \in CompletesOf(p)
    /\ \A i \in 1..Len(evs) : i # c => \E q \in Pixmaps : evs[i] = IdleEvent(q)

\* What the server still has after the presentations of S are complete.
Leaves(S) ==
  /\ \A p \in S : held[p] = "pending" /\ held'[p] # "pending"
  /\ \A p \in Pixmaps \ S : /\ held[p] = "none" => held'[p] = "none"
                            /\ held[p] = "pending" <=> held'[p] = "pending"

LEMMA SendsOther ==
  ASSUME TypeOK, Around, NEW w, NEW evs, Delivered(w, evs), Other(evs), Leaves({})
  PROVE  Sent
<1> USE DEF Around, Delivered, Other, Leaves
<1>1. CASE special = w
  <2>1. special # NoWindow /\ queue' = queue \o evs
    BY <1>1, ServerAssumption
  <2>2. Sends(evs)
    BY <2>1 DEF Sends
  <2>3. QED
    BY <2>2 DEF Sent
<1>2. CASE special # w
  <2>1. queue' = queue \o <<>> /\ <<>> \in Seq(Events) /\ Len(<<>>) = 0
    BY <1>2 DEF TypeOK, ServerTypeOK
  <2>2. Sends(<<>>)
    BY <2>1 DEF Sends
  <2>3. QED
    BY <2>1, <2>2 DEF Sent
<1>3. QED
  BY <1>1, <1>2

LEMMA SendsComplete ==
  ASSUME TypeOK, Around, UNCHANGED notifyOwed, NEW p \in Pixmaps, NEW w, heldOn[p] = w,
         NEW evs, Delivered(w, evs), OneComplete(evs, p), Leaves({p})
  PROVE  Sent
<1> USE DEF Around, Delivered, Leaves
<1>0. PICK c \in 1..Len(evs) :
        /\ evs[c] \in CompletesOf(p)
        /\ \A i \in 1..Len(evs) : i # c => \E q \in Pixmaps : evs[i] = IdleEvent(q)
  BY DEF OneComplete
<1>1. \A i \in 1..Len(evs) : evs[i] # NotifyEvent(1)
  BY <1>0, NotNotify DEF CompletesOf
<1>2. \A i \in 1..Len(evs), q \in Pixmaps : evs[i] \in CompletesOf(q) => i = c /\ q = p
  BY <1>0, EventKinds
<1>3. CASE special = w
  <2>1. special # NoWindow /\ queue' = queue \o evs
    BY <1>3, ServerAssumption
  <2>2. \A q \in Pixmaps : held[q] = "pending" /\ held'[q] # "pending" => q = p
    OBVIOUS
  <2>3. Sends(evs)
    BY <1>0, <1>1, <1>2, <2>1, <2>2 DEF Sends
  <2>4. QED
    BY <2>3 DEF Sent
<1>4. CASE special # w
  <2>1. queue' = queue \o <<>> /\ <<>> \in Seq(Events) /\ Len(<<>>) = 0
    BY <1>4 DEF TypeOK, ServerTypeOK
  <2>2. \A q \in Pixmaps : held[q] = "pending" /\ held'[q] # "pending" => heldOn[q] # special
    BY <1>4
  <2>3. Sends(<<>>)
    BY <2>1, <2>2 DEF Sends
  <2>4. QED
    BY <2>1, <2>3 DEF Sent
<1>5. QED
  BY <1>3, <1>4

\* Idle events of what leaves the screen may come first.
Unflipped(w, a) == Unflips(w) \o a

LEMMA AfterUnflip ==
  ASSUME NEW w, NEW a \in Seq(Events)
  PROVE  /\ Unflipped(w, a) \in Seq(Events)
         /\ \A p \in Pixmaps : OneComplete(a, p) => OneComplete(Unflipped(w, a), p)
         /\ Other(a) => Other(Unflipped(w, a))
<1> DEFINE u == Unflips(w)
           evs == u \o a
<1>1. u \in Seq(Events)
  BY UnflipsType
<1>2. \A i \in 1..Len(u) : \E q \in Pixmaps : u[i] = IdleEvent(q)
  BY UnflipsIdle DEF OnScreen
<1> HIDE DEF u
<1>3. /\ evs \in Seq(Events) /\ Len(u) \in Nat /\ Len(a) \in Nat
      /\ \A i \in 1..Len(u) : evs[i] = u[i]
      /\ \A i \in 1..Len(a) : Len(u) + i \in 1..Len(evs) /\ evs[Len(u) + i] = a[i]
      /\ \A i \in 1..Len(evs) : i \notin 1..Len(u) =>
           i - Len(u) \in 1..Len(a) /\ evs[i] = a[i - Len(u)]
  BY <1>1, CatElements
<1> HIDE DEF evs
<1>4. ASSUME NEW p \in Pixmaps, OneComplete(a, p)
      PROVE  OneComplete(evs, p)
  <2>1. PICK c \in 1..Len(a) :
          /\ a[c] \in CompletesOf(p)
          /\ \A i \in 1..Len(a) : i # c => \E q \in Pixmaps : a[i] = IdleEvent(q)
    BY <1>4 DEF OneComplete
  <2>2. Len(u) + c \in 1..Len(evs) /\ evs[Len(u) + c] \in CompletesOf(p)
    BY <1>3, <2>1
  <2>3. ASSUME NEW i \in 1..Len(evs), i # Len(u) + c
        PROVE  \E q \in Pixmaps : evs[i] = IdleEvent(q)
    <3>1. CASE i \in 1..Len(u)
      <4>1. evs[i] = u[i]
        BY <1>3, <3>1
      <4>2. QED
        BY <1>2, <3>1, <4>1
    <3>2. CASE i \notin 1..Len(u)
      <4>1. i - Len(u) \in 1..Len(a) /\ evs[i] = a[i - Len(u)] /\ i - Len(u) # c
        BY <1>3, <2>3, <3>2
      <4>2. QED
        BY <2>1, <4>1
    <3>3. QED
      BY <3>1, <3>2
  <2>4. QED
    BY <2>2, <2>3 DEF OneComplete
<1>5. ASSUME Other(a)
      PROVE  Other(evs)
  <2>1. ASSUME NEW i \in 1..Len(evs)
        PROVE  /\ evs[i] # NotifyEvent(1)
               /\ \A p \in Pixmaps : evs[i] \notin CompletesOf(p)
    <3>1. CASE i \in 1..Len(u)
      BY <1>2, <1>3, <3>1, EventKinds, NotNotify
    <3>2. CASE i \notin 1..Len(u)
      BY <1>3, <1>5, <3>2 DEF Other
    <3>3. QED
      BY <3>1, <3>2
  <2>2. QED
    BY <2>1 DEF Other
<1>6. QED
  BY <1>3, <1>4, <1>5 DEF evs, u, Unflipped

\* Every step of the server sends events that say what it did.
LEMMA ServerSends ==
  ASSUME TypeOK, SpecialInvariant, Server
  PROVE  Sent
<1> USE DEF windowVars, requestVars
<1>0. \A p \in Pixmaps : held[p] = "pending" => heldOn[p] \in Windows
  BY DEF SpecialInvariant
<1>1. ASSUME NEW p \in Pixmaps, CompleteCopy(p)
      PROVE  Sent
  <2> DEFINE w == heldOn[p]
             a == <<CompleteEvent(p, "copy"), IdleEvent(p)>>
             b == <<IdleEvent(p), CompleteEvent(p, "copy")>>
  <2>1. /\ Around /\ UNCHANGED notifyOwed /\ Leaves({p}) /\ w \in Windows
        /\ \/ queue' = IF special = w THEN queue \o Unflipped(w, a) ELSE queue
           \/ queue' = IF special = w THEN queue \o Unflipped(w, b) ELSE queue
    BY <1>0, <1>1 DEF CompleteCopy, OnScreen, Deliver, Unflipped, Around, Leaves, Calm
  <2>2. a \in Seq(Events) /\ OneComplete(a, p)
    <3>1. a \in Seq(Events) /\ Len(a) = 2 /\ a[1] \in CompletesOf(p) /\ a[2] = IdleEvent(p)
      BY SentEvents, EventKinds
    <3> HIDE DEF a
    <3>2. QED
      BY <3>1 DEF OneComplete
  <2>3. b \in Seq(Events) /\ OneComplete(b, p)
    <3>1. b \in Seq(Events) /\ Len(b) = 2 /\ b[2] \in CompletesOf(p) /\ b[1] = IdleEvent(p)
      BY SentEvents, EventKinds
    <3> HIDE DEF b
    <3>2. QED
      BY <3>1 DEF OneComplete
  <2>4. heldOn[p] = w
    OBVIOUS
  <2> HIDE DEF a, b, w
  <2>5. Delivered(w, Unflipped(w, a)) \/ Delivered(w, Unflipped(w, b))
    BY <2>1, <2>2, <2>3, AfterUnflip DEF Delivered
  <2>6. QED
    BY <2>1, <2>2, <2>3, <2>4, <2>5, AfterUnflip, SendsComplete
<1>2. ASSUME NEW p \in Pixmaps, CompleteFlip(p)
      PROVE  Sent
  <2> DEFINE w == heldOn[p]
             a == <<CompleteEvent(p, "flip")>>
  <2>1. /\ Around /\ UNCHANGED notifyOwed /\ Leaves({p}) /\ w \in Windows
        /\ queue' = IF special = w THEN queue \o Unflipped(w, a) ELSE queue
    BY <1>0, <1>2 DEF CompleteFlip, OnScreen, Deliver, Unflipped, Around, Leaves, Calm
  <2>2. a \in Seq(Events) /\ OneComplete(a, p)
    <3>1. a \in Seq(Events) /\ Len(a) = 1 /\ a[1] \in CompletesOf(p)
      BY <1>2, SentEvents, EventKinds DEF CompleteFlip
    <3> HIDE DEF a
    <3>2. QED
      BY <3>1 DEF OneComplete
  <2>3. heldOn[p] = w
    OBVIOUS
  <2> HIDE DEF a, w
  <2>4. Delivered(w, Unflipped(w, a))
    BY <2>1, <2>2, AfterUnflip DEF Delivered
  <2>5. QED
    BY <2>1, <2>2, <2>3, <2>4, AfterUnflip, SendsComplete
<1>3. ASSUME NEW p \in Pixmaps, CompleteSkip(p)
      PROVE  Sent
  <2> DEFINE w == heldOn[p]
             a == <<CompleteEvent(p, "skip"), IdleEvent(p)>>
  <2>1. /\ Around /\ UNCHANGED notifyOwed /\ w \in Windows
        /\ queue' = IF special = w THEN queue \o a ELSE queue
    BY <1>0, <1>3 DEF CompleteSkip, Deliver, Around, Calm
  <2>2. Leaves({p})
    BY <1>3 DEF CompleteSkip, Leaves, TypeOK, ServerTypeOK
  <2>3. a \in Seq(Events) /\ OneComplete(a, p)
    <3>1. a \in Seq(Events) /\ Len(a) = 2 /\ a[1] \in CompletesOf(p) /\ a[2] = IdleEvent(p)
      BY <1>3, SentEvents, EventKinds DEF CompleteSkip
    <3> HIDE DEF a
    <3>2. QED
      BY <3>1 DEF OneComplete
  <2>4. heldOn[p] = w
    OBVIOUS
  <2> HIDE DEF a, w
  <2>5. Delivered(w, a)
    BY <2>1, <2>3 DEF Delivered
  <2>6. QED
    BY <2>1, <2>2, <2>3, <2>4, <2>5, SendsComplete
<1>4. ASSUME NEW n \in notifyOwed, Notify(n[1], n[2])
      PROVE  Sent
  <2> DEFINE w == n[1]
             a == <<NotifyEvent(n[2])>>
  <2>1. n = <<w, n[2]>> /\ w \in Windows /\ n[2] \in {0, 1}
    BY DEF TypeOK, ServerTypeOK
  <2>2. /\ Around /\ Leaves({})
        /\ queue' = IF special = w THEN queue \o a ELSE queue
        /\ notifyOwed' = notifyOwed \ {<<w, n[2]>>} /\ held' = held
    BY <1>4 DEF Notify, Deliver, Around, Leaves, Calm
  <2>3. a \in Seq(Events) /\ Len(a) = 1 /\ a[1] = NotifyEvent(n[2])
    BY <2>1, SentEvents
  <2>4. \A p \in Pixmaps : a[1] \notin CompletesOf(p)
    BY <2>3, EventKinds
  <2>5. n[2] = 1 => \A p \in Pixmaps : heldOn[p] = w => held[p] # "pending"
    BY <1>4 DEF Notify
  <2>6. n[2] = 0 => Other(a)
    BY <2>3, <2>4, NotNotify DEF Other
  <2>7. Delivered(w, a)
    BY <2>1, <2>2, <2>3 DEF Delivered
  <2> HIDE DEF a, w
  <2>8. CASE n[2] = 1 /\ special = w
    <3>1. <<special, 1>> \in notifyOwed /\ <<special, 1>> \notin notifyOwed'
      BY <2>1, <2>2, <2>8
    <3>2. special # NoWindow
      BY <2>1, <2>8, ServerAssumption
    <3>3. Sends(a)
      BY <2>2, <2>3, <2>4, <2>5, <2>8, <3>1, <3>2 DEF Sends, Around
    <3>4. QED
      BY <2>3, <3>3 DEF Sent
  <2>9. CASE special # w
    <3>1. Delivered(w, <<>>) /\ Other(<<>>)
      BY <2>1, <2>2, <2>9 DEF Delivered, Other
    <3>2. QED
      BY <2>2, <3>1, SendsOther
  <2>10. CASE n[2] = 0
    BY <2>2, <2>6, <2>7, <2>10, SendsOther
  <2>11. QED
    BY <2>1, <2>8, <2>9, <2>10
<1>5. ASSUME NEW f \in forcedOwed, Forced(f[1], f[2])
      PROVE  Sent
  <2> DEFINE w == f[2]
             a == <<CompleteEvent(NoPixmap, "copy"), IdleEvent(NoPixmap)>>
  <2>1. w \in Windows
    BY DEF TypeOK, ServerTypeOK
  <2>2. /\ Around /\ Leaves({})
        /\ queue' = IF special = w THEN queue \o Unflipped(w, a) ELSE queue
    BY <1>5 DEF Forced, OnScreen, Unflipped, Deliver, Around, Leaves, Calm
  <2>3. a \in Seq(Events) /\ Other(a)
    <3>1. /\ a \in Seq(Events) /\ Len(a) = 2
          /\ a[1] = CompleteEvent(NoPixmap, "copy") /\ a[2] = IdleEvent(NoPixmap)
      BY SentEvents
    <3> HIDE DEF a
    <3>2. QED
      BY <3>1, EventKinds, NotNotify DEF Other
  <2> HIDE DEF a, w
  <2>4. Delivered(w, Unflipped(w, a)) /\ Other(Unflipped(w, a))
    BY <2>1, <2>2, <2>3, AfterUnflip DEF Delivered
  <2>5. QED
    BY <2>2, <2>4, SendsOther
<1>6. ASSUME NEW w \in Windows, NEW g \in Geoms, Configure(w, g)
      PROVE  Sent
  <2> DEFINE a == <<ConfigureEvent(w, g)>>
  <2>1. /\ Around /\ Leaves({})
        /\ queue' = IF special = w THEN queue \o a ELSE queue
    BY <1>6 DEF Configure, Deliver, Around, Leaves, Calm
  <2>2. a \in Seq(Events) /\ Len(a) = 1 /\ a[1] = ConfigureEvent(w, g)
    BY SentEvents
  <2> HIDE DEF a
  <2>3. Other(a) /\ Delivered(w, a)
    BY <2>1, <2>2, EventKinds, NotNotify DEF Other, Delivered
  <2>4. QED
    BY <2>1, <2>3, SendsOther
<1>7. ASSUME NEW w \in Windows, DestroyWindow(w)
      PROVE  Sent
  <2>1. queue' = queue \o <<>> /\ <<>> \in Seq(Events) /\ Len(<<>>) = 0
    BY <1>7 DEF DestroyWindow, TypeOK, ServerTypeOK
  <2>2. /\ ~Calm' /\ UNCHANGED <<special, heldOn>>
        /\ notifyOwed' \subseteq notifyOwed /\ forcedOwed' \subseteq forcedOwed
        /\ \A p \in Pixmaps : held'[p] \in {held[p], "none"}
    BY <1>7 DEF DestroyWindow, Calm
  <2>3. Sends(<<>>)
    BY <2>1, <2>2 DEF Sends
  <2>4. QED
    BY <2>1, <2>3 DEF Sent
<1>8. CASE Disconnect
  <2>1. queue' = queue \o <<>> /\ <<>> \in Seq(Events) /\ Len(<<>>) = 0
    BY <1>8 DEF Disconnect, TypeOK, ServerTypeOK
  <2>2. ~Calm' /\ UNCHANGED <<special, heldOn, held, notifyOwed, forcedOwed>>
    BY <1>8 DEF Disconnect, Calm
  <2>3. Sends(<<>>)
    BY <2>1, <2>2 DEF Sends
  <2>4. QED
    BY <2>1, <2>3 DEF Sent
<1>9. QED
  BY <1>1, <1>2, <1>3, <1>4, <1>5, <1>6, <1>7, <1>8 DEF Server, ServerStep, Complete

---------------------------------------------------------------------------
(* The window of the queue.                                                *)

LEMMA SpecialInit == Init => SpecialInvariant
BY DEF Init, ServerInit, SpecialInvariant, PresentPCs, ForcePCs

\* Whoever is in a call, there is a device; and a call other than the
\* creation of the device begins only with a device.
LEMMA DeviceThere ==
  ASSUME TypeOK, CallInvariant, SpecialInvariant, NEW t \in Threads,
         (Call(t) /\ ~PRESENTInit(t)) \/ Continue(t)
  PROVE  device # "absent"
<1>1. CASE Call(t) /\ ~PRESENTInit(t)
  <2>1. device \in {"live", "closing"} \/ handle # {}
    BY <1>1 DEF Call, PRESENTPixmapInit, PRESENTTryFreePixmap, BeginPresentBuffer,
                BeginWaitBuffer, BeginWaitEvent, BeginIsReleased, BeginDestroy
  <2>2. QED
    BY <2>1 DEF CallInvariant, SpecialInvariant
<1>2. CASE Continue(t)
  <2>1. pc[t] # "idle"
    BY <1>2 DEF Continue, FlushEvent, Flushes, AssertingFlushes, ForceReleases, ForceBegin,
         ForceHandshake, ForceDrain, ForceNotify, ForceWalk, ForcePixmap, ForceWait, ForceEnd,
         PRESENTPixmapPrepare, PRESENTPrivChangeWindow, ChangeWindowSelect, PrepareEnd,
         PRESENTPixmap, WaitLock, WaitFlushEnd, WaitReturn, WaitBehind, WaitWake,
         PRESENTwait_events, TakeEvent, HandleTaken, PRESENTIsPixmapReleased, PRESENTDestroy
  <2>2. QED
    BY <2>1 DEF SpecialInvariant
<1>3. QED
  BY <1>1, <1>2

\* Steps of a device that leave the windows and the threads alone.
LEMMA SpecialStutter ==
  ASSUME SpecialInvariant, UNCHANGED <<special, window, held, heldOn, device, pc, dest>>,
         queue' = queue \/ special # NoWindow, device # "absent"
  PROVE  SpecialInvariant'
BY DEF SpecialInvariant

\* A step of one thread that leaves the windows alone.
LEMMA SpecialKept ==
  ASSUME TypeOK, SpecialInvariant, NEW t \in Threads, NEW l \in PCs, pc' = [pc EXCEPT ![t] = l],
         UNCHANGED <<special, window, held, heldOn, device>>,
         queue' = queue \/ special # NoWindow, device # "absent",
         \A u \in Threads : u # t => dest'[u] = dest[u],
         l \in PresentPCs \cup ForcePCs => dest'[t] \in Windows \/ device = "closing",
         l \in ForcePCs \ {"force"} => window # NoWindow,
         pc[t] # "select", l # "select"
  PROVE  SpecialInvariant'
<1>1. pc'[t] = l /\ \A u \in Threads : u # t => pc'[u] = pc[u]
  BY DEF TypeOK, ThreadTypeOK
<1>2. (\A u \in Threads : pc'[u] # "select") <=> (\A u \in Threads : pc[u] # "select")
  BY <1>1
<1>3. QED
  BY <1>1, <1>2 DEF SpecialInvariant

\* An event is read: there is a queue, or it stays as it is.
LEMMA ReceiveQueue ==
  ASSUME SpecialInvariant, Receive
  PROVE  queue' = queue \/ special # NoWindow
BY DEF SpecialInvariant, Receive

LEMMA SpecialCall ==
  ASSUME TypeOK, CallInvariant, SpecialInvariant, NEW t \in Threads, Call(t)
  PROVE  SpecialInvariant'
<1> USE DEF serverVars, requestVars, deviceVars, lockVars, argVars, eventVars, Goto, Acquire,
        PCs, WaitPCs, ForcePCs, PresentPCs
<1>0. ~PRESENTInit(t) => device # "absent"
  BY DeviceThere
<1>1. CASE PRESENTInit(t)
  BY <1>1 DEF PRESENTInit, SpecialInvariant
<1>2. ASSUME NEW p \in Pixmaps, PRESENTPixmapInit(t, p)
      PROVE  SpecialInvariant'
  <2>1. device # "absent"
    BY <1>2 DEF PRESENTPixmapInit
  <2>2. QED
    BY <1>2, <2>1, SpecialStutter DEF PRESENTPixmapInit
<1>3. ASSUME NEW p \in Pixmaps, PRESENTTryFreePixmap(t, p)
      PROVE  SpecialInvariant'
  <2>1. device # "absent"
    BY <1>3 DEF PRESENTTryFreePixmap, CallInvariant, SpecialInvariant
  <2>2. QED
    BY <1>3, <2>1, SpecialStutter DEF PRESENTTryFreePixmap
<1>4. ASSUME NEW p \in Pixmaps, NEW w \in Windows, BeginPresentBuffer(t, p, w)
      PROVE  SpecialInvariant'
  <2>1. device # "absent"
    BY <1>4 DEF BeginPresentBuffer, CallInvariant, SpecialInvariant
  <2>2. dest'[t] = w /\ \A u \in Threads : u # t => dest'[u] = dest[u]
    BY <1>4 DEF BeginPresentBuffer, TypeOK, ThreadTypeOK
  <2>3. QED
    BY <1>4, <2>1, <2>2, SpecialKept DEF BeginPresentBuffer
<1>5. ASSUME NEW p \in Pixmaps, BeginWaitBuffer(t, p)
      PROVE  SpecialInvariant'
  <2>1. device # "absent"
    BY <1>5 DEF BeginWaitBuffer, CallInvariant, SpecialInvariant
  <2>2. QED
    BY <1>5, <2>1, SpecialKept DEF BeginWaitBuffer
<1>6. CASE BeginWaitEvent(t)
  <2>1. device # "absent"
    BY <1>6 DEF BeginWaitEvent, CallInvariant, SpecialInvariant
  <2>2. QED
    BY <1>6, <2>1, SpecialKept DEF BeginWaitEvent
<1>7. CASE BeginIsReleased(t)
  <2>1. device # "absent"
    BY <1>7 DEF BeginIsReleased, CallInvariant, SpecialInvariant
  <2>2. QED
    BY <1>7, <2>1, SpecialKept DEF BeginIsReleased
<1>8. CASE BeginDestroy(t)
  <2>1. /\ device' = "closing" /\ UNCHANGED <<special, window, held, heldOn, queue>>
        /\ \A u \in Threads : pc[u] = "idle" /\ pc'[u] \in {"idle", "force"}
    BY <1>8 DEF BeginDestroy, TypeOK, ThreadTypeOK
  <2>2. QED
    BY <2>1 DEF SpecialInvariant
<1>9. QED
  BY <1>1, <1>2, <1>3, <1>4, <1>5, <1>6, <1>7, <1>8 DEF Call

LEMMA SpecialForce ==
  ASSUME TypeOK, CallInvariant, SpecialInvariant, NEW t \in Threads, ForceReleases(t)
  PROVE  SpecialInvariant'
<1> USE DEF serverVars, requestVars, deviceVars, lockVars, argVars, eventVars, Goto, PCs,
        WaitPCs, ForcePCs, PresentPCs
<1>0. device # "absent"
  BY DeviceThere DEF Continue
<1>1. /\ pc[t] \in ForcePCs
      /\ pc[t] \in ForcePCs \ {"force"} => window # NoWindow
      /\ dest[t] \in Windows \/ device = "closing"
  BY DEF ForceReleases, ForceBegin, ForceHandshake, ForceDrain, ForceNotify, ForceWalk,
         ForcePixmap, ForceWait, ForceEnd, SpecialInvariant
<1>2. /\ UNCHANGED <<special, window, held, heldOn, device, dest>>
      /\ queue' = queue \/ special # NoWindow
  BY ReceiveQueue DEF ForceReleases, ForceBegin, ForceHandshake, ForceDrain, WaitEvent,
     ForceNotify, ForceWalk, ForcePixmap, ForceWait, ForceEnd
<1>3. \/ pc' = pc
      \/ \E l \in ForcePCs \ {"force"} : pc' = [pc EXCEPT ![t] = l] /\ window # NoWindow
      \/ \E l \in {"free", "change"} : pc' = [pc EXCEPT ![t] = l] /\ (l = "change" => device # "closing")
  <2>1. CASE ForceEnd(t)
    BY <2>1 DEF ForceEnd
  <2>2. CASE ~ForceEnd(t)
    BY <1>1, <2>2 DEF ForceReleases, ForceBegin, ForceHandshake, ForceDrain, ForceNotify,
         ForceWalk, ForcePixmap, ForceWait
  <2>3. QED
    BY <2>1, <2>2
<1>4. CASE pc' = pc
  BY <1>0, <1>2, <1>4, SpecialStutter
<1>5. ASSUME NEW l \in PCs, pc' = [pc EXCEPT ![t] = l], l # "select",
             l \in ForcePCs \ {"force"} => window # NoWindow
      PROVE  SpecialInvariant'
  BY <1>0, <1>1, <1>2, <1>5, SpecialKept
<1>6. QED
  BY <1>3, <1>4, <1>5

LEMMA SpecialContinue ==
  ASSUME TypeOK, LockProtocol, CallInvariant, WindowInvariant, SpecialInvariant,
         NEW t \in Threads, Continue(t)
  PROVE  SpecialInvariant'
<1> USE DEF serverVars, requestVars, deviceVars, lockVars, argVars, eventVars, Goto, Acquire,
        Release, PCs, WaitPCs, ForcePCs, PresentPCs
<1>0. device # "absent"
  BY DeviceThere
<1>1. CASE FlushEvent(t)
  BY <1>0, <1>1, SpecialStutter DEF FlushEvent, MayFlush
<1>2. CASE ForceReleases(t)
  BY <1>2, SpecialForce
<1>3. CASE PRESENTPixmapPrepare(t)
  <2>1. PICK l \in {"force", "pflush"} : pc' = [pc EXCEPT ![t] = l]
    BY <1>3 DEF PRESENTPixmapPrepare
  <2>2. dest[t] \in Windows \/ device = "closing"
    BY <1>3 DEF PRESENTPixmapPrepare, SpecialInvariant
  <2>3. QED
    BY <1>0, <1>3, <2>1, <2>2, SpecialKept DEF PRESENTPixmapPrepare
<1>4. CASE PRESENTPrivChangeWindow(t)
  <2>1. /\ pc[t] = "change" /\ special' = NoWindow /\ queue' = <<>>
        /\ UNCHANGED <<held, heldOn, device, dest>>
        /\ \/ window' = dest[t] /\ pc' = [pc EXCEPT ![t] = "select"]
           \/ window' = NoWindow /\ pc' = [pc EXCEPT ![t] = "pflush"]
    BY <1>4 DEF PRESENTPrivChangeWindow
  <2>2. /\ pc'[t] \in {"select", "pflush"} /\ (pc'[t] = "pflush" => window' = NoWindow)
        /\ \A u \in Threads : u # t => pc'[u] = pc[u]
    BY <2>1 DEF TypeOK, ThreadTypeOK
  <2>3. \A u \in Threads : u # t => pc[u] \notin {"select"} \cup ForcePCs
    BY <2>1 DEF LockProtocol, Critical
  <2>4. device # "closing" /\ dest[t] \in Windows
    BY <2>1 DEF CallInvariant, SpecialInvariant
  <2>5. QED
    BY <1>0, <2>1, <2>2, <2>3, <2>4 DEF SpecialInvariant
<1>5. CASE ChangeWindowSelect(t)
  <2>1. /\ pc[t] = "select" /\ UNCHANGED <<queue, held, heldOn, device, dest>>
        /\ special' = window' \/ (special' = special /\ window' = NoWindow)
        /\ pc' = [pc EXCEPT ![t] = "pflush"]
    BY <1>5 DEF ChangeWindowSelect
  <2>2. pc'[t] = "pflush" /\ \A u \in Threads : u # t => pc'[u] = pc[u]
    BY <2>1 DEF TypeOK, ThreadTypeOK
  <2>3. \A u \in Threads : u # t => pc[u] \notin {"select"} \cup ForcePCs
    BY <2>1 DEF LockProtocol, Critical
  <2>4. special = NoWindow /\ queue = <<>>
    BY <2>1 DEF SpecialInvariant
  <2>5. QED
    BY <1>0, <2>1, <2>2, <2>3, <2>4 DEF SpecialInvariant
<1>6. CASE PrepareEnd(t)
  <2>1. PICK l \in {"pixmap", "idle"} : pc' = [pc EXCEPT ![t] = l]
    BY <1>6 DEF PrepareEnd
  <2>2. /\ pc[t] = "pflush" /\ UNCHANGED <<special, window, held, heldOn, device, queue>>
        /\ dest' = dest \/ (dest' = [dest EXCEPT ![t] = NoWindow] /\ pc' = [pc EXCEPT ![t] = "idle"])
    BY <1>6 DEF PrepareEnd
  <2>3. dest[t] \in Windows
    BY <2>2 DEF SpecialInvariant, CallInvariant
  <2>4. /\ \A u \in Threads : u # t => dest'[u] = dest[u]
        /\ l = "pixmap" => dest'[t] \in Windows
    BY <2>1, <2>2, <2>3 DEF TypeOK, ThreadTypeOK
  <2>5. QED
    BY <1>0, <2>1, <2>2, <2>4, SpecialKept
<1>7. CASE PRESENTPixmap(t)
  <2>1. /\ pc[t] = "pixmap" /\ pc' = [pc EXCEPT ![t] = "idle"]
        /\ UNCHANGED <<special, window, device, queue>>
        /\ dest' = [dest EXCEPT ![t] = NoWindow]
        /\ \/ UNCHANGED <<held, heldOn>>
           \/ /\ dest[t] \in alive /\ held' = [held EXCEPT ![buf[t]] = "pending"]
              /\ heldOn' = [heldOn EXCEPT ![buf[t]] = dest[t]]
    BY <1>7 DEF PRESENTPixmap
  <2>2. /\ pc'[t] = "idle"
        /\ \A u \in Threads : u # t => pc'[u] = pc[u] /\ dest'[u] = dest[u]
    BY <2>1 DEF TypeOK, ThreadTypeOK
  <2>3. \A p \in Pixmaps : held'[p] # "none" => heldOn'[p] \in Windows
    BY <2>1 DEF TypeOK, ServerTypeOK, SpecialInvariant
  <2>4. QED
    BY <1>0, <2>1, <2>2, <2>3 DEF SpecialInvariant
<1>8. CASE WaitLock(t)
  <2>1. PICK l \in {"check", "wflush"} : pc' = [pc EXCEPT ![t] = l]
    BY <1>8 DEF WaitLock
  <2>2. QED
    BY <1>0, <1>8, <2>1, SpecialKept DEF WaitLock
<1>9. CASE WaitFlushEnd(t)
  BY <1>0, <1>9, SpecialKept DEF WaitFlushEnd
<1>10. CASE WaitReturn(t)
  BY <1>0, <1>10, SpecialKept DEF WaitReturn
<1>11. CASE WaitBehind(t)
  <2>1. PICK l \in {"behind", "sleep"} : pc' = [pc EXCEPT ![t] = l]
    BY <1>11 DEF WaitBehind
  <2>2. QED
    BY <1>0, <1>11, <2>1, SpecialKept DEF WaitBehind
<1>12. CASE WaitWake(t)
  BY <1>0, <1>12, SpecialKept DEF WaitWake
<1>13. CASE PRESENTwait_events(t)
  BY <1>0, <1>13, SpecialKept DEF PRESENTwait_events
<1>14. CASE TakeEvent(t)
  BY <1>0, <1>14, SpecialKept, ReceiveQueue DEF TakeEvent
<1>15. CASE HandleTaken(t)
  <2>1. PICK l \in {"idle", "check"} : pc' = [pc EXCEPT ![t] = l]
    BY <1>15 DEF HandleTaken
  <2>2. QED
    BY <1>0, <1>15, <2>1, SpecialKept DEF HandleTaken
<1>16. CASE PRESENTIsPixmapReleased(t)
  BY <1>0, <1>16, SpecialKept DEF PRESENTIsPixmapReleased
<1>17. CASE PRESENTDestroy(t)
  <2>1. /\ pc[t] = "free" /\ pc' = [pc EXCEPT ![t] = "idle"]
        /\ special' = NoWindow /\ window' = NoWindow /\ queue' = <<>> /\ listed' = {}
        /\ held' = [p \in Pixmaps |-> "none"] /\ notifyOwed' = {} /\ forcedOwed' = {}
    BY <1>17 DEF PRESENTDestroy
  <2>2. \A u \in Threads : pc[u] \in {"idle", "free"} \cup ForcePCs
    BY <2>1 DEF CallInvariant
  <2>3. \A u \in Threads : u # t => pc[u] = "idle"
    BY <2>1, <2>2 DEF LockProtocol, Critical
  <2>4. \A u \in Threads : pc'[u] = "idle"
    BY <2>1, <2>3 DEF TypeOK, ThreadTypeOK
  <2>5. QED
    BY <2>1, <2>4 DEF SpecialInvariant
<1>18. QED
  BY <1>1, <1>2, <1>3, <1>4, <1>5, <1>6, <1>7, <1>8, <1>9, <1>10, <1>11, <1>12, <1>13,
     <1>14, <1>15, <1>16, <1>17 DEF Continue

LEMMA SpecialStep ==
  TypeOK /\ LockProtocol /\ CallInvariant /\ WindowInvariant /\ SpecialInvariant /\ [Next]_vars
    => SpecialInvariant'
<1>1. ASSUME SpecialInvariant, UNCHANGED vars
      PROVE  SpecialInvariant'
  BY <1>1 DEF vars, serverVars, requestVars, deviceVars, argVars, SpecialInvariant
<1>2. ASSUME TypeOK, SpecialInvariant, Server
      PROVE  SpecialInvariant'
  <2>1. UNCHANGED <<window, device, pc, dest, listed>>
    BY <1>2 DEF Server, deviceVars, argVars
  <2>2. PICK evs \in Seq(Events) : Sends(evs)
    BY <1>2, ServerSends DEF Sent
  <2>3. /\ UNCHANGED <<special, heldOn>> /\ notifyOwed' \subseteq notifyOwed
        /\ forcedOwed' \subseteq forcedOwed
        /\ \A p \in Pixmaps : held[p] = "none" => held'[p] = "none"
        /\ special = NoWindow => queue' = queue \o <<>>
    BY <2>2 DEF Sends
  <2>4. special = NoWindow => queue' = <<>>
    BY <1>2, <2>3 DEF SpecialInvariant
  <2>5. QED
    BY <1>2, <2>1, <2>3, <2>4 DEF SpecialInvariant
<1>3. QED
  BY <1>1, <1>2, SpecialCall, SpecialContinue DEF Next

---------------------------------------------------------------------------
(* PRESENTForceReleases is alone with the queue.                           *)

Inner == ForcePCs \ {"force", "handshake"}

\* Past the handshake no other thread reads events, handles one, presents or
\* touches the list: it may at most begin a call that has to wait.
Waits(t) ==
  /\ UNCHANGED <<special, queue, held, heldOn, notifyOwed, forcedOwed, alive, connected,
                 pending, notifySerial, released, completePending, lastFlip,
                 device, window, listed, xcbWait, hand, todo>>
  /\ pc[t] = "idle"
  /\ \E l \in {"prepare", "wait"} : pc' = [pc EXCEPT ![t] = l]
  /\ \A u \in Threads : u # t => dest'[u] = dest[u]

LEMMA Alone ==
  ASSUME TypeOK, LockProtocol, SpecialInvariant, NEW t \in Threads, NEW u \in Threads, u # t,
         pc[u] \in Inner, Call(t) \/ Continue(t)
  PROVE  Waits(t)
<1> USE DEF serverVars, requestVars, windowVars, deviceVars, lockVars, argVars, eventVars, Goto
<1>1. mutexPresent = u /\ mutexPresent # NoThread /\ mutexXcbWait = NoThread
  BY ThreadAssumption DEF LockProtocol, Inner, Critical
<1>2. pc[t] \notin Critical /\ pc[t] # "xcb"
  BY <1>1, ThreadAssumption DEF LockProtocol
<1>3. pc[u] # "idle" /\ device # "absent"
  BY DEF Inner, ForcePCs, SpecialInvariant
<1>4. CASE Continue(t)
  <2>1. /\ ~FlushEvent(t) /\ ~ForceReleases(t) /\ ~PRESENTPrivChangeWindow(t)
        /\ ~ChangeWindowSelect(t) /\ ~PrepareEnd(t) /\ ~WaitFlushEnd(t) /\ ~WaitReturn(t)
        /\ ~WaitBehind(t) /\ ~PRESENTwait_events(t) /\ ~TakeEvent(t)
        /\ ~PRESENTIsPixmapReleased(t) /\ ~PRESENTDestroy(t)
    BY <1>2 DEF Critical, ForcePCs, FlushEvent, Flushes, AssertingFlushes, ForceReleases,
         ForceBegin, ForceHandshake, ForceDrain, ForceNotify, ForceWalk, ForcePixmap, ForceWait,
         ForceEnd, PRESENTPrivChangeWindow, ChangeWindowSelect, PrepareEnd, WaitFlushEnd,
         WaitReturn, WaitBehind, PRESENTwait_events, TakeEvent, PRESENTIsPixmapReleased,
         PRESENTDestroy
  <2>2. ~PRESENTPixmapPrepare(t) /\ ~PRESENTPixmap(t) /\ ~WaitLock(t) /\ ~WaitWake(t) /\ ~HandleTaken(t)
    BY <1>1 DEF PRESENTPixmapPrepare, PRESENTPixmap, WaitLock, WaitWake, HandleTaken, Acquire
  <2>3. QED
    BY <1>4, <2>1, <2>2 DEF Continue
<1>5. CASE Call(t)
  <2>1. ~PRESENTInit(t) /\ ~BeginIsReleased(t) /\ ~BeginDestroy(t)
    BY <1>1, <1>3 DEF PRESENTInit, BeginIsReleased, BeginDestroy, Acquire
  <2>2. \A p \in Pixmaps : ~PRESENTPixmapInit(t, p) /\ ~PRESENTTryFreePixmap(t, p)
    BY <1>1 DEF PRESENTPixmapInit, PRESENTTryFreePixmap
  <2>3. ASSUME NEW p \in Pixmaps, NEW w \in Windows, BeginPresentBuffer(t, p, w)
        PROVE  Waits(t)
    BY <2>3 DEF BeginPresentBuffer, Waits, TypeOK, ThreadTypeOK
  <2>4. ASSUME NEW p \in Pixmaps, BeginWaitBuffer(t, p)
        PROVE  Waits(t)
    BY <2>4 DEF BeginWaitBuffer, Waits
  <2>5. BeginWaitEvent(t) => Waits(t)
    BY DEF BeginWaitEvent, Waits
  <2>6. QED
    BY <1>5, <2>1, <2>2, <2>3, <2>4, <2>5 DEF Call
<1>6. QED
  BY <1>4, <1>5

---------------------------------------------------------------------------
(* What a step of a thread does to the queue and to the requests.          *)

Shrinks == queue' = queue \/ (queue # <<>> /\ queue' = Tail(queue)) \/ queue' = <<>>

\* A thread only takes events off the queue.
LEMMA QueueShrinks ==
  ASSUME NEW t \in Threads, Call(t) \/ Continue(t)
  PROVE  Shrinks
<1> USE DEF serverVars, Shrinks, Receive
<1>1. Call(t) => queue' = queue
  BY DEF Call, PRESENTInit, PRESENTPixmapInit, PRESENTTryFreePixmap, BeginPresentBuffer,
         BeginWaitBuffer, BeginWaitEvent, BeginIsReleased, BeginDestroy
<1>2. ForceReleases(t) => Shrinks
  BY DEF ForceReleases, ForceBegin, ForceHandshake, ForceDrain, WaitEvent, ForceNotify,
         ForceWalk, ForcePixmap, ForceWait, ForceEnd
<1>3. QED
  BY <1>1, <1>2 DEF Continue, FlushEvent, PRESENTPixmapPrepare, PRESENTPrivChangeWindow,
     ChangeWindowSelect, PrepareEnd, PRESENTPixmap, WaitLock, WaitFlushEnd, WaitReturn,
     WaitBehind, WaitWake, PRESENTwait_events, TakeEvent, HandleTaken,
     PRESENTIsPixmapReleased, PRESENTDestroy

\* What is left was there before, in the same order.
LEMMA ShrunkQueue ==
  ASSUME queue \in Seq(Events), Shrinks
  PROVE  \E d \in Nat : \A i \in 1..Len(queue') :
           i + d \in 1..Len(queue) /\ queue'[i] = queue[i + d]
<1>1. CASE queue' = queue
  <2>1. \A i \in 1..Len(queue') : i + 0 \in 1..Len(queue) /\ queue'[i] = queue[i + 0]
    <3>1. Len(queue') = Len(queue) /\ Len(queue) \in Nat
      BY <1>1
    <3>2. ASSUME NEW i \in 1..Len(queue')
          PROVE  i + 0 \in 1..Len(queue) /\ queue'[i] = queue[i + 0]
      <4>1. i + 0 = i
        BY <3>1
      <4>2. QED
        BY <1>1, <4>1
    <3>3. QED
      BY <3>2
  <2>2. 0 \in Nat
    OBVIOUS
  <2>3. QED
    BY <2>1, <2>2
<1>2. CASE queue # <<>> /\ queue' = Tail(queue)
  <2>1. \A i \in 1..Len(queue') : i + 1 \in 1..Len(queue) /\ queue'[i] = queue[i + 1]
    BY <1>2, TailElements
  <2>2. 1 \in Nat
    OBVIOUS
  <2>3. QED
    BY <2>1, <2>2
<1>3. CASE queue' = <<>>
  <2>1. 1..Len(queue') = {}
    BY <1>3
  <2>2. QED
    BY <2>1
<1>4. QED
  BY <1>1, <1>2, <1>3 DEF Shrinks

\* Only ForceNotify asks for an answer with serial 1.
LEMMA OwedKept ==
  ASSUME NEW t \in Threads, Call(t) \/ Continue(t), ~ForceNotify(t)
  PROVE  \A w : <<w, 1>> \in notifyOwed' => <<w, 1>> \in notifyOwed
<1> USE DEF serverVars, requestVars
<1>1. Call(t) => notifyOwed' = notifyOwed
  BY DEF Call, PRESENTInit, PRESENTPixmapInit, PRESENTTryFreePixmap, BeginPresentBuffer,
         BeginWaitBuffer, BeginWaitEvent, BeginIsReleased, BeginDestroy
<1>2. CASE ForceReleases(t)
  <2>1. ForceBegin(t) => notifyOwed' \subseteq notifyOwed \cup {<<window, 0>>}
    BY DEF ForceBegin
  <2>2. ~ForceBegin(t) => notifyOwed' = notifyOwed
    BY <1>2 DEF ForceReleases, ForceHandshake, ForceDrain, WaitEvent, ForceWalk, ForcePixmap,
         ForceWait, ForceEnd
  <2>3. QED
    BY <2>1, <2>2
<1>3. QED
  BY <1>1, <1>2 DEF Continue, FlushEvent, PRESENTPixmapPrepare, PRESENTPrivChangeWindow,
     ChangeWindowSelect, PrepareEnd, PRESENTPixmap, WaitLock, WaitFlushEnd, WaitReturn,
     WaitBehind, WaitWake, PRESENTwait_events, TakeEvent, HandleTaken,
     PRESENTIsPixmapReleased, PRESENTDestroy

---------------------------------------------------------------------------
(* The one answer with serial 1.                                           *)

LEMMA SerialInit == Init => SerialInvariant
BY DEF Init, ServerInit, SerialInvariant

LEMMA SerialServer ==
  ASSUME TypeOK, SpecialInvariant, SerialInvariant, Server
  PROVE  SerialInvariant'
<1>1. PICK evs \in Seq(Events) : Sends(evs)
  BY ServerSends DEF Sent
<1>2. UNCHANGED <<pc, notifySerial>>
  BY DEF Server, eventVars
<1>3. Asked' <=> Asked
  BY <1>2 DEF Asked
<1>4. queue \in Seq(Events) /\ queue' = queue \o evs /\ UNCHANGED special
  BY <1>1 DEF TypeOK, ServerTypeOK, Sends
<1>5. /\ Len(queue) \in Nat /\ Len(evs) \in Nat /\ Len(queue') = Len(queue) + Len(evs)
      /\ \A i \in 1..Len(queue) : queue'[i] = queue[i]
      /\ \A i \in 1..Len(queue') : i \notin 1..Len(queue) =>
           i - Len(queue) \in 1..Len(evs) /\ queue'[i] = evs[i - Len(queue)]
  BY <1>4, CatElements
<1>6. CASE \A i \in 1..Len(evs) : evs[i] # NotifyEvent(1)
  <2>1. \A i \in 1..Len(queue') :
          queue'[i] = NotifyEvent(1) => i \in 1..Len(queue) /\ queue[i] = NotifyEvent(1)
    BY <1>5, <1>6
  <2>2. notifyOwed' \subseteq notifyOwed
    BY <1>1 DEF Sends
  <2>3. QED
    BY <1>3, <1>4, <2>1, <2>2 DEF SerialInvariant
<1>7. ASSUME NEW k \in 1..Len(evs), evs[k] = NotifyEvent(1)
      PROVE  SerialInvariant'
  <2>1. /\ Len(evs) = 1 /\ <<special, 1>> \in notifyOwed /\ <<special, 1>> \notin notifyOwed'
        /\ notifyOwed' \subseteq notifyOwed
    BY <1>1, <1>7 DEF Sends
  <2>2. special \in Windows
    BY <2>1 DEF TypeOK, ServerTypeOK
  <2>3. Asked /\ \A i \in 1..Len(queue) : queue[i] # NotifyEvent(1)
    BY <2>1, <2>2 DEF SerialInvariant
  <2>4. \A w \in Windows : <<w, 1>> \notin notifyOwed'
    BY <2>1 DEF SerialInvariant
  <2>5. \A i \in 1..Len(queue') : queue'[i] = NotifyEvent(1) => i = Len(queue) + 1
    BY <1>5, <2>1, <2>3
  <2>6. QED
    BY <1>3, <2>3, <2>4, <2>5 DEF SerialInvariant
<1>8. QED
  BY <1>6, <1>7

\* Nobody asked, and nobody asks.
LEMMA SerialNone ==
  ASSUME TypeOK, SerialInvariant, ~Asked, NEW t \in Threads, Call(t) \/ Continue(t),
         ~ForceNotify(t)
  PROVE  SerialInvariant'
<1>1. queue \in Seq(Events)
  BY DEF TypeOK, ServerTypeOK
<1>2. \A i \in 1..Len(queue) : queue[i] # NotifyEvent(1)
  BY DEF SerialInvariant
<1>3. \A i \in 1..Len(queue') : queue'[i] # NotifyEvent(1)
  BY <1>1, <1>2, QueueShrinks, ShrunkQueue
<1>4. \A w \in Windows : <<w, 1>> \notin notifyOwed'
  BY OwedKept DEF SerialInvariant
<1>5. QED
  BY <1>3, <1>4 DEF SerialInvariant

\* The thread that asked reads an event.
LEMMA SerialRead ==
  ASSUME TypeOK, SerialInvariant, NEW t \in Threads, pc[t] = "serial", notifySerial, WaitEvent,
         UNCHANGED pc
  PROVE  SerialInvariant'
<1>1. /\ Receive /\ UNCHANGED <<special, notifyOwed>>
      /\ notifySerial' = (notifySerial /\ Received # NotifyEvent(1))
  BY DEF WaitEvent, PRESENThandle_events, requestVars
<1>2. CASE queue = <<>>
  <2>1. queue' = queue /\ notifySerial'
    BY <1>1, <1>2 DEF Receive, Received, NullEvent, NotifyEvent
  <2>2. QED
    BY <1>1, <2>1 DEF SerialInvariant, Asked
<1>3. CASE queue # <<>>
  <2>1. queue \in Seq(Events) /\ queue' = Tail(queue) /\ Received = Head(queue)
    BY <1>1, <1>3 DEF Receive, Received, TypeOK, ServerTypeOK
  <2>2. /\ Len(queue') = Len(queue) - 1 /\ Len(queue) \in Nat \ {0}
        /\ Received = queue[1] /\ 1 \in 1..Len(queue)
        /\ \A i \in 1..Len(queue') : i + 1 \in 1..Len(queue) /\ queue'[i] = queue[i + 1]
    BY <1>3, <2>1, TailElements
  <2>3. CASE Received = NotifyEvent(1)
    <3>1. \A i \in 1..Len(queue) : queue[i] = NotifyEvent(1) => i = 1
      BY <2>2, <2>3 DEF SerialInvariant
    <3>2. \A i \in 1..Len(queue') : queue'[i] # NotifyEvent(1)
      BY <2>2, <3>1
    <3>3. \A w \in Windows : <<w, 1>> \notin notifyOwed'
      BY <1>1, <2>2, <2>3 DEF SerialInvariant
    <3>4. QED
      BY <3>2, <3>3 DEF SerialInvariant
  <2>4. CASE Received # NotifyEvent(1)
    <3>1. Asked'
      BY <1>1, <2>4 DEF Asked
    <3>2. \A i, j \in 1..Len(queue') :
            queue'[i] = NotifyEvent(1) /\ queue'[j] = NotifyEvent(1) => i = j
      <4>1. TAKE i, j \in 1..Len(queue')
      <4>2. HAVE queue'[i] = NotifyEvent(1) /\ queue'[j] = NotifyEvent(1)
      <4>3. i + 1 = j + 1
        BY <2>2, <4>2 DEF SerialInvariant
      <4>4. QED
        BY <4>3
    <3>3. QED
      BY <1>1, <2>2, <3>1, <3>2 DEF SerialInvariant
  <2>5. QED
    BY <2>3, <2>4
<1>4. QED
  BY <1>2, <1>3

\* A thread asks: nobody else has, and nothing is left of an earlier answer.
LEMMA SerialAsks ==
  ASSUME TypeOK, LockProtocol, SpecialInvariant, SerialInvariant, NEW t \in Threads,
         ForceNotify(t)
  PROVE  SerialInvariant'
<1>1. /\ pc[t] = "d1flush" /\ pc' = [pc EXCEPT ![t] = "serial"] /\ notifySerial'
      /\ UNCHANGED <<special, queue>>
      /\ notifyOwed' \subseteq notifyOwed \cup {<<window, 1>>}
  BY DEF ForceNotify, Goto
<1>2. \A u \in Threads : u # t => pc[u] \notin {"serial", "select"}
  BY <1>1 DEF LockProtocol, Critical, ForcePCs
<1>3. ~Asked
  BY <1>1, <1>2 DEF Asked
<1>4. special = window
  BY <1>1, <1>2 DEF SpecialInvariant
<1>5. Asked'
  BY <1>1 DEF Asked, TypeOK, ThreadTypeOK
<1>6. \A i \in 1..Len(queue') : queue'[i] # NotifyEvent(1)
  BY <1>1, <1>3 DEF SerialInvariant
<1>7. \A w \in Windows : <<w, 1>> \in notifyOwed' => w = special'
  BY <1>1, <1>3, <1>4 DEF SerialInvariant
<1>8. QED
  BY <1>5, <1>6, <1>7 DEF SerialInvariant

LEMMA SerialStep ==
  TypeOK /\ LockProtocol /\ SpecialInvariant /\ SerialInvariant /\ [Next]_vars => SerialInvariant'
<1>1. ASSUME SerialInvariant, UNCHANGED vars
      PROVE  SerialInvariant'
  BY <1>1 DEF vars, serverVars, requestVars, eventVars, SerialInvariant, Asked
<1>2. ASSUME TypeOK, LockProtocol, SpecialInvariant, SerialInvariant, NEW t \in Threads,
             Call(t) \/ Continue(t), Asked
      PROVE  SerialInvariant'
  <2>1. PICK u \in Threads : pc[u] = "serial" /\ notifySerial
    BY <1>2 DEF Asked
  <2>2. CASE u # t
    <3>1. Waits(t)
      BY <1>2, <2>1, <2>2, Alone DEF Inner, ForcePCs
    <3>2. pc'[u] = pc[u] /\ UNCHANGED <<special, queue, notifyOwed, notifySerial>>
      BY <2>2, <3>1 DEF Waits, TypeOK, ThreadTypeOK
    <3>3. Asked'
      BY <2>1, <3>2 DEF Asked
    <3>4. QED
      BY <1>2, <3>2, <3>3 DEF SerialInvariant
  <2>3. CASE u = t
    <3>1. WaitEvent /\ UNCHANGED pc
      BY <1>2, <2>1, <2>3 DEF Call, PRESENTInit, PRESENTPixmapInit, PRESENTTryFreePixmap,
         BeginPresentBuffer, BeginWaitBuffer, BeginWaitEvent, BeginIsReleased, BeginDestroy,
         Continue, FlushEvent, Flushes, AssertingFlushes, ForceReleases, ForceBegin,
         ForceHandshake, ForceDrain, ForceNotify, ForceWalk, ForcePixmap, ForceWait, ForceEnd,
         PRESENTPixmapPrepare, PRESENTPrivChangeWindow, ChangeWindowSelect, PrepareEnd,
         PRESENTPixmap, WaitLock, WaitFlushEnd, WaitReturn, WaitBehind, WaitWake,
         PRESENTwait_events, TakeEvent, HandleTaken, PRESENTIsPixmapReleased, PRESENTDestroy
    <3>2. QED
      BY <1>2, <2>1, <2>3, <3>1, SerialRead
  <2>4. QED
    BY <2>2, <2>3
<1>3. ASSUME TypeOK, LockProtocol, SpecialInvariant, SerialInvariant, NEW t \in Threads,
             Call(t) \/ Continue(t), ~Asked
      PROVE  SerialInvariant'
  BY <1>3, SerialNone, SerialAsks
<1>4. QED
  BY <1>1, <1>2, <1>3, SerialServer DEF Next

---------------------------------------------------------------------------
(* Counting events.                                                        *)

Hits(q, E) == {i \in 1..Len(q) : q[i] \in E}
Num(q, E) == Cardinality(Hits(q, E))

LEMMA HitsFinite ==
  ASSUME NEW S, NEW q \in Seq(S), NEW E
  PROVE  IsFiniteSet(Hits(q, E)) /\ Num(q, E) \in Nat
<1>1. Len(q) \in Nat
  OBVIOUS
<1>2. IsFiniteSet(1..Len(q))
  BY <1>1, FS_Interval
<1>3. Hits(q, E) \in SUBSET (1..Len(q))
  BY DEF Hits
<1>4. QED
  BY <1>2, <1>3, FS_Subset, FS_CardinalityType DEF Num

\* No event, or one.
LEMMA NumFew ==
  ASSUME NEW q, NEW E
  PROVE  /\ (\A i \in 1..Len(q) : q[i] \notin E) => Num(q, E) = 0
         /\ \A i \in 1..Len(q) :
              q[i] \in E /\ (\A j \in 1..Len(q) : q[j] \in E => j = i) => Num(q, E) = 1
<1>1. (\A i \in 1..Len(q) : q[i] \notin E) => Hits(q, E) = {}
  BY DEF Hits
<1>2. ASSUME NEW i \in 1..Len(q), q[i] \in E, \A j \in 1..Len(q) : q[j] \in E => j = i
      PROVE  Hits(q, E) = {i}
  BY <1>2 DEF Hits
<1>3. QED
  BY <1>1, <1>2, FS_EmptySet, FS_Singleton DEF Num

LEMMA NumZero ==
  ASSUME NEW S, NEW q \in Seq(S), NEW E, Num(q, E) = 0
  PROVE  \A i \in 1..Len(q) : q[i] \notin E
<1>1. Hits(q, E) = {}
  BY HitsFinite, FS_EmptySet DEF Num
<1>2. QED
  BY <1>1 DEF Hits

\* A shifted set has as many elements.
LEMMA Shifted ==
  ASSUME NEW S \in SUBSET Int, IsFiniteSet(S), NEW d \in Int, NEW T, T = {i + d : i \in S}
  PROVE  IsFiniteSet(T) /\ Cardinality(T) = Cardinality(S)
<1> DEFINE f == [i \in S |-> i + d]
<1>1. f \in [S -> T]
  OBVIOUS
<1>2. \A a, b \in S : f[a] = f[b] => a = b
  OBVIOUS
<1>3. \A b \in T : \E a \in S : f[a] = b
  OBVIOUS
<1>4. f \in Bijection(S, T)
  BY <1>1, <1>2, <1>3 DEF Bijection, Injection, Surjection, IsInjective
<1> HIDE DEF f
<1>5. ExistsBijection(S, T)
  BY <1>4 DEF ExistsBijection
<1>6. QED
  BY <1>5, FS_Bijection

LEMMA NumCat ==
  ASSUME NEW S, NEW q \in Seq(S), NEW r \in Seq(S), NEW E
  PROVE  Num(q \o r, E) = Num(q, E) + Num(r, E)
<1> DEFINE n == Len(q)
           c == q \o r
           A == Hits(q, E)
           B == Hits(r, E)
           C == {i + n : i \in B}
<1>1. /\ c \in Seq(S) /\ n \in Nat /\ Len(r) \in Nat /\ Len(c) = n + Len(r)
      /\ \A i \in 1..n : i \in 1..Len(c) /\ c[i] = q[i]
      /\ \A i \in 1..Len(r) : n + i \in 1..Len(c) /\ c[n + i] = r[i]
      /\ \A i \in 1..Len(c) : i \notin 1..n => i - n \in 1..Len(r) /\ c[i] = r[i - n]
  BY CatElements
<1>2. IsFiniteSet(A) /\ IsFiniteSet(B)
  BY HitsFinite
<1>3. /\ A = {i \in 1..n : q[i] \in E}
      /\ B = {i \in 1..Len(r) : r[i] \in E}
      /\ Hits(c, E) = {i \in 1..Len(c) : c[i] \in E}
  BY DEF Hits
<1> HIDE DEF A, B, c, n
<1>4. B \in SUBSET Int /\ n \in Int
  BY <1>1, <1>3
<1>5. IsFiniteSet(C) /\ Cardinality(C) = Cardinality(B)
  BY <1>2, <1>4, Shifted
<1>6. Hits(c, E) = A \cup C
  <2>1. ASSUME NEW i \in Hits(c, E)
        PROVE  i \in A \cup C
    <3>1. CASE i \in 1..n
      BY <1>1, <1>3, <2>1, <3>1
    <3>2. CASE i \notin 1..n
      <4>1. i - n \in B /\ i = (i - n) + n
        BY <1>1, <1>3, <2>1, <3>2
      <4>2. QED
        BY <4>1
    <3>3. QED
      BY <3>1, <3>2
  <2>2. A \subseteq Hits(c, E)
    BY <1>1, <1>3
  <2>3. ASSUME NEW i \in B
        PROVE  i + n \in Hits(c, E)
    <3>1. i \in 1..Len(r) /\ r[i] \in E
      BY <1>3
    <3>2. n + i \in 1..Len(c) /\ c[n + i] \in E /\ n + i = i + n
      BY <1>1, <3>1
    <3>3. QED
      BY <1>3, <3>2
  <2>4. QED
    BY <2>1, <2>2, <2>3
<1>7. A \cap C = {}
  BY <1>1, <1>3
<1>8. /\ Cardinality(A) \in Nat /\ Cardinality(C) \in Nat /\ Cardinality({}) = 0
      /\ Cardinality(A \cup C) = Cardinality(A) + Cardinality(C) - Cardinality(A \cap C)
  BY <1>2, <1>5, FS_Union, FS_CardinalityType, FS_EmptySet
<1>9. Cardinality(Hits(c, E)) = Cardinality(A) + Cardinality(B)
  <2>1. Cardinality(A \cap C) = 0
    BY <1>7, FS_EmptySet
  <2>2. Cardinality(Hits(c, E)) = Cardinality(A \cup C)
    BY <1>6
  <2>3. Cardinality(C) = Cardinality(B)
    BY <1>5
  <2> HIDE DEF C
  <2>4. QED
    BY <1>8, <2>1, <2>2, <2>3
<1>10. QED
  BY <1>9 DEF Num, A, B, c

\* The head counts, and what is left.
LEMMA NumTail ==
  ASSUME NEW S, NEW q \in Seq(S), q # <<>>, NEW E
  PROVE  Num(q, E) = Num(Tail(q), E) + (IF Head(q) \in E THEN 1 ELSE 0)
<1>1. <<Head(q)>> \in Seq(S) /\ Tail(q) \in Seq(S) /\ q = <<Head(q)>> \o Tail(q)
  OBVIOUS
<1>2. Num(q, E) = Num(<<Head(q)>>, E) + Num(Tail(q), E)
  <2> DEFINE a == <<Head(q)>>
             b == Tail(q)
  <2>1. a \in Seq(S) /\ b \in Seq(S) /\ q = a \o b
    BY <1>1
  <2> HIDE DEF a, b
  <2>2. Num(a \o b, E) = Num(a, E) + Num(b, E)
    BY ONLY <2>1, NumCat
  <2>3. Num(q, E) = Num(a, E) + Num(b, E)
    BY <2>1, <2>2, Zenon
  <2>4. QED
    BY <2>3, Zenon DEF a, b
<1>3. Num(<<Head(q)>>, E) = IF Head(q) \in E THEN 1 ELSE 0
  <2> DEFINE h == Head(q)
             s == <<h>>
  <2>1. Len(s) = 1 /\ s[1] = h
    OBVIOUS
  <2> HIDE DEF h, s
  <2>2. 1 \in 1..Len(s) /\ \A i \in 1..Len(s) : i = 1
    BY <2>1
  <2>3. Num(s, E) = IF h \in E THEN 1 ELSE 0
    BY <2>1, <2>2, NumFew
  <2>4. QED
    BY <2>3 DEF h, s
<1>4. Num(Tail(q), E) \in Nat
  BY <1>1, HitsFinite
<1>5. QED
  BY <1>2, <1>3, <1>4

---------------------------------------------------------------------------
(* The complete events that can still arrive.                              *)

\* Threads with an event of E in their hand, when h[t] is what t has.
HandNum(h, E) == Cardinality({t \in Threads : h[t] \in E})

\* CompletesOwed, of any pixmap.
Owed(p) == Pending(p) + (Num(queue, CompletesOf(p)) + HandNum(hand, CompletesOf(p)))

LEMMA CompletesAre ==
  ASSUME NEW p \in Pixmaps, NEW e
  PROVE  Completes(e, p) <=> p \in listed /\ e \in CompletesOf(p)
BY DEF Completes, CompletesOf

LEMMA OwedIs ==
  ASSUME NEW p \in listed, listed \subseteq Pixmaps
  PROVE  CompletesOwed(p) = Owed(p)
<1>1. \A e : Completes(e, p) <=> e \in CompletesOf(p)
  BY CompletesAre
<1>2. {i \in 1..Len(queue) : Completes(queue[i], p)} = Hits(queue, CompletesOf(p))
  BY <1>1 DEF Hits
<1>3. {t \in Threads : Completes(hand[t], p)} = {t \in Threads : hand[t] \in CompletesOf(p)}
  BY <1>1
<1>4. QED
  BY <1>2, <1>3 DEF CompletesOwed, Count, Owed, Num, HandNum

\* The same after a step.
LEMMA OwedNext ==
  ASSUME NEW p \in Pixmaps
  PROVE  Owed(p)' = (IF held'[p] = "pending" THEN 1 ELSE 0)
                      + (Num(queue', CompletesOf(p)) + HandNum(hand', CompletesOf(p)))
BY DEF Owed, Pending, Num, Hits, HandNum, CompletesOf, CompleteEvent

\* At most one thread has an event.
LEMMA OneHand ==
  ASSUME NEW h, NEW E, NEW t \in Threads, \A u \in Threads : u # t => h[u] \notin E
  PROVE  HandNum(h, E) = IF h[t] \in E THEN 1 ELSE 0
<1>1. {u \in Threads : h[u] \in E} = IF h[t] \in E THEN {t} ELSE {}
  OBVIOUS
<1>2. QED
  BY <1>1, FS_EmptySet, FS_Singleton DEF HandNum

LEMMA NoHand ==
  ASSUME NEW h, NEW E, \A u \in Threads : h[u] \notin E
  PROVE  HandNum(h, E) = 0
<1>1. {u \in Threads : h[u] \in E} = {}
  OBVIOUS
<1>2. QED
  BY <1>1, FS_EmptySet DEF HandNum

\* The thread at "got" is alone.
LEMMA GotAlone ==
  ASSUME LockProtocol, CallInvariant, NEW p \in Pixmaps
  PROVE  /\ \A t \in Threads : pc[t] # "got" => hand[t] \notin CompletesOf(p)
         /\ \A t, u \in Threads :
              pc[t] \in {"xcb", "got"} /\ u # t => hand[u] \notin CompletesOf(p)
<1>1. \A u \in Threads : pc[u] # "got" => hand[u] \notin CompletesOf(p)
  BY EventKinds DEF CallInvariant
<1>2. \A t, u \in Threads : pc[t] \in {"xcb", "got"} /\ u # t => pc[u] # "got"
  BY DEF LockProtocol
<1>3. QED
  BY <1>1, <1>2

LEMMA OwedType ==
  ASSUME TypeOK, LockProtocol, CallInvariant, NEW p \in Pixmaps
  PROVE  /\ Pending(p) \in {0, 1} /\ Num(queue, CompletesOf(p)) \in Nat
         /\ HandNum(hand, CompletesOf(p)) \in {0, 1}
         /\ Owed(p) \in Nat
<1>1. Num(queue, CompletesOf(p)) \in Nat
  BY HitsFinite DEF TypeOK, ServerTypeOK
<1>2. HandNum(hand, CompletesOf(p)) \in {0, 1}
  <2>1. CASE \A t \in Threads : hand[t] \notin CompletesOf(p)
    BY <2>1, NoHand
  <2>2. ASSUME NEW t \in Threads, hand[t] \in CompletesOf(p)
        PROVE  HandNum(hand, CompletesOf(p)) = 1
    BY <2>2, GotAlone, OneHand
  <2>3. QED
    BY <2>1, <2>2
<1>3. Pending(p) \in {0, 1}
  BY DEF Pending
<1>4. QED
  BY <1>1, <1>2, <1>3 DEF Owed

\* Nothing moved.
LEMMA OwedSame ==
  ASSUME UNCHANGED <<held, queue, hand>>, NEW p \in Pixmaps
  PROVE  Owed(p)' = Owed(p)
BY OwedNext DEF Owed, Pending

\* An event read and handled is not owed any more.
LEMMA OwedRead ==
  ASSUME TypeOK, LockProtocol, CallInvariant, Receive, UNCHANGED <<held, hand>>,
         NEW p \in Pixmaps
  PROVE  /\ Owed(p)' \in Nat
         /\ Owed(p)' = Owed(p) - (IF Received \in CompletesOf(p) THEN 1 ELSE 0)
<1> DEFINE E == CompletesOf(p)
           hands == HandNum(hand, E)
<1>1. hands \in {0, 1} /\ Pending(p) \in {0, 1} /\ Num(queue, E) \in Nat
  BY OwedType
<1>2. Owed(p)' = Pending(p) + (Num(queue', E) + hands) /\ Owed(p) = Pending(p) + (Num(queue, E) + hands)
  BY OwedNext DEF Owed, Pending
<1> HIDE DEF hands
<1>3. CASE queue = <<>>
  <2>1. queue' = queue /\ Received \notin E
    BY <1>3, EventKinds DEF Receive, Received
  <2>2. QED
    BY <1>1, <1>2, <2>1
<1>4. CASE queue # <<>>
  <2>1. queue' = Tail(queue) /\ Received = Head(queue) /\ queue \in Seq(Events)
        /\ Tail(queue) \in Seq(Events)
    BY <1>4 DEF Receive, Received, TypeOK, ServerTypeOK
  <2>2. Num(queue, E) = Num(queue', E) + (IF Received \in E THEN 1 ELSE 0)
    BY <1>4, <2>1, NumTail
  <2>3. Num(queue', E) \in Nat
    BY <2>1, HitsFinite
  <2>4. QED
    BY <1>1, <1>2, <2>2, <2>3
<1>5. QED
  BY <1>3, <1>4

\* An event taken and not yet handled is still owed.
LEMMA OwedTaken ==
  ASSUME TypeOK, LockProtocol, CallInvariant, NEW t \in Threads, pc[t] = "xcb", Receive,
         UNCHANGED held, hand' = [hand EXCEPT ![t] = Received], NEW p \in Pixmaps
  PROVE  Owed(p)' = Owed(p)
<1> DEFINE E == CompletesOf(p)
<1>1. Pending(p) \in {0, 1} /\ Num(queue, E) \in Nat
  BY OwedType
<1>2. /\ Owed(p)' = Pending(p) + (Num(queue', E) + HandNum(hand', E))
      /\ Owed(p) = Pending(p) + (Num(queue, E) + HandNum(hand, E))
  BY OwedNext DEF Owed, Pending
<1>3. hand[t] \notin E /\ \A u \in Threads : u # t => hand[u] \notin E
  BY GotAlone
<1>4. hand'[t] = Received /\ \A u \in Threads : u # t => hand'[u] = hand[u]
  BY DEF TypeOK, ThreadTypeOK
<1>5. HandNum(hand, E) = 0
  BY <1>3, NoHand
<1>6. HandNum(hand', E) = IF Received \in E THEN 1 ELSE 0
  <2>1. \A u \in Threads : u # t => hand'[u] \notin E
    BY <1>3, <1>4
  <2>2. HandNum(hand', E) = IF hand'[t] \in E THEN 1 ELSE 0
    BY <2>1, OneHand
  <2>3. QED
    BY <1>4, <2>2
<1>7. CASE queue = <<>>
  <2>1. queue' = queue /\ Received \notin E
    BY <1>7, EventKinds DEF Receive, Received
  <2>2. QED
    BY <1>1, <1>2, <1>5, <1>6, <2>1
<1>8. CASE queue # <<>>
  <2>1. queue' = Tail(queue) /\ Received = Head(queue) /\ queue \in Seq(Events)
        /\ Tail(queue) \in Seq(Events)
    BY <1>8 DEF Receive, Received, TypeOK, ServerTypeOK
  <2>2. Num(queue, E) = Num(queue', E) + (IF Received \in E THEN 1 ELSE 0)
    BY <1>8, <2>1, NumTail
  <2>3. Num(queue', E) \in Nat
    BY <2>1, HitsFinite
  <2>4. QED
    BY <1>1, <1>2, <1>5, <1>6, <2>2, <2>3
<1>9. QED
  BY <1>7, <1>8

\* The event in the hand is handled.
LEMMA OwedHandled ==
  ASSUME TypeOK, LockProtocol, CallInvariant, NEW t \in Threads, pc[t] = "got",
         UNCHANGED <<held, queue>>, hand' = [hand EXCEPT ![t] = NullEvent], NEW p \in Pixmaps
  PROVE  /\ Owed(p)' \in Nat
         /\ Owed(p)' = Owed(p) - (IF hand[t] \in CompletesOf(p) THEN 1 ELSE 0)
<1> DEFINE E == CompletesOf(p)
           queued == Num(queue, E)
<1>1. Pending(p) \in {0, 1} /\ queued \in Nat
  BY OwedType
<1>2. /\ Owed(p)' = Pending(p) + (queued + HandNum(hand', E))
      /\ Owed(p) = Pending(p) + (queued + HandNum(hand, E))
  BY OwedNext DEF Owed, Pending
<1> HIDE DEF queued
<1>3. \A u \in Threads : u # t => hand[u] \notin E
  BY GotAlone
<1>4. hand'[t] = NullEvent /\ \A u \in Threads : u # t => hand'[u] = hand[u]
  BY DEF TypeOK, ThreadTypeOK
<1>5. HandNum(hand', E) = 0
  <2>1. \A u \in Threads : hand'[u] \notin E
    BY <1>3, <1>4, EventKinds
  <2>2. QED
    BY <2>1, NoHand
<1>6. HandNum(hand, E) = IF hand[t] \in E THEN 1 ELSE 0
  BY <1>3, OneHand
<1>7. QED
  BY <1>1, <1>2, <1>5, <1>6

\* The server sends: a complete event takes the place of a presentation.
LEMMA OwedSent ==
  ASSUME TypeOK, LockProtocol, CallInvariant, NEW evs \in Seq(Events), Sends(evs),
         UNCHANGED hand, NEW p \in Pixmaps
  PROVE  /\ Owed(p)' \in Nat /\ Owed(p)' <= Owed(p)
         /\ Calm' /\ (held[p] = "pending" => heldOn[p] = special) => Owed(p)' = Owed(p)
<1> DEFINE E == CompletesOf(p)
           hands == HandNum(hand, E)
           after == IF held'[p] = "pending" THEN 1 ELSE 0
<1>1. hands \in {0, 1} /\ Pending(p) \in {0, 1} /\ Num(queue, E) \in Nat
  BY OwedType
<1>2. Owed(p)' = after + (Num(queue', E) + hands) /\ Owed(p) = Pending(p) + (Num(queue, E) + hands)
  BY OwedNext DEF Owed
<1> HIDE DEF hands
<1>3. Num(queue', E) = Num(queue, E) + Num(evs, E)
  BY NumCat DEF Sends, TypeOK, ServerTypeOK
<1>4. /\ \A i \in 1..Len(evs) : evs[i] \in E => held[p] = "pending" /\ held'[p] # "pending"
      /\ \A i, j \in 1..Len(evs) : evs[i] \in E /\ evs[j] \in E => i = j
      /\ Calm' /\ held[p] = "pending" /\ held'[p] # "pending" /\ heldOn[p] = special =>
           \E i \in 1..Len(evs) : evs[i] \in E
      /\ held'[p] = "pending" => held[p] = "pending"
  BY DEF Sends
<1>5. CASE \A i \in 1..Len(evs) : evs[i] \notin E
  <2>1. Num(evs, E) = 0
    BY <1>5, NumFew
  <2>2. after <= Pending(p) /\ after \in {0, 1}
    BY <1>4 DEF Pending
  <2>3. Calm' /\ (held[p] = "pending" => heldOn[p] = special) => after = Pending(p)
    BY <1>4, <1>5 DEF Pending
  <2> HIDE DEF after
  <2>4. QED
    BY <1>1, <1>2, <1>3, <2>1, <2>2, <2>3
<1>6. CASE \E i \in 1..Len(evs) : evs[i] \in E
  <2>1. Num(evs, E) = 1
    BY <1>4, <1>6, NumFew
  <2>2. after = 0 /\ Pending(p) = 1
    BY <1>4, <1>6 DEF Pending
  <2> HIDE DEF after
  <2>3. QED
    BY <1>1, <1>2, <1>3, <2>1, <2>2
<1>7. QED
  BY <1>5, <1>6

\* The queue is dropped.
LEMMA OwedDropped ==
  ASSUME TypeOK, LockProtocol, CallInvariant, queue' = <<>>, UNCHANGED <<held, hand>>,
         NEW p \in Pixmaps
  PROVE  /\ Owed(p)' \in Nat /\ Owed(p)' <= Owed(p)
         /\ (\A i \in 1..Len(queue) : queue[i] \notin CompletesOf(p)) => Owed(p)' = Owed(p)
<1> DEFINE E == CompletesOf(p)
           hands == HandNum(hand, E)
<1>1. hands \in {0, 1} /\ Pending(p) \in {0, 1} /\ Num(queue, E) \in Nat
  BY OwedType
<1>2. Owed(p)' = Pending(p) + (Num(queue', E) + hands) /\ Owed(p) = Pending(p) + (Num(queue, E) + hands)
  BY OwedNext DEF Owed, Pending
<1> HIDE DEF hands
<1>3. Num(queue', E) = 0
  <2>1. \A i \in 1..Len(queue') : queue'[i] \notin E
    OBVIOUS
  <2>2. QED
    BY <2>1, NumFew
<1>4. (\A i \in 1..Len(queue) : queue[i] \notin E) => Num(queue, E) = 0
  BY NumFew
<1>5. QED
  BY <1>1, <1>2, <1>3, <1>4

---------------------------------------------------------------------------
(* The presentations the backend counts.                                   *)

LEMMA OutstandingIs ==
  \A o : o \in Outstanding <=>
           \E p \in listed : \E n \in 1..completePending[p] : o = <<p, n>>
BY DEF Outstanding

LEMMA OutstandingSame ==
  ASSUME \A p \in listed : completePending[p] # 0 =>
           p \in listed' /\ completePending'[p] = completePending[p],
         \A p \in listed' : completePending'[p] # 0 =>
           p \in listed /\ completePending'[p] = completePending[p]
  PROVE  Outstanding' = Outstanding
<1>1. \A o : o \in Outstanding' <=>
               \E p \in listed' : \E n \in 1..completePending'[p] : o = <<p, n>>
  BY DEF Outstanding
<1>2. \A p : p \in listed => \A n \in 1..completePending[p] :
        p \in listed' /\ n \in 1..completePending'[p]
  <2>1. \A p \in listed : completePending[p] = 0 => 1..completePending[p] = {}
    OBVIOUS
  <2>2. QED
    BY <2>1
<1>3. \A p : p \in listed' => \A n \in 1..completePending'[p] :
        p \in listed /\ n \in 1..completePending[p]
  <2>1. \A p \in listed' : completePending'[p] = 0 => 1..completePending'[p] = {}
    OBVIOUS
  <2>2. QED
    BY <2>1
<1>4. QED
  BY <1>1, <1>2, <1>3, OutstandingIs

\* One more presentation of p.
LEMMA OutstandingMore ==
  ASSUME NEW p \in listed, listed' = listed, completePending[p] \in Nat,
         completePending'[p] = completePending[p] + 1,
         \A q \in listed : q # p => completePending'[q] = completePending[q],
         IsFiniteSet(Outstanding)
  PROVE  /\ IsFiniteSet(Outstanding')
         /\ Cardinality(Outstanding') = Cardinality(Outstanding) + 1
<1> DEFINE n == completePending[p] + 1
<1>1. \A o : o \in Outstanding' <=>
               \E q \in listed : \E k \in 1..completePending'[q] : o = <<q, k>>
  BY DEF Outstanding
<1>2. 1..completePending'[p] = (1..completePending[p]) \cup {n}
  OBVIOUS
<1>3. <<p, n>> \notin Outstanding
  BY OutstandingIs
<1>4. Outstanding' = Outstanding \cup {<<p, n>>}
  <2>1. ASSUME NEW o \in Outstanding'
        PROVE  o \in Outstanding \cup {<<p, n>>}
    BY <1>1, <1>2, <2>1, OutstandingIs
  <2>2. ASSUME NEW o \in Outstanding
        PROVE  o \in Outstanding'
    BY <1>1, <1>2, <2>2, OutstandingIs
  <2>3. <<p, n>> \in Outstanding'
    BY <1>1, <1>2
  <2>4. QED
    BY <2>1, <2>2, <2>3
<1>5. QED
  BY <1>3, <1>4, FS_AddElement

\* One presentation of p less.
LEMMA OutstandingLess ==
  ASSUME NEW p \in listed, listed' = listed, completePending[p] \in Nat \ {0},
         completePending'[p] = completePending[p] - 1,
         \A q \in listed : q # p => completePending'[q] = completePending[q],
         IsFiniteSet(Outstanding)
  PROVE  /\ IsFiniteSet(Outstanding')
         /\ Cardinality(Outstanding') = Cardinality(Outstanding) - 1
<1> DEFINE n == completePending[p]
<1>1. \A o : o \in Outstanding' <=>
               \E q \in listed : \E k \in 1..completePending'[q] : o = <<q, k>>
  BY DEF Outstanding
<1>2. 1..completePending'[p] = (1..n) \ {n} /\ n \in 1..n
  OBVIOUS
<1>3. <<p, n>> \in Outstanding
  BY <1>2, OutstandingIs
<1>4. Outstanding' = Outstanding \ {<<p, n>>}
  <2>1. ASSUME NEW o \in Outstanding'
        PROVE  o \in Outstanding \ {<<p, n>>}
    BY <1>1, <1>2, <2>1, OutstandingIs
  <2>2. ASSUME NEW o \in Outstanding, o # <<p, n>>
        PROVE  o \in Outstanding'
    BY <1>1, <1>2, <2>2, OutstandingIs
  <2>3. QED
    BY <2>1, <2>2
<1>5. QED
  BY <1>3, <1>4, FS_RemoveElement

---------------------------------------------------------------------------
(* The counts.                                                             *)

CountInvariant ==
  /\ \A p \in listed : completePending[p] >= Owed(p)
  /\ Calm => \A p \in listed : completePending[p] = Owed(p)
  /\ \A p \in Pixmaps \ listed : Owed(p) = 0
  /\ IsFiniteSet(Outstanding) /\ pending = Cardinality(Outstanding)

CountContext ==
  /\ TypeOK /\ LockProtocol /\ CallInvariant /\ BufferInvariant /\ SpecialInvariant
  /\ Calm => OrderInvariant
  /\ CountInvariant

LEMMA CountInit == Init => CountInvariant
<1> SUFFICES ASSUME Init PROVE CountInvariant
  OBVIOUS
<1>1. listed = {} /\ pending = 0 /\ queue = <<>>
  BY DEF Init, ServerInit
<1>2. \A p \in Pixmaps : Owed(p) = 0
  <2>1. TAKE p \in Pixmaps
  <2>2. Num(queue, CompletesOf(p)) = 0
    <3>1. \A i \in 1..Len(queue) : queue[i] \notin CompletesOf(p)
      BY <1>1
    <3>2. QED
      BY <3>1, NumFew
  <2>3. HandNum(hand, CompletesOf(p)) = 0
    <3>1. \A t \in Threads : hand[t] \notin CompletesOf(p)
      BY EventKinds DEF Init
    <3>2. QED
      BY <3>1, NoHand
  <2>4. Pending(p) = 0
    BY DEF Init, ServerInit, Pending
  <2>5. QED
    BY <2>2, <2>3, <2>4 DEF Owed
<1>3. Outstanding = {}
  BY <1>1, OutstandingIs
<1>4. QED
  BY <1>1, <1>2, <1>3, FS_EmptySet DEF CountInvariant

\* An empty count: nothing is pending, and no complete event is queued.
LEMMA CountZero ==
  ASSUME TypeOK, LockProtocol, CallInvariant, CountInvariant, pending = 0
  PROVE  NothingPending /\ NoCompleteQueued
<1>1. Outstanding = {}
  BY FS_EmptySet DEF CountInvariant
<1>2. \A p \in Pixmaps : Owed(p) = 0
  <2>1. ASSUME NEW p \in listed
        PROVE  Owed(p) = 0
    <3>1. p \in Pixmaps /\ completePending[p] \in Int
      BY DEF TypeOK, DeviceTypeOK, EventTypeOK
    <3>2. 1 \notin 1..completePending[p]
      BY <1>1, OutstandingIs
    <3>3. completePending[p] >= Owed(p) /\ Owed(p) \in Nat
      BY <3>1, OwedType DEF CountInvariant
    <3>4. QED
      BY <3>1, <3>2, <3>3
  <2>2. QED
    BY <2>1 DEF CountInvariant
<1>3. ASSUME NEW p \in Pixmaps
      PROVE  held[p] # "pending" /\ \A i \in 1..Len(queue) : queue[i] \notin CompletesOf(p)
  <2>1. Pending(p) = 0 /\ Num(queue, CompletesOf(p)) = 0
    BY <1>2, OwedType DEF Owed
  <2>2. QED
    BY <2>1, NumZero DEF Pending, TypeOK, ServerTypeOK
<1>4. QED
  BY <1>3 DEF NothingPending, NoCompleteQueued

\* A step that counts nothing.
LEMMA CountKept ==
  ASSUME CountContext, UNCHANGED <<listed, pending, completePending>>,
         \A p \in Pixmaps : Owed(p)' \in Nat /\ Owed(p)' <= Owed(p),
         Calm' => Calm /\ \A p \in listed : Owed(p)' = Owed(p)
  PROVE  CountInvariant'
<1> USE DEF CountContext
<1>0. listed \subseteq Pixmaps /\ \A p \in listed : completePending[p] \in Int
  BY DEF TypeOK, DeviceTypeOK, EventTypeOK
<1>1. \A p \in Pixmaps : Owed(p) \in Nat
  BY OwedType
<1>2. ASSUME NEW p \in listed'
      PROVE  completePending'[p] >= Owed(p)'
  BY <1>0, <1>1, <1>2 DEF CountInvariant
<1>3. ASSUME Calm', NEW p \in listed'
      PROVE  completePending'[p] = Owed(p)'
  BY <1>0, <1>3 DEF CountInvariant
<1>4. ASSUME NEW p \in Pixmaps, p \notin listed'
      PROVE  Owed(p)' = 0
  BY <1>1, <1>4 DEF CountInvariant
<1>5. Outstanding' = Outstanding
  BY OutstandingSame
<1>6. IsFiniteSet(Outstanding') /\ pending' = Cardinality(Outstanding')
  BY <1>5 DEF CountInvariant
<1>7. QED
  BY <1>2, <1>3, <1>4, <1>6 DEF CountInvariant

LEMMA CountStutter ==
  ASSUME CountContext, UNCHANGED <<listed, pending, completePending, held, queue, hand>>,
         Calm' => Calm
  PROVE  CountInvariant'
<1>1. \A p \in Pixmaps : Owed(p)' = Owed(p) /\ Owed(p) \in Nat
  BY OwedSame, OwedType DEF CountContext
<1>2. listed \subseteq Pixmaps
  BY DEF CountContext, TypeOK, DeviceTypeOK
<1>3. QED
  BY <1>1, <1>2, CountKept

\* An event is handled.
LEMMA CountHandled ==
  ASSUME CountContext, NEW e, PRESENThandle_events(e), UNCHANGED listed, Calm' => Calm,
         \A p \in Pixmaps : /\ Owed(p)' \in Nat
                            /\ Owed(p)' = Owed(p) - (IF e \in CompletesOf(p) THEN 1 ELSE 0)
  PROVE  CountInvariant'
<1> USE DEF CountContext
<1>0. listed \subseteq Pixmaps /\ \A p \in Pixmaps : completePending[p] \in Int
  BY DEF TypeOK, DeviceTypeOK, EventTypeOK
<1>1. \A p \in Pixmaps : Owed(p) \in Nat
  BY OwedType
<1>2. \A p \in Pixmaps : Completes(e, p) <=> p \in listed /\ e \in CompletesOf(p)
  BY CompletesAre
<1>3. /\ \A p \in Pixmaps : completePending'[p] =
           IF Completes(e, p) THEN completePending[p] - 1 ELSE completePending[p]
      /\ pending' = IF \E p \in Pixmaps : Completes(e, p) THEN pending - 1 ELSE pending
  BY DEF PRESENThandle_events
<1>4. ASSUME NEW p \in Pixmaps, e \in CompletesOf(p)
      PROVE  p \in listed
  BY <1>1, <1>4 DEF CountInvariant
<1>5. ASSUME NEW p \in listed'
      PROVE  completePending'[p] >= Owed(p)'
  BY <1>0, <1>1, <1>2, <1>3, <1>5 DEF CountInvariant
<1>6. ASSUME Calm', NEW p \in listed'
      PROVE  completePending'[p] = Owed(p)'
  BY <1>0, <1>1, <1>2, <1>3, <1>6 DEF CountInvariant
<1>7. ASSUME NEW p \in Pixmaps, p \notin listed'
      PROVE  Owed(p)' = 0
  BY <1>1, <1>4, <1>7 DEF CountInvariant
<1>8. IsFiniteSet(Outstanding') /\ pending' = Cardinality(Outstanding')
  <2>1. CASE \A p \in Pixmaps : ~Completes(e, p)
    <3>1. Outstanding' = Outstanding
      BY <1>0, <1>3, <2>1, OutstandingSame
    <3>2. QED
      BY <1>3, <2>1, <3>1 DEF CountInvariant
  <2>2. ASSUME NEW p \in Pixmaps, Completes(e, p)
        PROVE  IsFiniteSet(Outstanding') /\ pending' = Cardinality(Outstanding')
    <3>1. p \in listed /\ e \in CompletesOf(p)
      BY <1>2, <2>2
    <3>2. \A q \in Pixmaps : q # p => ~Completes(e, q)
      BY <1>2, <3>1, EventKinds
    <3>3. completePending[p] \in Nat \ {0}
      BY <1>0, <1>1, <3>1 DEF CountInvariant
    <3>4. /\ completePending'[p] = completePending[p] - 1 /\ pending' = pending - 1
          /\ \A q \in listed : q # p => completePending'[q] = completePending[q]
      BY <1>0, <1>3, <2>2, <3>2
    <3>5. IsFiniteSet(Outstanding') /\ Cardinality(Outstanding') = Cardinality(Outstanding) - 1
      BY <3>1, <3>3, <3>4, OutstandingLess DEF CountInvariant
    <3>6. QED
      BY <3>4, <3>5 DEF CountInvariant
  <2>3. QED
    BY <2>1, <2>2
<1>9. QED
  BY <1>5, <1>6, <1>7, <1>8 DEF CountInvariant

LEMMA CountRead ==
  ASSUME CountContext, WaitEvent
  PROVE  CountInvariant'
<1>1. /\ Receive /\ PRESENThandle_events(Received)
      /\ UNCHANGED <<held, hand, listed, alive, connected>>
  BY DEF WaitEvent, requestVars, windowVars, deviceVars, argVars
<1>2. Calm' => Calm
  BY <1>1 DEF Calm
<1>3. \A p \in Pixmaps : /\ Owed(p)' \in Nat
                         /\ Owed(p)' = Owed(p) - (IF Received \in CompletesOf(p) THEN 1 ELSE 0)
  BY <1>1, OwedRead DEF CountContext
<1>4. QED
  BY <1>1, <1>2, <1>3, CountHandled

LEMMA CountServer ==
  ASSUME CountContext, Server
  PROVE  CountInvariant'
<1>1. PICK evs \in Seq(Events) : Sends(evs)
  BY ServerSends DEF Sent, CountContext
<1>2. UNCHANGED <<listed, pending, completePending, hand>>
  BY DEF Server, eventVars, deviceVars, argVars
<1>3. Calm' => Calm /\ \A p \in Pixmaps : held[p] = "pending" => heldOn[p] = special
  BY <1>1 DEF Sends, CountContext, OrderInvariant
<1>4. listed \subseteq Pixmaps
  BY DEF CountContext, TypeOK, DeviceTypeOK
<1>5. \A p \in Pixmaps : /\ Owed(p)' \in Nat /\ Owed(p)' <= Owed(p)
                         /\ Calm' => Owed(p)' = Owed(p)
  BY <1>1, <1>2, <1>3, OwedSent DEF CountContext
<1>6. QED
  BY <1>2, <1>3, <1>4, <1>5, CountKept

LEMMA CountCall ==
  ASSUME CountContext, NEW t \in Threads, Call(t)
  PROVE  CountInvariant'
<1> USE DEF serverVars, requestVars, windowVars, deviceVars, lockVars, argVars, eventVars
<1>1. CASE PRESENTInit(t)
  <2>1. UNCHANGED <<listed, pending, completePending, held, queue, hand>> /\ listed = {}
    BY <1>1 DEF PRESENTInit, CountContext, SpecialInvariant
  <2>2. \A p \in Pixmaps : Owed(p)' = Owed(p)
    BY <2>1, OwedSame
  <2>3. Outstanding' = Outstanding
    BY <2>1, OutstandingSame
  <2>4. QED
    BY <2>1, <2>2, <2>3 DEF CountContext, CountInvariant
<1>2. ASSUME NEW p \in Pixmaps, PRESENTPixmapInit(t, p)
      PROVE  CountInvariant'
  <2>1. /\ p \notin listed /\ listed' = listed \cup {p} /\ UNCHANGED <<pending, held, queue, hand>>
        /\ completePending' = [completePending EXCEPT ![p] = 0]
        /\ UNCHANGED <<alive, connected>>
    BY <1>2 DEF PRESENTPixmapInit
  <2>2. completePending'[p] = 0 /\ \A q \in Pixmaps : q # p => completePending'[q] = completePending[q]
    BY <2>1 DEF CountContext, TypeOK, EventTypeOK
  <2>3. \A q \in Pixmaps : Owed(q)' = Owed(q)
    BY <2>1, OwedSame
  <2>4. Owed(p) = 0 /\ listed \subseteq Pixmaps /\ (Calm' => Calm)
    BY <2>1 DEF CountContext, CountInvariant, TypeOK, DeviceTypeOK, Calm
  <2>5. Outstanding' = Outstanding
    BY <2>1, <2>2, <2>4, OutstandingSame
  <2>6. QED
    BY <2>1, <2>2, <2>3, <2>4, <2>5 DEF CountContext, CountInvariant
<1>3. ASSUME NEW p \in Pixmaps, PRESENTTryFreePixmap(t, p)
      PROVE  CountInvariant'
  <2>1. /\ UNCHANGED <<pending, completePending, held, queue, hand, alive, connected>>
        /\ listed' = listed \/ (completePending[p] = 0 /\ listed' = listed \ {p})
    BY <1>3 DEF PRESENTTryFreePixmap, Freeable
  <2>2. \A q \in Pixmaps : Owed(q)' = Owed(q)
    BY <2>1, OwedSame
  <2>3. completePending[p] = 0 => Owed(p) = 0
    <3>1. Owed(p) \in Nat
      BY OwedType DEF CountContext
    <3>2. QED
      BY <3>1 DEF CountContext, CountInvariant
  <2>4. Outstanding' = Outstanding
    BY <2>1, OutstandingSame
  <2>5. Calm' => Calm
    BY <2>1 DEF Calm
  <2>6. \A q \in listed' : q \in listed
    BY <2>1
  <2>7. \A q \in Pixmaps \ listed' : q \notin listed \/ Owed(q) = 0
    BY <2>1, <2>3
  <2>8. listed \subseteq Pixmaps /\ listed' \subseteq Pixmaps
    BY <2>6 DEF CountContext, TypeOK, DeviceTypeOK
  <2>9. \A q \in Pixmaps \ listed' : Owed(q)' = 0
    BY <2>2, <2>7 DEF CountContext, CountInvariant
  <2>10. \A q \in listed' : completePending'[q] >= Owed(q)'
    BY <2>1, <2>2, <2>6, <2>8 DEF CountContext, CountInvariant
  <2>11. Calm' => \A q \in listed' : completePending'[q] = Owed(q)'
    BY <2>1, <2>2, <2>5, <2>6, <2>8 DEF CountContext, CountInvariant
  <2>12. QED
    BY <2>1, <2>4, <2>9, <2>10, <2>11 DEF CountContext, CountInvariant
<1>4. CASE ~PRESENTInit(t) /\ \A p \in Pixmaps : ~PRESENTPixmapInit(t, p) /\ ~PRESENTTryFreePixmap(t, p)
  <2>1. UNCHANGED <<listed, pending, completePending, held, queue, hand, alive, connected>>
    BY <1>4 DEF Call, BeginPresentBuffer, BeginWaitBuffer, BeginWaitEvent, BeginIsReleased,
       BeginDestroy
  <2>2. Calm' => Calm
    BY <2>1 DEF Calm
  <2>3. QED
    BY <2>1, <2>2, CountStutter
<1>5. QED
  BY <1>1, <1>2, <1>3, <1>4

LEMMA CountPresent ==
  ASSUME CountContext, NEW t \in Threads, PRESENTPixmap(t)
  PROVE  CountInvariant'
<1> USE DEF windowVars, deviceVars
<1>1. CASE dest[t] \in alive /\ connected
  <2>0. PICK p \in Pixmaps : p = buf[t]
    BY Presented DEF CountContext, PRESENTPixmap
  <2>1. /\ pc[t] = "pixmap" /\ UNCHANGED <<queue, hand, listed, alive, connected>>
        /\ held' = [held EXCEPT ![p] = "pending"]
        /\ pending' = pending + 1
        /\ completePending' = [completePending EXCEPT ![p] = @ + 1]
    BY <1>1, <2>0 DEF PRESENTPixmap
  <2>2. p \in listed /\ held[p] = "none"
    BY <2>0, <2>1, Presented DEF CountContext, BufferInvariant, BufferOK
  <2>3. /\ completePending'[p] = completePending[p] + 1
        /\ \A q \in Pixmaps : q # p => completePending'[q] = completePending[q]
        /\ held'[p] = "pending" /\ \A q \in Pixmaps : q # p => held'[q] = held[q]
    BY <2>1, <2>2 DEF CountContext, TypeOK, EventTypeOK, ServerTypeOK
  <2>4. \A q \in Pixmaps : Owed(q) \in Nat
    BY OwedType DEF CountContext
  <2>5. Owed(p)' = Owed(p) + 1
    <3> DEFINE n == Num(queue, CompletesOf(p))
               h == HandNum(hand, CompletesOf(p))
    <3>1. n \in Nat /\ h \in {0, 1} /\ Pending(p) = 0
      BY <2>2, OwedType DEF CountContext, Pending
    <3>2. Owed(p) = Pending(p) + (n + h)
      BY DEF Owed
    <3>3. Owed(p)' = (IF held'[p] = "pending" THEN 1 ELSE 0) + (n + h)
      BY <2>1, <2>2, OwedNext
    <3> HIDE DEF n, h
    <3>4. QED
      BY <2>3, <3>1, <3>2, <3>3
  <2>6. \A q \in Pixmaps : q # p => Owed(q)' = Owed(q)
    BY <2>1, <2>3, OwedNext DEF Owed, Pending
  <2>7. listed \subseteq Pixmaps /\ (Calm' => Calm) /\ \A q \in Pixmaps : completePending[q] \in Int
    BY <2>1 DEF CountContext, TypeOK, DeviceTypeOK, EventTypeOK, Calm
  <2>8. completePending[p] \in Nat
    BY <2>2, <2>4, <2>7 DEF CountContext, CountInvariant
  <2>9. IsFiniteSet(Outstanding') /\ Cardinality(Outstanding') = Cardinality(Outstanding) + 1
    BY <2>1, <2>2, <2>3, <2>7, <2>8, OutstandingMore DEF CountContext, CountInvariant
  <2>10. \A q \in listed' : completePending'[q] >= Owed(q)'
    <3>1. ASSUME NEW q \in listed', q # p
          PROVE  completePending'[q] >= Owed(q)'
      BY <2>1, <2>3, <2>6, <2>7, <3>1 DEF CountContext, CountInvariant
    <3>2. completePending'[p] >= Owed(p)'
      BY <2>2, <2>3, <2>4, <2>5, <2>7 DEF CountContext, CountInvariant
    <3>3. QED
      BY <3>1, <3>2
  <2>11. Calm' => \A q \in listed' : completePending'[q] = Owed(q)'
    <3>1. ASSUME NEW q \in listed', Calm', q # p
          PROVE  completePending'[q] = Owed(q)'
      BY <2>1, <2>3, <2>6, <2>7, <3>1 DEF CountContext, CountInvariant
    <3>2. Calm' => completePending'[p] = Owed(p)'
      BY <2>2, <2>3, <2>4, <2>5, <2>7 DEF CountContext, CountInvariant
    <3>3. QED
      BY <3>1, <3>2
  <2>12. \A q \in Pixmaps \ listed' : Owed(q)' = 0
    BY <2>1, <2>2, <2>6 DEF CountContext, CountInvariant
  <2>13. QED
    BY <2>1, <2>9, <2>10, <2>11, <2>12 DEF CountContext, CountInvariant
<1>2. CASE ~(dest[t] \in alive /\ connected)
  <2>1. UNCHANGED <<listed, pending, completePending, held, queue, hand, alive, connected>>
    BY <1>2 DEF PRESENTPixmap
  <2>2. Calm' => Calm
    BY <2>1 DEF Calm
  <2>3. QED
    BY <2>1, <2>2, CountStutter
<1>3. QED
  BY <1>1, <1>2

LEMMA CountDestroy ==
  ASSUME CountContext, NEW t \in Threads, PRESENTDestroy(t)
  PROVE  CountInvariant'
<1>1. /\ pc[t] = "free" /\ listed' = {} /\ pending' = 0 /\ queue' = <<>> /\ hand' = hand
      /\ held' = [p \in Pixmaps |-> "none"]
  BY DEF PRESENTDestroy, argVars
<1>2. \A u \in Threads : pc[u] # "got"
  BY <1>1 DEF CountContext, CallInvariant, ForcePCs
<1>3. \A p \in Pixmaps : Owed(p)' = 0
  <2>1. TAKE p \in Pixmaps
  <2>2. Num(queue', CompletesOf(p)) = 0
    <3>1. \A i \in 1..Len(queue') : queue'[i] \notin CompletesOf(p)
      BY <1>1
    <3>2. QED
      BY <3>1, NumFew
  <2>3. HandNum(hand, CompletesOf(p)) = 0
    <3>1. \A u \in Threads : hand[u] \notin CompletesOf(p)
      BY <1>2, GotAlone DEF CountContext
    <3>2. QED
      BY <3>1, NoHand
  <2>4. held'[p] # "pending"
    BY <1>1
  <2>5. Owed(p)' = 0 + (0 + 0)
    BY <1>1, <2>2, <2>3, <2>4, OwedNext
  <2>6. QED
    BY <2>5
<1>4. Outstanding' = {}
  BY <1>1 DEF Outstanding
<1>5. QED
  BY <1>1, <1>3, <1>4, FS_EmptySet DEF CountInvariant

LEMMA CountContinue ==
  ASSUME CountContext, NEW t \in Threads, Continue(t)
  PROVE  CountInvariant'
<1> USE DEF serverVars, requestVars, windowVars, deviceVars, lockVars, argVars, eventVars
<1>0. listed \subseteq Pixmaps
  BY DEF CountContext, TypeOK, DeviceTypeOK
<1>1. CASE FlushEvent(t)
  <2>1. /\ Receive /\ PRESENThandle_events(Received)
        /\ UNCHANGED <<held, hand, listed, alive, connected>>
    BY <1>1 DEF FlushEvent, Receive, Received
  <2>2. Calm' => Calm
    BY <2>1 DEF Calm
  <2>3. \A p \in Pixmaps : /\ Owed(p)' \in Nat
                           /\ Owed(p)' = Owed(p) - (IF Received \in CompletesOf(p) THEN 1 ELSE 0)
    BY <2>1, OwedRead DEF CountContext
  <2>4. QED
    BY <2>1, <2>2, <2>3, CountHandled
<1>2. CASE ForceReleases(t)
  <2>1. CASE WaitEvent
    BY <2>1, CountRead
  <2>2. CASE ~WaitEvent
    <3>1. UNCHANGED <<listed, pending, completePending, held, queue, hand, alive, connected>>
      BY <1>2, <2>2 DEF ForceReleases, ForceBegin, ForceHandshake, ForceDrain, ForceNotify,
         ForceWalk, ForcePixmap, ForceWait, ForceEnd
    <3>2. Calm' => Calm
      BY <3>1 DEF Calm
    <3>3. QED
      BY <3>1, <3>2, CountStutter
  <2>3. QED
    BY <2>1, <2>2
<1>3. CASE PRESENTPrivChangeWindow(t)
  <2>1. /\ pc[t] = "change" /\ queue' = <<>>
        /\ UNCHANGED <<listed, pending, completePending, held, hand, alive, connected>>
    BY <1>3 DEF PRESENTPrivChangeWindow
  <2>2. Calm' => Calm
    BY <2>1 DEF Calm
  <2>3. Calm => NoCompleteQueued
    BY <2>1 DEF CountContext, OrderInvariant
  <2>4. \A p \in Pixmaps : /\ Owed(p)' \in Nat /\ Owed(p)' <= Owed(p)
                           /\ Calm => Owed(p)' = Owed(p)
    BY <2>1, <2>3, OwedDropped DEF CountContext, NoCompleteQueued
  <2>5. QED
    BY <1>0, <2>1, <2>2, <2>4, CountKept
<1>4. CASE PRESENTPixmap(t)
  BY <1>4, CountPresent
<1>5. CASE TakeEvent(t)
  <2>1. /\ pc[t] = "xcb" /\ Receive /\ hand' = [hand EXCEPT ![t] = Received]
        /\ UNCHANGED <<listed, pending, completePending, held, alive, connected>>
    BY <1>5 DEF TakeEvent
  <2>2. Calm' => Calm
    BY <2>1 DEF Calm
  <2>3. \A p \in Pixmaps : Owed(p)' = Owed(p) /\ Owed(p) \in Nat
    BY <2>1, OwedTaken, OwedType DEF CountContext
  <2>4. QED
    BY <1>0, <2>1, <2>2, <2>3, CountKept
<1>6. CASE HandleTaken(t)
  <2>1. /\ pc[t] = "got" /\ PRESENThandle_events(hand[t])
        /\ hand' = [hand EXCEPT ![t] = NullEvent]
        /\ UNCHANGED <<held, queue, listed, alive, connected>>
    BY <1>6 DEF HandleTaken
  <2>2. Calm' => Calm
    BY <2>1 DEF Calm
  <2>3. \A p \in Pixmaps : /\ Owed(p)' \in Nat
                           /\ Owed(p)' = Owed(p) - (IF hand[t] \in CompletesOf(p) THEN 1 ELSE 0)
    BY <2>1, OwedHandled DEF CountContext
  <2>4. PICK e : e = hand[t]
    OBVIOUS
  <2>5. QED
    BY <2>1, <2>2, <2>3, <2>4, CountHandled
<1>7. CASE PRESENTDestroy(t)
  BY <1>7, CountDestroy
<1>8. CASE \/ PRESENTPixmapPrepare(t) \/ ChangeWindowSelect(t) \/ PrepareEnd(t) \/ WaitLock(t)
           \/ WaitFlushEnd(t) \/ WaitReturn(t) \/ WaitBehind(t) \/ WaitWake(t)
           \/ PRESENTwait_events(t) \/ PRESENTIsPixmapReleased(t)
  <2>1. UNCHANGED <<listed, pending, completePending, held, queue, hand, alive, connected>>
    BY <1>8 DEF PRESENTPixmapPrepare, ChangeWindowSelect, PrepareEnd, WaitLock, WaitFlushEnd,
       WaitReturn, WaitBehind, WaitWake, PRESENTwait_events, PRESENTIsPixmapReleased
  <2>2. Calm' => Calm
    BY <2>1 DEF Calm
  <2>3. QED
    BY <2>1, <2>2, CountStutter
<1>9. QED
  BY <1>1, <1>2, <1>3, <1>4, <1>5, <1>6, <1>7, <1>8 DEF Continue

LEMMA CountStep == CountContext /\ [Next]_vars => CountInvariant'
<1>1. ASSUME CountContext, UNCHANGED vars
      PROVE  CountInvariant'
  <2>1. UNCHANGED <<listed, pending, completePending, held, queue, hand, alive, connected>>
    BY <1>1 DEF vars, serverVars, requestVars, windowVars, eventVars, deviceVars, argVars
  <2>2. Calm' => Calm
    BY <2>1 DEF Calm
  <2>3. QED
    BY <1>1, <2>1, <2>2, CountStutter
<1>2. QED
  BY <1>1, CountServer, CountCall, CountContinue DEF Next

---------------------------------------------------------------------------
(* The order of what is sent, while nothing is lost.                       *)

OrderContext == CountContext /\ WindowInvariant /\ SerialInvariant

\* Where a thread knows that nothing is pending.
Clear(t) ==
  \/ pc[t] \in {"dflush", "walk", "forced", "fflush", "change"}
  \/ pc[t] = "serial" /\ ~notifySerial

LEMMA OrderInit == Init => OrderInvariant
BY DEF Init, ServerInit, OrderInvariant

\* What was not in the queue is not in what is left of it.
LEMMA ClearShrinks ==
  ASSUME queue \in Seq(Events), Shrinks, NoCompleteQueued
  PROVE  \A p \in Pixmaps, i \in 1..Len(queue') : queue'[i] \notin CompletesOf(p)
BY ShrunkQueue DEF NoCompleteQueued

\* The same formulas after a step.
LEMMA ClearNext ==
  /\ NothingPending' <=> \A p \in Pixmaps : held'[p] # "pending"
  /\ NoCompleteQueued' <=>
       \A p \in Pixmaps, i \in 1..Len(queue') : queue'[i] \notin CompletesOf(p)
  /\ (\A i \in 1..Len(queue) : queue[i] = NotifyEvent(1) =>
       /\ NothingPending
       /\ \A p \in Pixmaps, j \in i..Len(queue) : queue[j] \notin CompletesOf(p))'
     <=> \A i \in 1..Len(queue') : queue'[i] = NotifyEvent(1) =>
           /\ NothingPending'
           /\ \A p \in Pixmaps, j \in i..Len(queue') : queue'[j] \notin CompletesOf(p)
BY DEF NothingPending, NoCompleteQueued, CompletesOf, CompleteEvent, NotifyEvent

LEMMA OrderNext ==
  ASSUME \A u \in Threads : pc'[u] \in {"pflush", "pixmap"} => window' = dest'[u],
         \A p \in Pixmaps : held'[p] = "pending" => heldOn'[p] = special',
         \A i \in 1..Len(queue') : queue'[i] = NotifyEvent(1) =>
           /\ \A p \in Pixmaps : held'[p] # "pending"
           /\ \A p \in Pixmaps, j \in i..Len(queue') : queue'[j] \notin CompletesOf(p),
         \A u \in Threads : Clear(u)' =>
           /\ \A p \in Pixmaps : held'[p] # "pending"
           /\ \A p \in Pixmaps, i \in 1..Len(queue') : queue'[i] \notin CompletesOf(p)
  PROVE  OrderInvariant'
BY ClearNext DEF OrderInvariant, Clear

\* A step of one thread that leaves the windows and the server alone.
LEMMA OrderKept ==
  ASSUME TypeOK, OrderInvariant, Shrinks, UNCHANGED <<special, window, held, heldOn>>,
         NEW t \in Threads,
         \A u \in Threads : u # t => pc'[u] = pc[u] /\ dest'[u] = dest[u] /\ pc[u] # "serial",
         pc'[t] \in {"pflush", "pixmap"} => window = dest'[t],
         Clear(t)' => NothingPending /\ NoCompleteQueued
  PROVE  OrderInvariant'
<1>1. queue \in Seq(Events)
  BY DEF TypeOK, ServerTypeOK
<1>2. \A u \in Threads : pc'[u] \in {"pflush", "pixmap"} => window' = dest'[u]
  BY DEF OrderInvariant
<1>3. \A p \in Pixmaps : held'[p] = "pending" => heldOn'[p] = special'
  BY DEF OrderInvariant
<1>4. ASSUME NEW i \in 1..Len(queue'), queue'[i] = NotifyEvent(1)
      PROVE  /\ \A p \in Pixmaps : held'[p] # "pending"
             /\ \A p \in Pixmaps, j \in i..Len(queue') : queue'[j] \notin CompletesOf(p)
  <2>1. PICK d \in Nat : \A k \in 1..Len(queue') :
                           k + d \in 1..Len(queue) /\ queue'[k] = queue[k + d]
    BY <1>1, ShrunkQueue
  <2>2. /\ NothingPending
        /\ \A p \in Pixmaps, j \in (i + d)..Len(queue) : queue[j] \notin CompletesOf(p)
    BY <1>4, <2>1 DEF OrderInvariant
  <2>3. Len(queue') \in Nat
    BY <1>1 DEF Shrinks
  <2>4. ASSUME NEW p \in Pixmaps, NEW j \in i..Len(queue')
        PROVE  queue'[j] \notin CompletesOf(p)
    <3>1. j \in 1..Len(queue') /\ j + d \in (i + d)..Len(queue)
      BY <2>1, <2>3
    <3>2. QED
      BY <2>1, <2>2, <3>1
  <2>5. QED
    BY <2>2, <2>4 DEF NothingPending
<1>5. \A u \in Threads : u # t /\ Clear(u)' => Clear(u)
  BY DEF Clear
<1>6. \A u \in Threads : Clear(u)' => NothingPending /\ NoCompleteQueued
  BY <1>5 DEF OrderInvariant, Clear
<1>7. \A u \in Threads : Clear(u)' =>
        /\ \A p \in Pixmaps : held'[p] # "pending"
        /\ \A p \in Pixmaps, i \in 1..Len(queue') : queue'[i] \notin CompletesOf(p)
  BY <1>1, <1>6, ClearShrinks DEF NothingPending
<1>8. QED
  BY <1>2, <1>3, <1>4, <1>7, OrderNext

LEMMA OrderServer ==
  ASSUME OrderContext, Server, Calm'
  PROVE  OrderInvariant'
<1>1. PICK evs \in Seq(Events) : Sends(evs)
  BY ServerSends DEF Sent, OrderContext, CountContext
<1>2. UNCHANGED <<pc, notifySerial, window, dest>>
  BY DEF Server, eventVars, deviceVars, argVars
<1>3. OrderInvariant
  BY <1>1 DEF OrderContext, CountContext, Sends
<1>4. queue \in Seq(Events) /\ queue' = queue \o evs /\ UNCHANGED <<special, heldOn>>
  BY <1>1 DEF OrderContext, CountContext, TypeOK, ServerTypeOK, Sends
<1>5. /\ Len(queue) \in Nat /\ Len(evs) \in Nat /\ Len(queue') = Len(queue) + Len(evs)
      /\ \A i \in 1..Len(queue) : queue'[i] = queue[i]
      /\ \A i \in 1..Len(queue') : i \notin 1..Len(queue) =>
           i - Len(queue) \in 1..Len(evs) /\ queue'[i] = evs[i - Len(queue)]
  BY <1>4, CatElements
<1>6. /\ \A p \in Pixmaps : held'[p] = "pending" => held[p] = "pending"
      /\ \A p \in Pixmaps, i \in 1..Len(evs) : evs[i] \in CompletesOf(p) => held[p] = "pending"
      /\ \A i \in 1..Len(evs) : evs[i] = NotifyEvent(1) =>
           /\ Len(evs) = 1 /\ held' = held
           /\ \A p \in Pixmaps : heldOn[p] = special => held[p] # "pending"
  BY <1>1 DEF Sends
<1>7. \A u \in Threads : pc'[u] \in {"pflush", "pixmap"} => window' = dest'[u]
  BY <1>2, <1>3 DEF OrderInvariant
<1>8. \A p \in Pixmaps : held'[p] = "pending" => heldOn'[p] = special'
  BY <1>3, <1>4, <1>6 DEF OrderInvariant
<1>9. ASSUME NEW i \in 1..Len(queue'), queue'[i] = NotifyEvent(1)
      PROVE  /\ \A p \in Pixmaps : held'[p] # "pending"
             /\ \A p \in Pixmaps, j \in i..Len(queue') : queue'[j] \notin CompletesOf(p)
  <2>1. CASE i \in 1..Len(queue)
    <3>1. /\ NothingPending
          /\ \A p \in Pixmaps, j \in i..Len(queue) : queue[j] \notin CompletesOf(p)
      BY <1>3, <1>5, <1>9, <2>1 DEF OrderInvariant
    <3>2. ASSUME NEW p \in Pixmaps, NEW j \in i..Len(queue')
          PROVE  queue'[j] \notin CompletesOf(p)
      <4>1. CASE j \in 1..Len(queue)
        BY <1>5, <2>1, <3>1, <4>1
      <4>2. CASE j \notin 1..Len(queue)
        <5>1. j \in 1..Len(queue')
          BY <1>5, <2>1
        <5>2. QED
          BY <1>5, <1>6, <3>1, <4>2, <5>1 DEF NothingPending
      <4>3. QED
        BY <4>1, <4>2
    <3>3. QED
      BY <1>6, <3>1, <3>2 DEF NothingPending
  <2>2. CASE i \notin 1..Len(queue)
    <3>1. i - Len(queue) \in 1..Len(evs) /\ evs[i - Len(queue)] = NotifyEvent(1)
      BY <1>5, <1>9, <2>2
    <3>2. /\ Len(evs) = 1 /\ held' = held
          /\ \A p \in Pixmaps : heldOn[p] = special => held[p] # "pending"
      BY <1>6, <3>1
    <3>3. \A p \in Pixmaps : held'[p] # "pending"
      BY <1>3, <3>2 DEF OrderInvariant
    <3>4. \A j \in i..Len(queue') : j = i
      BY <1>5, <3>1, <3>2
    <3>5. QED
      BY <1>9, <3>3, <3>4, EventKinds
  <2>3. QED
    BY <2>1, <2>2
<1>10. ASSUME NEW u \in Threads, Clear(u)'
       PROVE  /\ \A p \in Pixmaps : held'[p] # "pending"
              /\ \A p \in Pixmaps, i \in 1..Len(queue') : queue'[i] \notin CompletesOf(p)
  <2>1. NothingPending /\ NoCompleteQueued
    BY <1>2, <1>3, <1>10 DEF OrderInvariant, Clear
  <2>2. ASSUME NEW p \in Pixmaps, NEW i \in 1..Len(queue')
        PROVE  queue'[i] \notin CompletesOf(p)
    BY <1>5, <1>6, <2>1 DEF NothingPending, NoCompleteQueued
  <2>3. QED
    BY <1>6, <2>1, <2>2 DEF NothingPending
<1>11. QED
  BY <1>7, <1>8, <1>9, <1>10, OrderNext

\* A step beside PRESENTForceReleases.
LEMMA OrderWaits ==
  ASSUME TypeOK, OrderInvariant, NEW t \in Threads, Waits(t)
  PROVE  OrderInvariant'
<1>1. /\ UNCHANGED <<special, queue, held, heldOn, window, notifySerial>>
      /\ pc'[t] \in {"prepare", "wait"}
      /\ \A u \in Threads : u # t => pc'[u] = pc[u] /\ dest'[u] = dest[u]
  BY DEF Waits, TypeOK, ThreadTypeOK
<1>2. \A u \in Threads : pc'[u] \in {"pflush", "pixmap"} => window' = dest'[u]
  BY <1>1 DEF OrderInvariant
<1>3. \A p \in Pixmaps : held'[p] = "pending" => heldOn'[p] = special'
  BY <1>1 DEF OrderInvariant
<1>4. \A i \in 1..Len(queue') : queue'[i] = NotifyEvent(1) =>
        /\ \A p \in Pixmaps : held'[p] # "pending"
        /\ \A p \in Pixmaps, j \in i..Len(queue') : queue'[j] \notin CompletesOf(p)
  BY <1>1 DEF OrderInvariant, NothingPending
<1>5. \A u \in Threads : Clear(u)' => NothingPending /\ NoCompleteQueued
  BY <1>1 DEF OrderInvariant, Clear
<1>6. \A u \in Threads : Clear(u)' =>
        /\ \A p \in Pixmaps : held'[p] # "pending"
        /\ \A p \in Pixmaps, i \in 1..Len(queue') : queue'[i] \notin CompletesOf(p)
  BY <1>1, <1>5 DEF NothingPending, NoCompleteQueued
<1>7. QED
  BY <1>2, <1>3, <1>4, <1>6, OrderNext

\* Nobody else is past the handshake of PRESENTForceReleases.
NobodyInner(t) == \A u \in Threads : u # t => pc[u] \notin Inner

\* A device is created.
LEMMA OrderCreated ==
  ASSUME OrderContext, NEW t \in Threads, PRESENTInit(t)
  PROVE  OrderInvariant'
<1>1. /\ device = "absent" /\ pc' = pc /\ UNCHANGED <<held, queue>>
  BY DEF PRESENTInit, requestVars
<1>2. /\ listed = {} /\ special = NoWindow /\ \A u \in Threads : pc[u] = "idle"
  BY <1>1 DEF OrderContext, CountContext, SpecialInvariant
<1>3. queue = <<>>
  BY <1>2 DEF OrderContext, CountContext, SpecialInvariant
<1>4. \A p \in Pixmaps : held'[p] # "pending"
  BY <1>1, <1>2 DEF OrderContext, CountContext, BufferInvariant, BufferOK
<1>5. \A i \in 1..Len(queue') : FALSE
  BY <1>1, <1>3
<1>6. QED
  BY <1>1, <1>2, <1>4, <1>5, OrderNext

LEMMA OrderCall ==
  ASSUME OrderContext, OrderInvariant, NEW t \in Threads, NobodyInner(t), Call(t), ~PRESENTInit(t)
  PROVE  OrderInvariant'
<1> USE DEF serverVars, requestVars, deviceVars, lockVars, argVars, eventVars, Goto, NobodyInner,
        Inner, ForcePCs
<1>1. TypeOK /\ pc \in [Threads -> PCs] /\ dest \in [Threads -> Windows \cup {NoWindow}]
  BY DEF OrderContext, CountContext, TypeOK, ThreadTypeOK
<1>2. /\ UNCHANGED <<special, window, held, heldOn, queue>>
      /\ \A u \in Threads : u # t => pc'[u] = pc[u] /\ dest'[u] = dest[u]
      /\ pc[t] = "idle"
      /\ pc'[t] \in {"idle", "prepare", "wait", "rflush", "force"}
  BY <1>1 DEF Call, PRESENTPixmapInit, PRESENTTryFreePixmap, BeginPresentBuffer, BeginWaitBuffer,
     BeginWaitEvent, BeginIsReleased, BeginDestroy
<1>3. Shrinks
  BY <1>2 DEF Shrinks
<1>4. ~Clear(t)'
  BY <1>2 DEF Clear
<1>5. QED
  BY <1>1, <1>2, <1>3, <1>4, OrderKept

\* A binding that failed leaves nothing pending.
LEMMA NothingUnbound ==
  ASSUME OrderContext, OrderInvariant, special = NoWindow
  PROVE  NothingPending /\ NoCompleteQueued
<1>1. queue = <<>> /\ \A p \in Pixmaps : held[p] # "none" => heldOn[p] \in Windows
  BY DEF OrderContext, CountContext, SpecialInvariant
<1>2. NothingPending
  BY <1>1, ServerAssumption DEF OrderInvariant, NothingPending
<1>3. QED
  BY <1>1, <1>2 DEF NoCompleteQueued

\* The answer with serial 1 is read: nothing is behind it.
LEMMA AnswerRead ==
  ASSUME OrderContext, OrderInvariant, WaitEvent, notifySerial, ~notifySerial'
  PROVE  NothingPending /\ NoCompleteQueued
<1>1. Receive /\ Received = NotifyEvent(1)
  BY DEF WaitEvent, PRESENThandle_events
<1>2. queue # <<>> /\ Received = Head(queue)
  BY <1>1 DEF Received, NullEvent, NotifyEvent
<1>3. queue[1] = NotifyEvent(1) /\ 1 \in 1..Len(queue)
  BY <1>1, <1>2, TailElements DEF OrderContext, CountContext, TypeOK, ServerTypeOK
<1>4. NothingPending /\ \A p \in Pixmaps, j \in 1..Len(queue) : queue[j] \notin CompletesOf(p)
  BY <1>3 DEF OrderInvariant
<1>5. QED
  BY <1>4 DEF NoCompleteQueued

LEMMA OrderForce ==
  ASSUME OrderContext, OrderInvariant, NEW t \in Threads, NobodyInner(t), ForceReleases(t)
  PROVE  OrderInvariant'
<1> USE DEF serverVars, requestVars, deviceVars, lockVars, argVars, eventVars, Goto, ForcePCs
<1>1. TypeOK /\ pc \in [Threads -> PCs] /\ NobodyInner(t) /\ (Clear(t) => NothingPending /\ NoCompleteQueued)
  BY DEF OrderContext, CountContext, TypeOK, ThreadTypeOK, OrderInvariant, Clear
<1>2. /\ UNCHANGED <<special, window, held, heldOn, dest>>
      /\ \A u \in Threads : u # t => pc'[u] = pc[u] /\ pc[u] # "serial"
  BY <1>1 DEF ForceReleases, ForceBegin, ForceHandshake, ForceDrain, WaitEvent, ForceNotify,
     ForceWalk, ForcePixmap, ForceWait, ForceEnd, NobodyInner, Inner
<1>3. Shrinks
  BY QueueShrinks DEF Continue
<1>4. Clear(t)' => NothingPending /\ NoCompleteQueued
  <2>1. CASE ForceBegin(t) \/ ForceHandshake(t) \/ ForceNotify(t)
    <3>1. pc'[t] \in {"handshake", "drain", "drain1"} \/ (pc'[t] = "serial" /\ notifySerial')
      BY <1>1, <2>1 DEF ForceBegin, ForceHandshake, ForceNotify
    <3>2. QED
      BY <3>1 DEF Clear
  <2>2. CASE ForceDrain(t)
    <3>1. CASE WaitEvent /\ pc' = pc
      <4>1. CASE pc[t] = "serial" /\ notifySerial
        BY <3>1, <4>1, AnswerRead DEF Clear
      <4>2. CASE pc[t] \in {"drain", "drain1"}
        BY <3>1, <4>2 DEF Clear
      <4>3. QED
        BY <2>2, <4>1, <4>2 DEF ForceDrain
    <3>2. CASE pc[t] = "drain" /\ pending = 0
      BY <3>2, CountZero DEF OrderContext, CountContext
    <3>3. CASE pc'[t] = "d1flush"
      BY <3>3 DEF Clear
    <3>4. QED
      BY <1>1, <2>2, <3>1, <3>2, <3>3 DEF ForceDrain
  <2>3. CASE ForceWalk(t) \/ (\E p \in Pixmaps : ForcePixmap(t, p)) \/ ForceWait(t)
    BY <1>1, <2>3 DEF ForceWalk, ForcePixmap, ForceWait, Clear
  <2>4. CASE ForceEnd(t)
    <3>1. CASE pc[t] = "walk"
      BY <1>1, <3>1 DEF Clear
    <3>2. CASE pc[t] = "force" /\ window = NoWindow
      <4>1. \A u \in Threads : pc[u] # "select"
        BY <3>2 DEF OrderContext, CountContext, LockProtocol, Critical
      <4>2. special = NoWindow
        BY <3>2, <4>1 DEF OrderContext, CountContext, SpecialInvariant
      <4>3. QED
        BY <4>2, NothingUnbound
    <3>3. QED
      BY <2>4, <3>1, <3>2 DEF ForceEnd
  <2>5. QED
    BY <2>1, <2>2, <2>3, <2>4 DEF ForceReleases
<1>5. pc'[t] \notin {"pflush", "pixmap"}
  BY <1>1 DEF ForceReleases, ForceBegin, ForceHandshake, ForceDrain, ForceNotify,
     ForceWalk, ForcePixmap, ForceWait, ForceEnd
<1>6. QED
  BY <1>1, <1>2, <1>3, <1>4, <1>5, OrderKept

\* The window of the backend is changed: PRESENTForceReleases has returned.
LEMMA OrderChange ==
  ASSUME OrderContext, OrderInvariant, Calm', NEW t \in Threads, PRESENTPrivChangeWindow(t)
  PROVE  OrderInvariant'
<1>1. TypeOK /\ pc \in [Threads -> PCs]
  BY DEF OrderContext, CountContext, TypeOK, ThreadTypeOK
<1>2. /\ pc[t] = "change" /\ queue' = <<>> /\ UNCHANGED <<held, heldOn, dest, alive, connected>>
      /\ dest[t] \in alive /\ connected => pc' = [pc EXCEPT ![t] = "select"]
  BY DEF PRESENTPrivChangeWindow, requestVars, windowVars, argVars, Goto
<1>3. \A u \in Threads : u # t => pc[u] \notin PresentPCs \cup ForcePCs
  BY <1>1, <1>2, OnlyPresents DEF OrderContext, CountContext, PresentPCs
<1>4. dest[t] \in Windows
  BY <1>2 DEF OrderContext, CountContext, SpecialInvariant, CallInvariant, PresentPCs, ForcePCs
<1>5. pc' = [pc EXCEPT ![t] = "select"]
  BY <1>2, <1>4 DEF Calm
<1>6. \A u \in Threads : pc'[u] \notin {"pflush", "pixmap"} /\ ~Clear(u)'
  BY <1>1, <1>3, <1>5 DEF PresentPCs, ForcePCs, Clear
<1>7. NothingPending
  BY <1>2 DEF OrderInvariant
<1>8. \A i \in 1..Len(queue') : FALSE
  BY <1>2
<1>9. QED
  BY <1>2, <1>6, <1>7, <1>8, OrderNext DEF NothingPending

LEMMA OrderSelect ==
  ASSUME OrderContext, OrderInvariant, Calm', NEW t \in Threads, ChangeWindowSelect(t)
  PROVE  OrderInvariant'
<1>1. TypeOK /\ pc \in [Threads -> PCs]
  BY DEF OrderContext, CountContext, TypeOK, ThreadTypeOK
<1>2. /\ pc[t] = "select" /\ UNCHANGED <<queue, held, heldOn, dest, alive, connected>>
      /\ pc' = [pc EXCEPT ![t] = "pflush"]
      /\ window \in alive /\ connected => window' = window
  BY DEF ChangeWindowSelect, requestVars, windowVars, argVars, Goto
<1>3. \A u \in Threads : u # t => pc[u] \notin PresentPCs \cup ForcePCs
  BY <1>1, <1>2, OnlyPresents DEF OrderContext, CountContext, PresentPCs
<1>4. window = dest[t] /\ dest[t] \in Windows
  BY <1>2 DEF OrderContext, CountContext, SpecialInvariant, CallInvariant, WindowInvariant,
     PresentPCs, ForcePCs
<1>5. window' = window
  BY <1>2, <1>4 DEF Calm
<1>6. special = NoWindow
  BY <1>2 DEF OrderContext, CountContext, SpecialInvariant
<1>7. NothingPending /\ queue = <<>>
  BY <1>6, NothingUnbound DEF OrderContext, CountContext, SpecialInvariant
<1>8. \A u \in Threads : ~Clear(u)' /\ (pc'[u] \in {"pflush", "pixmap"} => window' = dest'[u])
  BY <1>1, <1>2, <1>3, <1>4, <1>5 DEF PresentPCs, ForcePCs, Clear
<1>9. \A i \in 1..Len(queue') : FALSE
  BY <1>2, <1>7
<1>10. QED
  BY <1>2, <1>7, <1>8, <1>9, OrderNext DEF NothingPending

\* A presentation goes to the window of the queue.
LEMMA OrderPresent ==
  ASSUME OrderContext, OrderInvariant, NEW t \in Threads, NobodyInner(t), PRESENTPixmap(t)
  PROVE  OrderInvariant'
<1>1. /\ TypeOK /\ pc \in [Threads -> PCs] /\ dest \in [Threads -> Windows \cup {NoWindow}]
      /\ held \in [Pixmaps -> {"none", "pending", "screen"}]
      /\ heldOn \in [Pixmaps -> Windows \cup {NoWindow}]
  BY DEF OrderContext, CountContext, TypeOK, ThreadTypeOK, ServerTypeOK
<1>2. /\ pc[t] = "pixmap" /\ pc' = [pc EXCEPT ![t] = "idle"] /\ dest' = [dest EXCEPT ![t] = NoWindow]
      /\ UNCHANGED <<queue, special, window, notifySerial>>
      /\ \/ /\ held' = [held EXCEPT ![buf[t]] = "pending"]
            /\ heldOn' = [heldOn EXCEPT ![buf[t]] = dest[t]]
         \/ UNCHANGED <<held, heldOn>>
  BY DEF PRESENTPixmap, Goto, deviceVars
<1>3. \A u \in Threads : u # t => pc[u] \notin PresentPCs \cup ForcePCs
  BY <1>1, <1>2, OnlyPresents DEF OrderContext, CountContext, PresentPCs
<1>4. special = window /\ window = dest[t]
  <2>1. \A u \in Threads : pc[u] # "select"
    BY <1>2, <1>3 DEF PresentPCs
  <2>2. QED
    BY <1>2, <2>1 DEF OrderContext, CountContext, SpecialInvariant, OrderInvariant
<1>5. \A u \in Threads : ~Clear(u)' /\ (pc'[u] \in {"pflush", "pixmap"} => window' = dest'[u])
  BY <1>1, <1>2, <1>3 DEF PresentPCs, ForcePCs, Clear
<1>6. \A p \in Pixmaps : held'[p] = "pending" => heldOn'[p] = special'
  BY <1>1, <1>2, <1>4 DEF OrderInvariant
<1>7. ~Asked
  BY <1>2, <1>3 DEF Asked, ForcePCs
<1>8. \A i \in 1..Len(queue') : queue'[i] # NotifyEvent(1)
  BY <1>2, <1>7 DEF OrderContext, SerialInvariant
<1>9. QED
  BY <1>5, <1>6, <1>8, OrderNext

LEMMA OrderDestroy ==
  ASSUME OrderContext, OrderInvariant, NEW t \in Threads, PRESENTDestroy(t)
  PROVE  OrderInvariant'
<1>1. /\ pc[t] = "free" /\ pc' = [pc EXCEPT ![t] = "idle"] /\ queue' = <<>>
      /\ held' = [p \in Pixmaps |-> "none"]
  BY DEF PRESENTDestroy, Goto
<1>2. pc \in [Threads -> PCs] /\ \A u \in Threads : pc[u] \in {"idle", "free"} \cup ForcePCs
  BY <1>1 DEF OrderContext, CountContext, TypeOK, ThreadTypeOK, CallInvariant
<1>3. \A u \in Threads : u # t => pc[u] \notin Critical
  BY <1>1 DEF OrderContext, CountContext, LockProtocol, Critical
<1>4. \A u \in Threads : pc'[u] = "idle"
  BY <1>1, <1>2, <1>3 DEF Critical
<1>5. \A i \in 1..Len(queue') : FALSE
  BY <1>1
<1>6. QED
  BY <1>1, <1>4, <1>5, OrderNext DEF Clear

LEMMA OrderContinue ==
  ASSUME OrderContext, OrderInvariant, Calm', NEW t \in Threads, NobodyInner(t), Continue(t)
  PROVE  OrderInvariant'
<1> USE DEF serverVars, requestVars, deviceVars, lockVars, argVars, eventVars, Goto, Acquire,
        Release
<1>1. /\ TypeOK /\ pc \in [Threads -> PCs] /\ dest \in [Threads -> Windows \cup {NoWindow}]
      /\ Clear(t) => NothingPending /\ NoCompleteQueued
      /\ pc[t] \in {"pflush", "pixmap"} => window = dest[t]
  BY DEF OrderContext, CountContext, TypeOK, ThreadTypeOK, OrderInvariant, Clear
<1>2. \A u \in Threads : u # t => pc[u] # "serial"
  BY DEF NobodyInner, Inner, ForcePCs
<1>3. Shrinks
  BY QueueShrinks
<1>4. CASE ForceReleases(t)
  BY <1>4, OrderForce
<1>5. CASE \/ PRESENTPrivChangeWindow(t) \/ ChangeWindowSelect(t) \/ PRESENTPixmap(t)
           \/ PRESENTDestroy(t)
  BY <1>5, OrderChange, OrderSelect, OrderPresent, OrderDestroy
<1>6. CASE FlushEvent(t)
  <2>1. UNCHANGED <<special, window, held, heldOn, dest, pc>> /\ pc[t] # "serial"
    BY <1>6 DEF FlushEvent, Flushes, AssertingFlushes
  <2>2. Clear(t)' => Clear(t)
    BY <2>1 DEF Clear
  <2>3. QED
    BY <1>1, <1>2, <1>3, <2>1, <2>2, OrderKept
<1>7. CASE PRESENTPixmapPrepare(t)
  <2>1. /\ UNCHANGED <<special, window, held, heldOn, dest>>
        /\ pc' = [pc EXCEPT ![t] = IF dest[t] # window THEN "force" ELSE "pflush"]
    BY <1>7 DEF PRESENTPixmapPrepare
  <2>2. ~Clear(t)' /\ (pc'[t] \in {"pflush", "pixmap"} => window = dest'[t])
    BY <1>1, <2>1 DEF Clear
  <2>3. QED
    BY <1>1, <1>2, <1>3, <2>1, <2>2, OrderKept
<1>8. CASE PrepareEnd(t)
  <2>1. /\ UNCHANGED <<special, window, held, heldOn>> /\ pc[t] = "pflush"
        /\ \/ pc' = [pc EXCEPT ![t] = "pixmap"] /\ dest' = dest
           \/ pc' = [pc EXCEPT ![t] = "idle"] /\ dest' = [dest EXCEPT ![t] = NoWindow]
    BY <1>8 DEF PrepareEnd
  <2>2. /\ ~Clear(t)' /\ (pc'[t] \in {"pflush", "pixmap"} => window = dest'[t])
        /\ \A u \in Threads : u # t => pc'[u] = pc[u] /\ dest'[u] = dest[u]
    BY <1>1, <2>1 DEF Clear
  <2>3. QED
    BY <1>1, <1>2, <1>3, <2>1, <2>2, OrderKept
<1>9. CASE \/ WaitLock(t) \/ WaitFlushEnd(t) \/ WaitReturn(t) \/ WaitBehind(t) \/ WaitWake(t)
           \/ PRESENTwait_events(t) \/ TakeEvent(t) \/ HandleTaken(t) \/ PRESENTIsPixmapReleased(t)
  <2>1. /\ UNCHANGED <<special, window, held, heldOn, dest>>
        /\ \E l \in {"check", "wflush", "idle", "behind", "sleep", "xcb", "got"} :
             pc' = [pc EXCEPT ![t] = l]
    BY <1>9 DEF WaitLock, WaitFlushEnd, WaitReturn, WaitBehind, WaitWake, PRESENTwait_events,
       TakeEvent, HandleTaken, PRESENTIsPixmapReleased
  <2>2. /\ ~Clear(t)' /\ pc'[t] \notin {"pflush", "pixmap"}
        /\ \A u \in Threads : u # t => pc'[u] = pc[u]
    BY <1>1, <2>1 DEF Clear
  <2>3. QED
    BY <1>1, <1>2, <1>3, <2>1, <2>2, OrderKept
<1>10. QED
  BY <1>4, <1>5, <1>6, <1>7, <1>8, <1>9 DEF Continue

\* Only the creation of a device mends a connection.
LEMMA CalmKept ==
  ASSUME NEW t \in Threads, Call(t) \/ Continue(t), ~PRESENTInit(t)
  PROVE  Calm' => Calm
<1> USE DEF serverVars, windowVars
<1>1. UNCHANGED <<alive, connected>>
  <2>1. Call(t) => UNCHANGED <<alive, connected>>
    BY DEF Call, PRESENTPixmapInit, PRESENTTryFreePixmap, BeginPresentBuffer, BeginWaitBuffer,
       BeginWaitEvent, BeginIsReleased, BeginDestroy
  <2>2. ForceReleases(t) => UNCHANGED <<alive, connected>>
    BY DEF ForceReleases, ForceBegin, ForceHandshake, ForceDrain, WaitEvent, ForceNotify,
       ForceWalk, ForcePixmap, ForceWait, ForceEnd
  <2>3. QED
    BY <2>1, <2>2 DEF Continue, FlushEvent, PRESENTPixmapPrepare, PRESENTPrivChangeWindow,
       ChangeWindowSelect, PrepareEnd, PRESENTPixmap, WaitLock, WaitFlushEnd, WaitReturn,
       WaitBehind, WaitWake, PRESENTwait_events, TakeEvent, HandleTaken,
       PRESENTIsPixmapReleased, PRESENTDestroy
<1>2. QED
  BY <1>1 DEF Calm

LEMMA OrderStep == OrderContext /\ [Next]_vars => (Calm => OrderInvariant)'
<1>1. ASSUME OrderContext, UNCHANGED vars, Calm'
      PROVE  OrderInvariant'
  <2>1. /\ UNCHANGED <<special, queue, held, heldOn, window, pc, dest, notifySerial>>
        /\ Calm
    BY <1>1 DEF vars, serverVars, requestVars, windowVars, eventVars, deviceVars, argVars, Calm
  <2>2. OrderInvariant
    BY <1>1, <2>1 DEF OrderContext, CountContext
  <2>3. QED
    BY <2>1, <2>2, OrderNext DEF OrderInvariant, Clear, NothingPending, NoCompleteQueued
<1>2. ASSUME OrderContext, Calm', NEW t \in Threads, Call(t) \/ Continue(t), ~PRESENTInit(t)
      PROVE  OrderInvariant'
  <2>1. OrderInvariant
    BY <1>2, CalmKept DEF OrderContext, CountContext
  <2>2. CASE NobodyInner(t)
    BY <1>2, <2>1, <2>2, OrderCall, OrderContinue
  <2>3. CASE ~NobodyInner(t)
    <3>1. Waits(t)
      BY <1>2, <2>3, Alone DEF NobodyInner, OrderContext, CountContext
    <3>2. QED
      BY <1>2, <2>1, <3>1, OrderWaits DEF OrderContext, CountContext
  <2>4. QED
    BY <2>2, <2>3
<1>3. QED
  BY <1>1, <1>2, OrderServer, OrderCreated DEF Next

---------------------------------------------------------------------------
(* All together.                                                           *)

Ordered ==
  /\ WindowInvariant /\ SpecialInvariant /\ SerialInvariant
  /\ Calm => OrderInvariant
  /\ CountInvariant

LEMMA OrderAlways == Spec => []OrderContext
<1> DEFINE Known == TypeOK /\ LockProtocol /\ CallInvariant /\ BufferInvariant
<1>1. Init => Ordered
  BY WindowInit, SpecialInit, SerialInit, OrderInit, CountInit DEF Ordered
<1>2. Known /\ Ordered <=> OrderContext
  BY DEF Ordered, OrderContext, CountContext
<1>3. Known /\ Ordered /\ [Next]_vars => Ordered'
  BY <1>2, WindowStep, SpecialStep, SerialStep, OrderStep, CountStep
     DEF Ordered, OrderContext, CountContext
<1>4. Spec => []Known
  BY TypeCorrect, LocksHeld, BufferAlways, PTL
<1> HIDE DEF Known
<1>5. QED
  BY <1>1, <1>2, <1>3, <1>4, PTL DEF Spec

\* present_complete_pending (xcb_present.c) never falls below the complete
\* events that can still arrive, equals them while neither a window nor the
\* connection is lost, and pixmap_present_pending is its sum over the pixmaps:
\* for any threads, pixmaps, windows, completion modes and failures.
THEOREM CompletesCounted == Spec => []CompletesAccounted
<1>1. OrderContext => CompletesAccounted
  <2> SUFFICES ASSUME OrderContext PROVE CompletesAccounted
    OBVIOUS
  <2>1. listed \subseteq Pixmaps
    BY DEF OrderContext, CountContext, TypeOK, DeviceTypeOK
  <2>2. \A p \in listed : CompletesOwed(p) = Owed(p)
    BY <2>1, OwedIs
  <2>3. QED
    BY <2>2 DEF OrderContext, CountContext, CountInvariant, CompletesAccounted, Calm
<1>2. QED
  BY <1>1, OrderAlways, PTL
=============================================================================
