-------------------------- MODULE XServerPresent --------------------------
(***************************************************************************)
(* The X server side of the PRESENT protocol, as src/d3d9-nine/            *)
(* xcb_present.c relies on it, and the special event queue of the          *)
(* connection the backend reads.  Nothing here is code of the repository:  *)
(* every action is an answer the backend waits for or has to survive.      *)
(*                                                                         *)
(*   copy      the pixmap is copied to the window; the complete and idle   *)
(*             events are sent together, in either order                   *)
(*             (xcb_present.c:303, 621).                                   *)
(*   flip      the pixmap is scanned out until something replaces it; the  *)
(*             replaced pixmap becomes idle.                               *)
(*   skip      a later presentation made this one useless.                 *)
(*   forced    PRESENTForceReleases presents with serial 0 to take the     *)
(*             flipped pixmap off the screen (xcb_present.c:318-333).      *)
(*                                                                         *)
(* Messages in transit are part of `queue': the events of one request      *)
(* reach the queue together.                                               *)
(***************************************************************************)
EXTENDS Integers, Sequences, FiniteSets

CONSTANTS
  Pixmaps,               \* X pixmaps; stands for the serials as well
  Windows,               \* X windows
  Geoms,                 \* window geometries
  NoPixmap,              \* serial 0
  NoWindow,              \* XID 0
  Modes,                 \* how the server may complete a presentation
  Mortal,                \* windows the application may destroy
  CanDisconnect,         \* may the X connection break
  MaxQueue               \* no configure event is sent to a longer queue

ASSUME ServerAssumption ==
  /\ NoPixmap \notin Pixmaps
  /\ NoWindow \notin Windows
  /\ Modes \subseteq {"copy", "flip", "skip"}
  /\ Mortal \subseteq Windows
  /\ CanDisconnect \in BOOLEAN
  /\ MaxQueue \in Nat

VARIABLES
  special,               \* window the special event queue is registered for
  queue,                 \* events of that queue, read or in transit
  held,                  \* what the server does with a pixmap
  heldOn,                \* the window of the pixmap's latest presentation
  notifyOwed,            \* xcb_present_notify_msc requests <<window, serial>>
  forcedOwed,            \* presentations with serial 0 <<pixmap, window>>
  alive,                 \* windows that exist
  geom,                  \* their geometry
  connected              \* the connection works

requestVars == <<held, heldOn, notifyOwed, forcedOwed>>
windowVars == <<alive, geom, connected>>
serverVars == <<special, queue, requestVars, windowVars>>

CompleteEvent(p, m) == [type |-> "complete", pix |-> p, mode |-> m]
IdleEvent(p) == [type |-> "idle", pix |-> p]
NotifyEvent(s) == [type |-> "notify", serial |-> s]
ConfigureEvent(w, g) == [type |-> "configure", win |-> w, geom |-> g]

\* What xcb_wait_for_special_event returns on a broken connection.
NullEvent == [type |-> "null"]

Events ==
  [type : {"complete"}, pix : Pixmaps \cup {NoPixmap}, mode : Modes \cup {"copy"}]
    \cup [type : {"idle"}, pix : Pixmaps \cup {NoPixmap}]
    \cup [type : {"notify"}, serial : {0, 1}]
    \cup [type : {"configure"}, win : Windows, geom : Geoms]
    \cup {NullEvent}

ServerTypeOK ==
  /\ special \in Windows \cup {NoWindow}
  /\ queue \in Seq(Events)
  /\ held \in [Pixmaps -> {"none", "pending", "screen"}]
  /\ heldOn \in [Pixmaps -> Windows \cup {NoWindow}]
  /\ notifyOwed \subseteq Windows \X {0, 1}
  /\ forcedOwed \subseteq Pixmaps \X Windows
  /\ alive \subseteq Windows
  /\ geom \in [Windows -> Geoms]
  /\ connected \in BOOLEAN

ServerInit ==
  /\ special = NoWindow
  /\ queue = <<>>
  /\ held = [p \in Pixmaps |-> "none"]
  /\ heldOn = [p \in Pixmaps |-> NoWindow]
  /\ notifyOwed = {}
  /\ forcedOwed = {}
  /\ alive = Windows
  /\ geom \in [Windows -> Geoms]
  /\ connected = TRUE

---------------------------------------------------------------------------
(* Reading the special event queue. *)

\* xcb_wait_for_special_event: blocks until there is an event or an error.
Received == IF queue # <<>> THEN Head(queue) ELSE NullEvent
Receive ==
  /\ queue # <<>> \/ ~connected
  /\ queue' = IF queue # <<>> THEN Tail(queue) ELSE queue

\* Events of windows the queue is not registered for never reach it.
Deliver(w, evs) == queue' = IF special = w THEN queue \o evs ELSE queue

---------------------------------------------------------------------------
(* The server's steps. *)

OnScreen(w) == {q \in Pixmaps : held[q] = "screen" /\ heldOn[q] = w}

\* Idle events of what leaves the screen when w shows something else.
Unflips(w) ==
  IF OnScreen(w) = {} THEN <<>>
  ELSE <<IdleEvent(CHOOSE q \in OnScreen(w) : TRUE)>>

CompleteCopy(p) ==
  LET w == heldOn[p] IN
  /\ "copy" \in Modes
  /\ connected
  /\ held[p] = "pending"
  /\ \/ Deliver(w, Unflips(w) \o <<CompleteEvent(p, "copy"), IdleEvent(p)>>)
     \/ Deliver(w, Unflips(w) \o <<IdleEvent(p), CompleteEvent(p, "copy")>>)
  /\ held' = [q \in Pixmaps |-> IF q = p \/ q \in OnScreen(w) THEN "none" ELSE held[q]]
  /\ UNCHANGED <<special, heldOn, notifyOwed, forcedOwed, windowVars>>

CompleteFlip(p) ==
  LET w == heldOn[p] IN
  /\ "flip" \in Modes
  /\ connected
  /\ held[p] = "pending"
  /\ Deliver(w, Unflips(w) \o <<CompleteEvent(p, "flip")>>)
  /\ held' = [q \in Pixmaps |-> IF q = p THEN "screen"
                                ELSE IF q \in OnScreen(w) THEN "none" ELSE held[q]]
  /\ UNCHANGED <<special, heldOn, notifyOwed, forcedOwed, windowVars>>

CompleteSkip(p) ==
  /\ "skip" \in Modes
  /\ connected
  /\ held[p] = "pending"
  /\ Deliver(heldOn[p], <<CompleteEvent(p, "skip"), IdleEvent(p)>>)
  /\ held' = [held EXCEPT ![p] = "none"]
  /\ UNCHANGED <<special, heldOn, notifyOwed, forcedOwed, windowVars>>

\* notify_msc with serial 0 asks for "now" and is answered before anything
\* sent later; with serial 1 it asks for a time after every presentation
\* sent before (xcb_present.c:284-291).
Notify(w, s) ==
  /\ connected
  /\ <<w, s>> \in notifyOwed
  /\ s = 1 => /\ <<w, 0>> \notin notifyOwed
              /\ \A p \in Pixmaps : heldOn[p] = w => held[p] # "pending"
  /\ Deliver(w, <<NotifyEvent(s)>>)
  /\ notifyOwed' = notifyOwed \ {<<w, s>>}
  /\ UNCHANGED <<special, held, heldOn, forcedOwed, windowVars>>

\* A copy with serial 0: what was on the screen is idle first
\* (xcb_present.c:329-335), then the events of the copy itself.
Forced(p, w) ==
  /\ connected
  /\ <<p, w>> \in forcedOwed
  /\ Deliver(w, Unflips(w) \o <<CompleteEvent(NoPixmap, "copy"), IdleEvent(NoPixmap)>>)
  /\ held' = [q \in Pixmaps |-> IF q \in OnScreen(w) THEN "none" ELSE held[q]]
  /\ forcedOwed' = forcedOwed \ {<<p, w>>}
  /\ UNCHANGED <<special, heldOn, notifyOwed, windowVars>>

\* The window is moved, resized or restacked: "Configure notify events
\* arrive for all changes" (xcb_present.c:181).
Configure(w, g) ==
  /\ connected
  /\ w \in alive
  /\ Len(queue) < MaxQueue
  /\ geom' = [geom EXCEPT ![w] = g]
  /\ Deliver(w, <<ConfigureEvent(w, g)>>)
  /\ UNCHANGED <<special, requestVars, alive, connected>>

\* The application destroys a window it presents to; the server drops the
\* presentations of the window and sends nothing about them.
DestroyWindow(w) ==
  /\ w \in alive \cap Mortal
  /\ alive' = alive \ {w}
  /\ held' = [p \in Pixmaps |-> IF heldOn[p] = w THEN "none" ELSE held[p]]
  /\ notifyOwed' = {n \in notifyOwed : n[1] # w}
  /\ forcedOwed' = {f \in forcedOwed : f[2] # w}
  /\ UNCHANGED <<special, queue, heldOn, geom, connected>>

Disconnect ==
  /\ CanDisconnect
  /\ connected
  /\ connected' = FALSE
  /\ UNCHANGED <<special, queue, requestVars, alive, geom>>

Complete(p) == CompleteCopy(p) \/ CompleteFlip(p) \/ CompleteSkip(p)

ServerStep ==
  \/ \E p \in Pixmaps : Complete(p)
  \/ \E n \in notifyOwed : Notify(n[1], n[2])
  \/ \E f \in forcedOwed : Forced(f[1], f[2])
  \/ \E w \in Windows, g \in Geoms : Configure(w, g)
  \/ \E w \in Windows : DestroyWindow(w)
  \/ Disconnect
=============================================================================
