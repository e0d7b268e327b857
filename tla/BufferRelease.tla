--------------------------- MODULE BufferRelease ---------------------------
(***************************************************************************)
(* What the PRESENT backend promises about the buffers of a swap chain, in *)
(* terms of who has them and nothing else.  The interface is that of       *)
(* src/d3d9-nine/xcb_present.h: a buffer is created, presented, released   *)
(* by the server, and the client learns of that some time later.           *)
(*                                                                         *)
(*     none <--> client --> server --> returning --> client                *)
(***************************************************************************)
CONSTANT Buffers

VARIABLE owner             \* who has a buffer

Init == owner = [b \in Buffers |-> "none"]

Move(S, from, to) ==
  /\ \A b \in S : owner[b] = from
  /\ owner' = [b \in Buffers |-> IF b \in S THEN to ELSE owner[b]]

\* The client has a new buffer, or gives up one it may draw to.
Create(b) == Move({b}, "none", "client")
Discard(b) == Move({b}, "client", "none")

Present(b) == Move({b}, "client", "server")

\* The server is done with some buffers at a time: the one it showed and
\* the one it shows no more.
Finish(S) == Move(S, "server", "returning")

\* The client learns it: from now on PRESENTIsPixmapReleased is true.
Learn(b) == Move({b}, "returning", "client")

\* The device is gone, with all its buffers.
Close == owner' = [b \in Buffers |-> "none"]

Next ==
  \/ \E b \in Buffers : Create(b) \/ Discard(b) \/ Present(b) \/ Learn(b)
  \/ \E S \in SUBSET Buffers : Finish(S)
  \/ Close

Spec == Init /\ [][Next]_owner
=============================================================================
