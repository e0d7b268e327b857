--------------------------- MODULE MCXcbPresent ---------------------------
(* Model values and symmetry for the runs on XcbPresent. *)
EXTENDS XcbPresentProperties, TLC

CONSTANTS t1, t2, t3, p1, p2, w1, w2

\* Every thread makes every call.
AllCalls == [t \in Threads |-> CallNames]

\* One thread presents, the others wait: the driver's thread_submit mode.
OnePresenter == [t \in Threads |->
  IF t = t1 THEN {"init", "create", "present", "destroy"} ELSE {"wait", "event"}]

\* Sound for safety only: the liveness runs do not use it.
Symmetry == Permutations(Threads) \cup Permutations(Pixmaps) \cup Permutations(Windows)
=============================================================================
