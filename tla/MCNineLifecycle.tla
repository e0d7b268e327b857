-------------------------- MODULE MCNineLifecycle --------------------------
(* Two displays and two devices for the runs about devices and backends.   *)
EXTENDS PresentGroup, TLC

\* A display of whose three outputs the first is taken off.
MonitorsOfDisplays == {<<"odd", "good", "good">>}

AllFailures == {"create", "display", "init", "driver", "memory", "present", "device", "drawable"}

Symmetry == Permutations(Presents) \cup Permutations(Devices) \cup Permutations(Windows)
=============================================================================
