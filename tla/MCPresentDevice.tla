-------------------------- MODULE MCPresentDevice --------------------------
(* Model values for the runs on PresentDevice. *)
EXTENDS PresentDevice, TLC

CONSTANTS d1, d2, w1, w2

DesktopMode == [size |-> "large", rate |-> 60]

\* Parameters for a device on window w1: a window of its client area's size,
\* a fullscreen mode of the desktop's or of another size, with a refresh
\* rate or without.
Resets ==
  {[windowed |-> TRUE, size |-> NoSize, rate |-> 0, window |-> NoWindow]} \cup
  [windowed : {FALSE}, size : Sizes, rate : Rates \cup {0}, window : {w1}]

\* The same without refresh rates, and a fullscreen mode of no size, which
\* set_display_mode refuses after the focus window was acquired.
Tries ==
  {[windowed |-> TRUE, size |-> NoSize, rate |-> 0, window |-> NoWindow],
   [windowed |-> FALSE, size |-> "large", rate |-> 0, window |-> w1],
   [windowed |-> FALSE, size |-> NoSize, rate |-> 0, window |-> NoWindow]}

\* Devices are alike: no request names one.
Symmetry == Permutations(Devices)
=============================================================================
