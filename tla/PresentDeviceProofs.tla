------------------------- MODULE PresentDeviceProofs -------------------------
(***************************************************************************)
(* Theorems about PresentDevice and the window procedure table, for any    *)
(* windows, modes and requests: messages always find the window's own      *)
(* procedure, no entry outlives its device, a call that fails leaves the   *)
(* size alone; and of one device: it hears what its window is told, knows  *)
(* whether its mode is set, and gives windows and desktop back.            *)
(***************************************************************************)
EXTENDS PresentDevice, TLAPS

\* Where a message of window w may be led.  nine_wndproc is in the window
\* only with an entry to go on from, and the procedure of the application is
\* in one of the two places: in front of nine's or behind it.
ReachingAt(w) ==
  /\ wndproc[w] = "nine" =>
       Registered(w) /\ \/ table[w].proc = "original"
                        \/ table[w].proc = "app" /\ appPrev[w] = "original"
  /\ appPrev[w] = "nine" => wndproc[w] = "app" /\ Registered(w) /\ table[w].proc = "original"
  /\ wndproc[w] = "app" => appPrev[w] \in {"original", "nine"}
  /\ appPrev[w] # "app"

Reaching == TableTypeOK /\ \A w \in Windows : ReachingAt(w)

\* Devices wrap windows and have windows for a focus.
Wraps ==
  /\ wrapped \in [Devices -> Windows \cup {NoWindow}]
  /\ focus \in [Devices -> Windows \cup {NoWindow}]

---------------------------------------------------------------------------
(* The table. *)

LEMMA ReachingInit == Init => Reaching
  BY DEF Init, TableInit, Reaching, ReachingAt, TableTypeOK, NoEntry, Entries, Procs, Registered

LEMMA ReachingSame == ASSUME Reaching, UNCHANGED tableVars PROVE Reaching'
  BY DEF Reaching, ReachingAt, TableTypeOK, Registered, tableVars

\* The fields of an entry that is there.
LEMMA EntryFields ==
  ASSUME TableTypeOK, NEW w \in Windows
  PROVE  /\ table[w].present \in Devices \cup {NoDevice}
         /\ Registered(w) => table[w] \in Entries
         /\ ~Registered(w) => table[w].present = NoDevice
  BY DEF TableTypeOK, Registered, Entries, NoEntry

LEMMA RegisterReaches ==
  ASSUME Reaching, NEW w \in Windows, NEW d \in Devices,
         nine_register_window(w, d), UNCHANGED appPrev
  PROVE  Reaching'
<1>1. CASE Registered(w)
  BY <1>1, ReachingSame DEF nine_register_window, tableVars
<1>2. CASE ~Registered(w)
  <2> DEFINE e == [proc |-> wndproc[w], present |-> d]
  <2>1. /\ table' = [table EXCEPT ![w] = e]
        /\ wndproc' = [wndproc EXCEPT ![w] = "nine"]
    BY <1>2 DEF nine_register_window
  <2>2. e \in Entries /\ e # NoEntry /\ e.proc = wndproc[w]
    BY DEF Reaching, TableTypeOK, Entries, NoEntry, Procs
  <2> HIDE DEF e
  <2>3. TableTypeOK'
    BY <2>1, <2>2 DEF Reaching, TableTypeOK, Procs
  <2>4. ReachingAt(w)'
    BY <1>2, <2>1, <2>2 DEF Reaching, ReachingAt, TableTypeOK, Registered, Procs
  <2>5. ASSUME NEW v \in Windows, v # w PROVE ReachingAt(v)'
    BY <2>1, <2>5 DEF Reaching, ReachingAt, TableTypeOK, Registered
  <2> QED
    BY <2>3, <2>4, <2>5 DEF Reaching
<1> QED
  BY <1>1, <1>2

\* Without the window the other entries and procedures stay.
LEMMA WithoutOthers ==
  ASSUME TableTypeOK, NEW w \in Windows
  PROVE  /\ TableWithout(w) \in [Windows -> Entries \cup {NoEntry}]
         /\ ProcsWithout(w) \in [Windows -> Procs]
         /\ \A v \in Windows \ {w} : TableWithout(w)[v] = table[v] /\ ProcsWithout(w)[v] = wndproc[v]
<1>1. ASSUME Registered(w) PROVE table[w] \in Entries /\ table[w].proc \in Procs
                                 /\ [table[w] EXCEPT !.present = NoDevice] \in Entries
  BY <1>1, EntryFields DEF Entries
<1>2. NoEntry \in Entries \cup {NoEntry} /\ wndproc[w] \in Procs
  BY DEF TableTypeOK
<1> QED
  BY <1>1, <1>2 DEF TableTypeOK, TableWithout, ProcsWithout

\* nine_unregister_window of window w, whatever was found in it, leaves a
\* window v reaching that keeps its application's procedure, and whose
\* procedure is what the operation left.
LEMMA WithoutAt ==
  ASSUME Reaching, NEW w \in Windows, NEW v \in Windows,
         table' = TableWithout(w), wndproc'[v] = ProcsWithout(w)[v], appPrev'[v] = appPrev[v]
  PROVE  ReachingAt(v)'
<1>0. TableTypeOK
  BY DEF Reaching
<1>1. CASE v # w
  BY <1>0, <1>1, WithoutOthers DEF Reaching, ReachingAt, Registered
<1>2. CASE v = w /\ Registered(w) /\ wndproc[w] # "nine"
  <2> DEFINE e == [table[w] EXCEPT !.present = NoDevice]
  <2>1. e \in Entries /\ e # NoEntry /\ e.proc = table[w].proc
    BY <1>0, <1>2, EntryFields DEF Entries, NoEntry, Procs
  <2> HIDE DEF e
  <2>2. table'[w] = e /\ wndproc'[w] = wndproc[w]
    BY <1>0, <1>2 DEF TableWithout, ProcsWithout, TableTypeOK, e
  <2> QED
    BY <1>2, <2>1, <2>2 DEF Reaching, ReachingAt, Registered
<1>3. CASE v = w /\ ~(Registered(w) /\ wndproc[w] # "nine")
  <2> DEFINE q == IF Registered(w) /\ wndproc[w] = "nine" THEN table[w].proc ELSE wndproc[w]
  <2>1. q \in {"original", "app"} /\ (q = "app" => appPrev[w] \in {"original", "nine"})
        /\ appPrev[w] # "nine" /\ appPrev[w] # "app"
    BY <1>0, <1>3 DEF Reaching, ReachingAt, TableTypeOK, Procs
  <2>2. table'[w] = NoEntry /\ wndproc'[w] = q
    BY <1>0, <1>3 DEF TableWithout, ProcsWithout, TableTypeOK
  <2> HIDE DEF q
  <2> QED
    BY <1>3, <2>1, <2>2 DEF ReachingAt, Registered
<1> QED
  BY <1>1, <1>2, <1>3

\* nine_unregister_window, whatever was found in the window.
LEMMA UnregisterReaches ==
  ASSUME Reaching, NEW w \in Windows,
         table' = TableWithout(w), wndproc' = ProcsWithout(w), UNCHANGED appPrev
  PROVE  Reaching'
<1>1. TableTypeOK'
  BY WithoutOthers DEF Reaching, TableTypeOK
<1>2. ASSUME NEW v \in Windows PROVE ReachingAt(v)'
  BY WithoutAt
<1> QED
  BY <1>1, <1>2 DEF Reaching

LEMMA ReleaseReaches ==
  ASSUME Reaching, NEW d \in Devices, wrapped[d] \in Windows \cup {NoWindow},
         table' = ReleasedTable(d), wndproc' = ReleasedProcs(d), UNCHANGED appPrev
  PROVE  Reaching'
<1>1. CASE wrapped[d] = NoWindow
  BY <1>1, ReachingSame DEF ReleasedTable, ReleasedProcs, tableVars
<1>2. CASE wrapped[d] # NoWindow
  BY <1>2, UnregisterReaches DEF ReleasedTable, ReleasedProcs
<1> QED
  BY <1>1, <1>2

\* The application replaces procedures.
LEMMA ApplicationReaches ==
  ASSUME Reaching, NEW w \in Windows, Subclass(w) \/ Unsubclass(w)
  PROVE  Reaching'
<1>1. CASE Subclass(w)
  BY <1>1 DEF Subclass, Reaching, ReachingAt, TableTypeOK, Registered, Procs
<1>2. CASE Unsubclass(w)
  BY <1>2 DEF Unsubclass, Reaching, ReachingAt, TableTypeOK, Registered, Procs
<1> QED
  BY <1>1, <1>2

\* A window is destroyed: its handle starts again, whatever entry is left.
LEMMA ReuseReaches ==
  ASSUME Reaching, NEW w \in Windows, table' \in [Windows -> Entries \cup {NoEntry}],
         NEW procs \in [Windows -> Procs],
         wndproc' = [procs EXCEPT ![w] = "original"], appPrev' = [appPrev EXCEPT ![w] = "none"],
         \A v \in Windows \ {w} :
           table'[v] = table[v] /\ procs[v] = wndproc[v]
  PROVE  Reaching'
<1>1. TableTypeOK'
  BY DEF Reaching, TableTypeOK, Procs
<1>2. ReachingAt(w)'
  BY DEF Reaching, ReachingAt, TableTypeOK
<1>3. ASSUME NEW v \in Windows, v # w PROVE ReachingAt(v)'
  BY <1>3 DEF Reaching, ReachingAt, TableTypeOK, Registered
<1> QED
  BY <1>1, <1>2, <1>3 DEF Reaching

---------------------------------------------------------------------------
(* Messages find the window's own procedure. *)

\* The window a call acquires is a window.
LEMMA RequestWindow ==
  ASSUME NEW p \in Requests
  PROVE  p.window \in Windows \cup {NoWindow}
  BY DeviceAssumption DEF Params

LEMMA AcquireReaches ==
  ASSUME Reaching, Wraps, NEW d \in Devices, NEW w \in Windows \cup {NoWindow},
         acquire_focus_window(d, w), UNCHANGED <<appPrev>>
  PROVE  Reaching' /\ wrapped' \in [Devices -> Windows \cup {NoWindow}]
<1>1. wrapped' \in [Devices -> Windows \cup {NoWindow}]
  BY DEF acquire_focus_window, Wraps
<1>2. CASE w = NoWindow
  BY <1>1, <1>2, ReachingSame DEF acquire_focus_window, tableVars
<1>3. CASE w # NoWindow
  BY <1>1, <1>3, RegisterReaches DEF acquire_focus_window
<1> QED
  BY <1>2, <1>3

LEMMA GiveBackReaches ==
  ASSUME Reaching, Wraps, NEW d \in Devices, release_focus_window(d), UNCHANGED <<appPrev>>
  PROVE  Reaching' /\ wrapped' \in [Devices -> Windows \cup {NoWindow}]
<1>1. wrapped[d] \in Windows \cup {NoWindow}
  BY DEF Wraps
<1> QED
  BY <1>1, ReleaseReaches DEF release_focus_window, Unwrap, Wraps

LEMMA CreateReaches ==
  ASSUME Reaching, Wraps, NEW d \in Devices, NEW e \in Kinds, NEW f \in Focuses, NEW p \in Requests,
         CreateBegin(d, e, f, p)
  PROVE  Reaching' /\ Wraps'
<1> DEFINE w == IF p.window = NoWindow THEN f ELSE p.window
           fw == IF f = NoWindow THEN w ELSE f
<1>1. f \in Windows \cup {NoWindow} /\ p.window \in Windows \cup {NoWindow}
      /\ (f # NoWindow \/ p.window # NoWindow)
  BY RequestWindow, DeviceAssumption DEF CreateBegin
<1>2. fw \in Windows
  BY <1>1
<1>3. focus' \in [Devices -> Windows \cup {NoWindow}] /\ UNCHANGED <<appPrev>>
  BY <1>1 DEF CreateBegin, Wraps
<1>4. acquire_focus_window(d, fw) \/ UNCHANGED <<table, wndproc, focusVars, screensaver>>
  BY DEF CreateBegin
<1> HIDE DEF fw
<1>5. CASE acquire_focus_window(d, fw)
  BY <1>2, <1>3, <1>5, AcquireReaches DEF Wraps
<1>6. CASE UNCHANGED <<table, wndproc, focusVars, screensaver>>
  BY <1>3, <1>6, ReachingSame DEF Wraps, focusVars, tableVars
<1> QED
  BY <1>4, <1>5, <1>6

LEMMA ResetReaches ==
  ASSUME Reaching, Wraps, NEW d \in Devices, NEW p \in Requests, ResetBegin(d, p)
  PROVE  Reaching' /\ Wraps'
<1> DEFINE fw == IF focus[d] = NoWindow THEN p.window ELSE focus[d]
<1>1. fw \in Windows \cup {NoWindow}
  BY RequestWindow DEF Wraps
<1>2. UNCHANGED <<appPrev, focus>>
  BY DEF ResetBegin
<1>3. acquire_focus_window(d, fw) \/ UNCHANGED <<table, wndproc, focusVars, screensaver>>
  BY DEF ResetBegin
<1> HIDE DEF fw
<1>4. CASE acquire_focus_window(d, fw)
  BY <1>1, <1>2, <1>4, AcquireReaches DEF Wraps
<1>5. CASE UNCHANGED <<table, wndproc, focusVars, screensaver>>
  BY <1>2, <1>5, ReachingSame DEF Wraps, focusVars, tableVars
<1> QED
  BY <1>3, <1>4, <1>5

LEMMA CallReaches ==
  ASSUME Reaching, Wraps, NEW d \in Devices, CreateMode(d) \/ ResetEnd(d) \/ Release(d)
  PROVE  Reaching' /\ Wraps'
<1>1. UNCHANGED <<appPrev, focus>>
  BY DEF CreateMode, ResetEnd, Release
<1>2. release_focus_window(d) \/ UNCHANGED <<table, wndproc, screensaver, focusVars>>
  <2>1. CASE CreateMode(d)
    <3>1. PICK r \in set_display_mode([size |-> args[d].size, rate |-> args[d].rate]) :
            \/ UNCHANGED <<table, wndproc, screensaver, focusVars, life>>
            \/ release_focus_window(d)
      BY <2>1 DEF CreateMode
    <3> QED
      BY <3>1
  <2>2. CASE ResetEnd(d)
    BY <2>2 DEF ResetEnd
  <2>3. CASE Release(d)
    BY <2>3 DEF Release
  <2> QED
    BY <2>1, <2>2, <2>3
<1>3. CASE release_focus_window(d)
  BY <1>1, <1>3, GiveBackReaches DEF Wraps
<1>4. CASE UNCHANGED <<table, wndproc, screensaver, focusVars>>
  BY <1>1, <1>4, ReachingSame DEF Wraps, focusVars, tableVars
<1> QED
  BY <1>2, <1>3, <1>4

\* The handle's procedure goes back to the original while an entry may stay.
LEMMA DestroyReaches ==
  ASSUME Reaching, Wraps, NEW w \in Windows, Destroy(w)
  PROVE  Reaching' /\ Wraps'
<1>0. TableTypeOK /\ appPrev' = [appPrev EXCEPT ![w] = "none"] /\ UNCHANGED focus
  BY DEF Destroy, Reaching
<1>1. CASE wndproc' = [wndproc EXCEPT ![w] = "original"] /\ UNCHANGED <<table, screensaver, focusVars>>
  BY <1>0, <1>1, ReuseReaches DEF TableTypeOK, Wraps, focusVars
<1>2. ASSUME NEW d \in Devices, Dispatched(w, d), Unwrap(d),
             wndproc' = [ReleasedProcs(d) EXCEPT ![w] = "original"]
      PROVE  Reaching' /\ Wraps'
  <2>1. Wraps'
    BY <1>0, <1>2 DEF Unwrap, Wraps
  <2>2. table' = ReleasedTable(d)
    BY <1>2 DEF Unwrap
  <2>3. CASE wrapped[d] = NoWindow
    <3>1. table' = table /\ wndproc' = [wndproc EXCEPT ![w] = "original"]
      BY <1>2, <2>2, <2>3 DEF ReleasedTable, ReleasedProcs
    <3>2. table' \in [Windows -> Entries \cup {NoEntry}] /\ wndproc \in [Windows -> Procs]
      BY <1>0, <3>1 DEF TableTypeOK
    <3> QED
      BY <1>0, <2>1, <3>1, <3>2, ReuseReaches
  <2>4. CASE wrapped[d] # NoWindow
    <3> DEFINE u == wrapped[d]
    <3>1. u \in Windows
      BY <2>4 DEF Wraps
    <3>2. table' = TableWithout(u) /\ ReleasedProcs(d) = ProcsWithout(u)
      BY <2>2, <2>4 DEF ReleasedTable, ReleasedProcs
    <3> HIDE DEF u
    <3>3. Reaching'
      <4>1. ASSUME NEW v \in Windows, v # w
            PROVE  ReachingAt(v)'
        BY <1>0, <1>2, <3>1, <3>2, <4>1, WithoutAt
      <4>2. ReachingAt(w)'
        BY <1>0, <1>2, <3>1, <3>2, WithoutOthers DEF Reaching, ReachingAt, TableTypeOK
      <4>3. TableTypeOK'
        BY <1>0, <1>2, <3>1, <3>2, WithoutOthers DEF TableTypeOK, Procs
      <4> QED
        BY <4>1, <4>2, <4>3 DEF Reaching
    <3> QED
      BY <2>1, <3>3
  <2> QED
    BY <2>1, <2>3, <2>4
<1> QED
  BY <1>1, <1>2 DEF Destroy

LEMMA StepReaches == Reaching /\ Wraps /\ [Next]_vars => Reaching' /\ Wraps'
<1> SUFFICES ASSUME Reaching, Wraps, [Next]_vars PROVE Reaching' /\ Wraps'
  OBVIOUS
<1>0. ASSUME UNCHANGED <<tableVars, focus, focusVars>> PROVE Reaching' /\ Wraps'
  BY <1>0, ReachingSame DEF Wraps, focusVars
<1>1. CASE UNCHANGED vars
  BY <1>0, <1>1 DEF vars
<1>2. ASSUME NEW d \in Devices, NEW e \in Kinds, NEW f \in Focuses, NEW p \in Requests,
             CreateBegin(d, e, f, p)
      PROVE  Reaching' /\ Wraps'
  BY <1>2, CreateReaches
<1>3. ASSUME NEW d \in Devices, CreateMode(d) \/ ResetEnd(d) \/ Release(d)
      PROVE  Reaching' /\ Wraps'
  BY <1>3, CallReaches
<1>4. ASSUME NEW d \in Devices,
             CreateModeReturns(d) \/ CreateEnd(d) \/ ResetMode(d) \/ ResetModeReturns(d)
      PROVE  Reaching' /\ Wraps'
  BY <1>0, <1>4 DEF CreateModeReturns, CreateEnd, ResetMode, ResetModeReturns
<1>5. ASSUME NEW d \in Devices, NEW p \in Requests, ResetBegin(d, p)
      PROVE  Reaching' /\ Wraps'
  BY <1>5, ResetReaches
<1>6. ASSUME NEW d \in Devices, NEW p \in Requests, ResetUnchanged(d, p)
      PROVE  Reaching' /\ Wraps'
  BY <1>0, <1>6 DEF ResetUnchanged
<1>7. ASSUME NEW d \in Devices, NEW w \in Windows, Deactivate(w, d) \/ Activate(w, d)
      PROVE  Reaching' /\ Wraps'
  BY <1>0, <1>7 DEF Deactivate, Activate
<1>8. ASSUME NEW w \in Windows, Destroy(w) PROVE Reaching' /\ Wraps'
  BY <1>8, DestroyReaches
<1>9. ASSUME NEW w \in Windows, Application(w) PROVE Reaching' /\ Wraps'
  BY <1>9, ApplicationReaches DEF Application, Wraps, focusVars
<1>10. CASE ThirdParty
  BY <1>0, <1>10 DEF ThirdParty
<1> QED
  BY <1>1, <1>2, <1>3, <1>4, <1>5, <1>6, <1>7, <1>8, <1>9, <1>10 DEF Next

LEMMA ReachingFinds == Reaching => OriginalReached
  BY DEF Reaching, ReachingAt, OriginalReached, NineCallsOriginal

\* Whatever devices, resets, failures, destroyed windows and subclassing
\* applications do, in any order and in the middle of calls: a message finds
\* the window's own procedure, and never runs in a circle (wndproc.c:104,
\* 202).
THEOREM MessagesFindOriginal == Spec => []OriginalReached
<1>1. Init => Reaching /\ Wraps
  BY ReachingInit DEF Init, Wraps
<1> QED
  BY <1>1, StepReaches, ReachingFinds, PTL DEF Spec

---------------------------------------------------------------------------
(* No entry outlives its device. *)

\* Every device is given a focus window at creation, as CreateDevice does
\* and CreateAdditionalPresent does not.
WithFocus == NoWindow \notin Focuses

\* What an entry says of its device ...
EntryKnows(w) ==
  table[w].present # NoDevice => Valid(table[w].present) /\ wrapped[table[w].present] = w

\* ... and what is known of the window that a device wrapped.
DeviceKnows(d) ==
  /\ wrapped[d] \in {NoWindow, focus[d]}
  /\ life[d] = "none" => wrapped[d] = NoWindow
  /\ life[d] # "none" \/ pc[d] # "idle" => focus[d] # NoWindow

Knows ==
  /\ life \in [Devices -> {"none", "creating", "live", "leaked", "freed"}]
  /\ pc \in [Devices -> PCs]
  /\ \A w \in Windows : EntryKnows(w)
  /\ \A d \in Devices : DeviceKnows(d)

EntriesKnow == TableTypeOK /\ Wraps /\ Knows

LEMMA EntriesInit == Init => EntriesKnow
<1> SUFFICES ASSUME Init PROVE EntriesKnow
  OBVIOUS
<1>1. TableTypeOK /\ Wraps
  BY ReachingInit DEF Reaching, Init, Wraps
<1>2. /\ life \in [Devices -> {"none", "creating", "live", "leaked", "freed"}]
      /\ pc \in [Devices -> PCs]
  BY DEF Init, PCs
<1>3. \A w \in Windows : EntryKnows(w)
  BY DEF Init, TableInit, NoEntry, EntryKnows
<1>4. \A d \in Devices : DeviceKnows(d)
  BY DEF Init, DeviceKnows
<1> QED
  BY <1>1, <1>2, <1>3, <1>4 DEF EntriesKnow, Knows

\* The entries know as long as no device goes from a valid to another life.
LEMMA EntriesStay ==
  ASSUME EntriesKnow, UNCHANGED <<table, wrapped>>, \A d \in Devices : Valid(d) => Valid(d)',
         NEW w \in Windows
  PROVE  EntryKnows(w)'
  BY EntryFields DEF EntriesKnow, Knows, EntryKnows, Valid

\* The device that registers a window wraps it; what it wrapped before, if
\* anything, was the same window.
LEMMA AcquireKnows ==
  ASSUME EntriesKnow, NEW d \in Devices, NEW f \in Windows, acquire_focus_window(d, f),
         wrapped[d] \in {NoWindow, f}, Valid(d)',
         \A x \in Devices : Valid(x) => Valid(x)',
         NEW w \in Windows
  PROVE  EntryKnows(w)'
<1>1. wrapped' = [wrapped EXCEPT ![d] = f] /\ wrapped \in [Devices -> Windows \cup {NoWindow}]
  BY DEF acquire_focus_window, EntriesKnow, Wraps
<1>2. CASE table' = table
  BY <1>1, <1>2, EntryFields, DeviceAssumption DEF EntriesKnow, Knows, EntryKnows, Valid
<1>3. CASE table' = [table EXCEPT ![f] = [proc |-> wndproc[f], present |-> d]]
  <2>1. CASE w = f
    BY <1>1, <1>3, <2>1 DEF EntriesKnow, TableTypeOK, Knows, EntryKnows, Valid
  <2>2. CASE w # f
    <3>1. table'[w] = table[w]
      BY <1>3, <2>2 DEF EntriesKnow, TableTypeOK
    <3> QED
      BY <1>1, <2>2, <3>1, EntryFields, DeviceAssumption DEF EntriesKnow, Knows, EntryKnows, Valid
  <2> QED
    BY <2>1, <2>2
<1> QED
  BY <1>2, <1>3 DEF acquire_focus_window, nine_register_window

\* The device that gives its window back leaves no entry behind.
LEMMA UnwrapKnows ==
  ASSUME EntriesKnow, NEW d \in Devices, Unwrap(d),
         \A x \in Devices \ {d} : Valid(x) => Valid(x)',
         NEW w \in Windows
  PROVE  EntryKnows(w)'
<1>1. wrapped' = [wrapped EXCEPT ![d] = NoWindow] /\ wrapped \in [Devices -> Windows \cup {NoWindow}]
  BY DEF Unwrap, EntriesKnow, Wraps
<1>2. table'[w].present # NoDevice => table'[w] = table[w] /\ table[w].present # d
  <2>1. CASE wrapped[d] = NoWindow
    BY <2>1, DeviceAssumption DEF Unwrap, ReleasedTable, EntriesKnow, Knows, EntryKnows
  <2>2. CASE wrapped[d] # NoWindow /\ w # wrapped[d]
    BY <1>1, <2>2, WithoutOthers DEF Unwrap, ReleasedTable, EntriesKnow, Knows, EntryKnows
  <2>3. CASE wrapped[d] # NoWindow /\ w = wrapped[d]
    <3>1. table'[w] = IF Registered(w) /\ wndproc[w] # "nine"
                      THEN [table[w] EXCEPT !.present = NoDevice] ELSE NoEntry
      BY <2>3 DEF Unwrap, ReleasedTable, TableWithout, EntriesKnow, TableTypeOK
    <3>2. Registered(w) => [table[w] EXCEPT !.present = NoDevice].present = NoDevice
      BY EntryFields DEF EntriesKnow, Entries
    <3> QED
      BY <3>1, <3>2 DEF NoEntry
  <2> QED
    BY <2>1, <2>2, <2>3
<1> QED
  BY <1>1, <1>2, EntryFields DEF EntriesKnow, Knows, EntryKnows, Valid

LEMMA CreateKnows ==
  ASSUME EntriesKnow, WithFocus, NEW d \in Devices, NEW e \in Kinds, NEW f \in Focuses,
         NEW p \in Requests, CreateBegin(d, e, f, p)
  PROVE  Knows'
<1> DEFINE w == IF p.window = NoWindow THEN f ELSE p.window
           fw == IF f = NoWindow THEN w ELSE f
<1>1. f \in Windows /\ f # NoWindow /\ fw = f
  BY DeviceAssumption DEF WithFocus
<1>2. /\ wrapped[d] = NoWindow /\ life[d] = "none" /\ pc[d] = "idle"
      /\ focus' = [focus EXCEPT ![d] = f]
  BY DEF CreateBegin, EntriesKnow, Knows, DeviceKnows
<1>3. PICK l \in {"creating", "leaked"}, c \in PCs :
        /\ life' = [life EXCEPT ![d] = l] /\ pc' = [pc EXCEPT ![d] = c]
  BY DEF CreateBegin, GoOn, Return, PCs
<1>4. acquire_focus_window(d, fw) \/ UNCHANGED <<table, wndproc, focusVars, screensaver>>
  BY DEF CreateBegin
<1> HIDE DEF fw
<1>5. /\ life' \in [Devices -> {"none", "creating", "live", "leaked", "freed"}]
      /\ pc' \in [Devices -> PCs] /\ Valid(d)'
      /\ \A x \in Devices : Valid(x) => Valid(x)'
  BY <1>2, <1>3 DEF EntriesKnow, Knows, Valid
<1>6. wrapped' = [wrapped EXCEPT ![d] = f] \/ wrapped' = wrapped
  BY <1>1, <1>4 DEF acquire_focus_window, focusVars
<1>7. \A x \in Devices : DeviceKnows(x)'
  BY <1>1, <1>2, <1>3, <1>6 DEF EntriesKnow, Knows, Wraps, DeviceKnows
<1>8. ASSUME NEW v \in Windows PROVE EntryKnows(v)'
  <2>1. CASE acquire_focus_window(d, fw)
    BY <1>1, <1>2, <1>5, <2>1, AcquireKnows
  <2>2. CASE UNCHANGED <<table, wndproc, focusVars, screensaver>>
    BY <1>5, <2>2, EntriesStay DEF focusVars
  <2> QED
    BY <1>4, <2>1, <2>2
<1> QED
  BY <1>5, <1>7, <1>8 DEF Knows

LEMMA ResetKnows ==
  ASSUME EntriesKnow, NEW d \in Devices, NEW p \in Requests, ResetBegin(d, p)
  PROVE  Knows'
<1> DEFINE fw == IF focus[d] = NoWindow THEN p.window ELSE focus[d]
<1>1. /\ focus[d] \in Windows /\ fw = focus[d] /\ wrapped[d] \in {NoWindow, fw}
      /\ life[d] = "live" /\ UNCHANGED <<life, focus>>
  BY DEF ResetBegin, TakeOver, EntriesKnow, Knows, Wraps, DeviceKnows
<1>2. PICK c \in PCs : pc' = [pc EXCEPT ![d] = c]
  BY DEF ResetBegin, GoOn, Return, PCs
<1>3. acquire_focus_window(d, fw) \/ UNCHANGED <<table, wndproc, focusVars, screensaver>>
  BY DEF ResetBegin
<1> HIDE DEF fw
<1>4. Valid(d)' /\ \A x \in Devices : Valid(x) => Valid(x)'
  BY <1>1 DEF Valid
<1>5. wrapped' = [wrapped EXCEPT ![d] = fw] \/ wrapped' = wrapped
  BY <1>3 DEF acquire_focus_window, focusVars
<1>6. /\ life' \in [Devices -> {"none", "creating", "live", "leaked", "freed"}]
      /\ pc' \in [Devices -> PCs]
      /\ \A x \in Devices : DeviceKnows(x)'
  BY <1>1, <1>2, <1>5, DeviceAssumption DEF EntriesKnow, Knows, Wraps, DeviceKnows
<1>7. ASSUME NEW v \in Windows PROVE EntryKnows(v)'
  <2>1. CASE acquire_focus_window(d, fw)
    BY <1>1, <1>4, <2>1, AcquireKnows
  <2>2. CASE UNCHANGED <<table, wndproc, focusVars, screensaver>>
    BY <1>4, <2>2, EntriesStay DEF focusVars
  <2> QED
    BY <1>3, <2>1, <2>2
<1> QED
  BY <1>6, <1>7 DEF Knows

\* A step of a call that leaves the windows alone, and frees no device.
LEMMA QuietKnows ==
  ASSUME EntriesKnow, UNCHANGED <<table, focus, wrapped>>,
         \/ UNCHANGED <<life, pc>>
         \/ \E d \in Devices, l \in {"creating", "live", "leaked"}, c \in PCs :
              /\ life[d] # "none" \/ pc[d] # "idle"
              /\ life' = [life EXCEPT ![d] = l] \/ UNCHANGED life
              /\ pc' = [pc EXCEPT ![d] = c]
  PROVE  Knows'
<1>1. /\ life' \in [Devices -> {"none", "creating", "live", "leaked", "freed"}]
      /\ pc' \in [Devices -> PCs]
      /\ \A x \in Devices : Valid(x) => Valid(x)'
      /\ \A x \in Devices : life'[x] = "none" => life[x] = "none"
      /\ \A x \in Devices :
           life'[x] # "none" \/ pc'[x] # "idle" => life[x] # "none" \/ pc[x] # "idle"
  BY DEF EntriesKnow, Knows, Valid
<1>2. \A x \in Devices : DeviceKnows(x)'
  BY <1>1 DEF EntriesKnow, Knows, DeviceKnows
<1>3. \A v \in Windows : EntryKnows(v)'
  BY <1>1, EntriesStay
<1> QED
  BY <1>1, <1>2, <1>3 DEF Knows

\* A step that gives the window of a device back, which may end its life.
LEMMA GiveBackKnows ==
  ASSUME EntriesKnow, NEW d \in Devices, Unwrap(d), UNCHANGED focus,
         life[d] # "none" \/ pc[d] # "idle",
         life' = [life EXCEPT ![d] = "freed"] \/ UNCHANGED life,
         NEW c \in PCs, pc' = [pc EXCEPT ![d] = c] \/ UNCHANGED pc
  PROVE  Knows'
<1>1. /\ life' \in [Devices -> {"none", "creating", "live", "leaked", "freed"}]
      /\ pc' \in [Devices -> PCs]
      /\ \A x \in Devices \ {d} : Valid(x) => Valid(x)'
      /\ \A x \in Devices : life'[x] = "none" => life[x] = "none"
      /\ \A x \in Devices :
           life'[x] # "none" \/ pc'[x] # "idle" => life[x] # "none" \/ pc[x] # "idle"
  BY DEF EntriesKnow, Knows, Valid
<1>2. wrapped' = [wrapped EXCEPT ![d] = NoWindow]
  BY DEF Unwrap
<1>3. \A x \in Devices : DeviceKnows(x)'
  BY <1>1, <1>2 DEF EntriesKnow, Knows, Wraps, DeviceKnows
<1>4. \A v \in Windows : EntryKnows(v)'
  BY <1>1, UnwrapKnows
<1> QED
  BY <1>1, <1>3, <1>4 DEF Knows

LEMMA CallKnows ==
  ASSUME EntriesKnow, "backend" \notin Failures, NEW d \in Devices,
         \/ CreateMode(d) \/ CreateModeReturns(d) \/ CreateEnd(d)
         \/ ResetMode(d) \/ ResetModeReturns(d) \/ ResetEnd(d) \/ Release(d)
  PROVE  Knows'
<1>1. CASE CreateMode(d)
  <2>1. pc[d] = "cmode" /\ UNCHANGED focus
    BY <1>1 DEF CreateMode
  <2>2. PICK r \in set_display_mode([size |-> args[d].size, rate |-> args[d].rate]) :
          \/ /\ GoOn(d, "cend", args[d]) \/ GoOn(d, "cset", args[d])
             /\ UNCHANGED <<table, focusVars, life>>
          \/ release_focus_window(d) /\ life' = [life EXCEPT ![d] = "freed"] /\ Return(d, "failed")
    BY <1>1 DEF CreateMode, CreateSet
  <2>3. CASE /\ GoOn(d, "cend", args[d]) \/ GoOn(d, "cset", args[d])
             /\ UNCHANGED <<table, focusVars, life>>
    <3>1. PICK c \in PCs : pc' = [pc EXCEPT ![d] = c]
      BY <2>3 DEF GoOn, PCs
    <3> QED
      BY <2>1, <2>3, <3>1, QuietKnows DEF focusVars
  <2>4. CASE release_focus_window(d) /\ life' = [life EXCEPT ![d] = "freed"] /\ Return(d, "failed")
    <3>1. pc' = [pc EXCEPT ![d] = "idle"] /\ "idle" \in PCs /\ Unwrap(d)
      BY <2>4 DEF Return, PCs, release_focus_window
    <3> QED
      BY <2>1, <2>4, <3>1, GiveBackKnows
  <2> QED
    BY <2>2, <2>3, <2>4
<1>2. CASE CreateEnd(d)
  <2>1. PICK l \in {"live", "leaked"} : life' = [life EXCEPT ![d] = l]
    BY <1>2 DEF CreateEnd
  <2>2. /\ pc[d] = "cend" /\ pc' = [pc EXCEPT ![d] = "idle"] /\ "idle" \in PCs
        /\ UNCHANGED <<table, focus, wrapped>>
    BY <1>2 DEF CreateEnd, Return, PCs, tableVars, focusVars
  <2> QED
    BY <2>1, <2>2, QuietKnows
<1>3. CASE ResetMode(d)
  <2>1. pc[d] = "rmode" /\ UNCHANGED <<table, focus, wrapped, life>>
    BY <1>3 DEF ResetMode, tableVars, focusVars
  <2>2. PICK c \in PCs : pc' = [pc EXCEPT ![d] = c]
    BY <1>3 DEF ResetMode, ResetSet, GoOn, Return, PCs
  <2> QED
    BY <2>1, <2>2, QuietKnows
<1>6. CASE CreateModeReturns(d) \/ ResetModeReturns(d)
  <2>1. pc[d] # "idle" /\ UNCHANGED <<table, focus, wrapped, life>>
    BY <1>6 DEF CreateModeReturns, ResetModeReturns, tableVars, focusVars
  <2>2. PICK c \in PCs : pc' = [pc EXCEPT ![d] = c]
    BY <1>6 DEF CreateModeReturns, CreateSet, ResetModeReturns, ResetSet, GoOn, PCs
  <2> QED
    BY <2>1, <2>2, QuietKnows
<1>4. CASE ResetEnd(d)
  <2>1. /\ pc[d] = "rend" /\ pc' = [pc EXCEPT ![d] = "idle"] /\ "idle" \in PCs
        /\ UNCHANGED <<focus, life>>
    BY <1>4 DEF ResetEnd, Resize, Return, PCs
  <2>2. Unwrap(d) \/ UNCHANGED <<table, wrapped>>
    BY <1>4 DEF ResetEnd, release_focus_window, focusVars
  <2> QED
    BY <2>1, <2>2, QuietKnows, GiveBackKnows
<1>5. CASE Release(d)
  <2>1. /\ life[d] = "live" /\ Unwrap(d) /\ UNCHANGED <<focus, pc>>
        /\ life' = [life EXCEPT ![d] = "freed"] /\ "idle" \in PCs
    BY <1>5 DEF Release, release_focus_window, callVars, PCs
  <2> QED
    BY <2>1, GiveBackKnows
<1> QED
  BY <1>1, <1>2, <1>3, <1>4, <1>5, <1>6

LEMMA StepKnows ==
  ASSUME WithFocus, "backend" \notin Failures
  PROVE  EntriesKnow /\ [Next]_vars => Knows'
<1> SUFFICES ASSUME EntriesKnow, [Next]_vars PROVE Knows'
  OBVIOUS
<1>0. ASSUME UNCHANGED <<table, focus, wrapped, life, pc>> PROVE Knows'
  BY <1>0, QuietKnows
<1>1. CASE UNCHANGED vars
  BY <1>0, <1>1 DEF vars, tableVars, focusVars, callVars
<1>2. ASSUME NEW d \in Devices, NEW e \in Kinds, NEW f \in Focuses, NEW p \in Requests,
             CreateBegin(d, e, f, p)
      PROVE  Knows'
  BY <1>2, CreateKnows
<1>3. ASSUME NEW d \in Devices,
             \/ CreateMode(d) \/ CreateModeReturns(d) \/ CreateEnd(d)
             \/ ResetMode(d) \/ ResetModeReturns(d) \/ ResetEnd(d) \/ Release(d)
      PROVE  Knows'
  BY <1>3, CallKnows
<1>4. ASSUME NEW d \in Devices, NEW p \in Requests, ResetBegin(d, p) PROVE Knows'
  BY <1>4, ResetKnows
<1>5. ASSUME NEW d \in Devices, NEW p \in Requests, ResetUnchanged(d, p) PROVE Knows'
  <2>1. /\ life[d] = "live" /\ pc' = [pc EXCEPT ![d] = "idle"] /\ "idle" \in PCs
        /\ UNCHANGED <<table, focus, wrapped, life>>
    BY <1>5 DEF ResetUnchanged, TakeOver, Resize, Return, PCs, tableVars, focusVars
  <2> QED
    BY <2>1, QuietKnows
<1>6. ASSUME NEW d \in Devices, NEW w \in Windows, Deactivate(w, d) \/ Activate(w, d)
      PROVE  Knows'
  BY <1>0, <1>6 DEF Deactivate, Activate, tableVars, focusVars, callVars
<1>7. ASSUME NEW w \in Windows, Destroy(w) PROVE Knows'
  <2>1. UNCHANGED <<focus, life, pc>> /\ "idle" \in PCs
    BY <1>7 DEF Destroy, callVars, PCs
  <2>2. CASE UNCHANGED <<table, wrapped>>
    BY <1>0, <2>1, <2>2
  <2>3. ASSUME NEW d \in Devices, Dispatched(w, d), Unwrap(d) PROVE Knows'
    <3>1. life[d] # "none"
      BY <2>3 DEF Dispatched, Valid
    <3> QED
      BY <2>1, <2>3, <3>1, GiveBackKnows
  <2> QED
    BY <1>7, <2>2, <2>3 DEF Destroy, focusVars
<1>8. ASSUME NEW w \in Windows, Application(w) PROVE Knows'
  BY <1>0, <1>8 DEF Application, Subclass, Unsubclass, focusVars, callVars
<1>9. CASE ThirdParty
  BY <1>0, <1>9 DEF ThirdParty, tableVars, focusVars, callVars
<1> QED
  BY <1>1, <1>2, <1>3, <1>4, <1>5, <1>6, <1>7, <1>8, <1>9 DEF Next

LEMMA KnowingLives == EntriesKnow => EntriesLive
  BY DEF EntriesKnow, Knows, EntryKnows, EntriesLive

\* With a focus window for every device, and a backend whose init does not
\* fail (present_create frees the device then without giving the window
\* back, present.c:1524), nine_wndproc never calls a device that is gone: an
\* entry names a device only as long as that device wraps the window.
THEOREM EntriesNeverDangle ==
  ASSUME WithFocus, "backend" \notin Failures
  PROVE  Spec => []EntriesLive
<1>1. Init => Reaching /\ Wraps /\ EntriesKnow
  BY ReachingInit, EntriesInit DEF EntriesKnow
<1>2. Reaching /\ Wraps /\ EntriesKnow /\ [Next]_vars => Reaching' /\ Wraps' /\ EntriesKnow'
  BY StepReaches, StepKnows DEF EntriesKnow, Reaching
<1> QED
  BY <1>1, <1>2, KnowingLives, PTL DEF Spec

---------------------------------------------------------------------------
(* A device hears the messages of its window. *)

OneDevice == \A d, e \in Devices : d = e

\* Without subclassing the table mirrors the windows: nine's procedure is in
\* those that have an entry, over their own, and each entry has its device.
PlainAt(w) ==
  IF Registered(w)
  THEN wndproc[w] = "nine" /\ table[w].proc = "original" /\ table[w].present \in Devices
  ELSE wndproc[w] = "original"

Plain ==
  /\ \A w \in Windows : PlainAt(w)
  /\ \A d \in Devices : wrapped[d] # NoWindow => Registered(wrapped[d])

LEMMA AcquirePlain ==
  ASSUME EntriesKnow, OneDevice, Plain, NEW d \in Devices, NEW f \in Windows,
         acquire_focus_window(d, f)
  PROVE  Plain'
<1>0. /\ TableTypeOK /\ wrapped' = [wrapped EXCEPT ![d] = f]
      /\ wrapped \in [Devices -> Windows \cup {NoWindow}]
  BY DEF acquire_focus_window, EntriesKnow, Wraps
<1>1. CASE Registered(f) /\ UNCHANGED <<table, wndproc>>
  BY <1>0, <1>1 DEF Plain, PlainAt, Registered, OneDevice
<1>2. CASE /\ ~Registered(f)
           /\ table' = [table EXCEPT ![f] = [proc |-> wndproc[f], present |-> d]]
           /\ wndproc' = [wndproc EXCEPT ![f] = "nine"]
  <2>1. table'[f] = [proc |-> "original", present |-> d] /\ wndproc'[f] = "nine"
    BY <1>0, <1>2 DEF Plain, PlainAt, TableTypeOK
  <2>2. Registered(f)' /\ PlainAt(f)'
    BY <2>1, TableAssumption DEF PlainAt, Registered, NoEntry
  <2>3. \A w \in Windows \ {f} : PlainAt(w)'
    BY <1>0, <1>2 DEF Plain, PlainAt, Registered, TableTypeOK
  <2> QED
    BY <1>0, <2>2, <2>3 DEF Plain, OneDevice
<1> QED
  BY <1>1, <1>2, DeviceAssumption DEF acquire_focus_window, nine_register_window

LEMMA UnwrapPlain ==
  ASSUME EntriesKnow, OneDevice, Plain, NEW d \in Devices, Unwrap(d),
         wndproc' = ReleasedProcs(d)
  PROVE  Plain'
<1>0. /\ TableTypeOK /\ wrapped' = [wrapped EXCEPT ![d] = NoWindow]
      /\ wrapped \in [Devices -> Windows \cup {NoWindow}]
  BY DEF Unwrap, EntriesKnow, Wraps
<1>1. \A e \in Devices : wrapped'[e] = NoWindow
  BY <1>0 DEF OneDevice
<1>2. CASE wrapped[d] = NoWindow
  BY <1>1, <1>2 DEF Unwrap, ReleasedTable, ReleasedProcs, Plain, PlainAt, Registered
<1>3. CASE wrapped[d] # NoWindow
  <2> DEFINE u == wrapped[d]
  <2>1. u \in Windows /\ table' = TableWithout(u) /\ wndproc' = ProcsWithout(u)
    BY <1>0, <1>3 DEF Unwrap, ReleasedTable, ReleasedProcs
  <2>2. Registered(u) /\ wndproc[u] = "nine" /\ table[u].proc = "original"
    BY <1>3, <2>1 DEF Plain, PlainAt
  <2> HIDE DEF u
  <2>3. table'[u] = NoEntry /\ wndproc'[u] = "original"
    BY <1>0, <2>1, <2>2 DEF TableWithout, ProcsWithout, TableTypeOK
  <2>4. \A w \in Windows \ {u} : table'[w] = table[w] /\ wndproc'[w] = wndproc[w]
    BY <1>0, <2>1 DEF TableWithout, ProcsWithout, TableTypeOK
  <2>5. ASSUME NEW w \in Windows PROVE PlainAt(w)'
    BY <2>3, <2>4 DEF Plain, PlainAt, Registered
  <2> QED
    BY <1>1, <2>5 DEF Plain
<1> QED
  BY <1>2, <1>3

LEMMA DestroyPlain ==
  ASSUME EntriesKnow, OneDevice, Plain, NEW w \in Windows, Destroy(w)
  PROVE  Plain'
<1>0. TableTypeOK
  BY DEF EntriesKnow
<1>1. ASSUME Receiver(w) = NoDevice, wndproc' = [wndproc EXCEPT ![w] = "original"],
             UNCHANGED <<table, focusVars>>
      PROVE  Plain'
  <2>1. ~Registered(w)
    BY <1>1, TableAssumption DEF Plain, PlainAt, Receiver, MessagesReachNine
  <2>2. wndproc' = wndproc
    BY <1>0, <1>1, <2>1 DEF Plain, PlainAt, TableTypeOK
  <2> QED
    BY <1>1, <2>2 DEF Plain, PlainAt, Registered, focusVars
<1>2. ASSUME NEW d \in Devices, Dispatched(w, d), Unwrap(d),
             wndproc' = [ReleasedProcs(d) EXCEPT ![w] = "original"]
      PROVE  Plain'
  <2>1. Registered(w) /\ table[w].present = d
    BY <1>2, TableAssumption DEF Dispatched, Receiver
  <2>2. wrapped[d] = w
    BY <2>1, TableAssumption DEF EntriesKnow, Knows, EntryKnows
  <2>3. w # NoWindow /\ ReleasedProcs(d) = [wndproc EXCEPT ![w] = "original"]
    BY <2>1, <2>2, DeviceAssumption DEF ReleasedProcs, ProcsWithout, Plain, PlainAt
  <2>4. wndproc' = ReleasedProcs(d)
    BY <1>0, <1>2, <2>3 DEF TableTypeOK
  <2> QED
    BY <1>2, <2>4, UnwrapPlain
<1> QED
  BY <1>1, <1>2 DEF Destroy

\* The device acquires its focus window, if any.
LEMMA BeginPlain ==
  ASSUME EntriesKnow, WithFocus, OneDevice, Plain, NEW d \in Devices, NEW p \in Requests,
         \/ ResetBegin(d, p)
         \/ \E e \in Kinds, f \in Focuses : CreateBegin(d, e, f, p)
  PROVE  Plain'
<1>0. ASSUME UNCHANGED <<table, wndproc, focusVars>> PROVE Plain'
  BY <1>0 DEF Plain, PlainAt, Registered, focusVars
<1>1. CASE ResetBegin(d, p)
  <2> DEFINE fw == IF focus[d] = NoWindow THEN p.window ELSE focus[d]
  <2>1. fw \in Windows
    BY <1>1 DEF ResetBegin, TakeOver, EntriesKnow, Knows, Wraps, DeviceKnows
  <2>2. acquire_focus_window(d, fw) \/ UNCHANGED <<table, wndproc, focusVars>>
    BY <1>1 DEF ResetBegin
  <2> QED
    BY <1>0, <2>1, <2>2, AcquirePlain
<1>2. ASSUME NEW e \in Kinds, NEW f \in Focuses, CreateBegin(d, e, f, p)
      PROVE  Plain'
  <2>1. f \in Windows /\ f # NoWindow
    BY DeviceAssumption DEF WithFocus
  <2>2. acquire_focus_window(d, f) \/ UNCHANGED <<table, wndproc, focusVars>>
    BY <1>2, <2>1 DEF CreateBegin
  <2> QED
    BY <1>0, <2>1, <2>2, AcquirePlain
<1> QED
  BY <1>1, <1>2

LEMMA StepPlain ==
  ASSUME WithFocus, OneDevice, "subclass" \notin Environment, EntriesKnow, Plain, [Next]_vars
  PROVE  Plain'
<1>0. ASSUME UNCHANGED <<table, wndproc, focusVars>> PROVE Plain'
  BY <1>0 DEF Plain, PlainAt, Registered, focusVars
<1>1. CASE UNCHANGED vars
  BY <1>0, <1>1 DEF vars, tableVars
<1>2. ASSUME NEW d \in Devices, NEW p \in Requests,
             \/ ResetBegin(d, p)
             \/ \E e \in Kinds, f \in Focuses : CreateBegin(d, e, f, p)
      PROVE  Plain'
  BY <1>2, BeginPlain
<1>3. ASSUME NEW d \in Devices, CreateMode(d) \/ ResetEnd(d) \/ Release(d)
      PROVE  Plain'
  <2>1. release_focus_window(d) \/ UNCHANGED <<table, wndproc, focusVars>>
    <3>1. CASE CreateMode(d)
      <4>1. PICK r \in set_display_mode([size |-> args[d].size, rate |-> args[d].rate]) :
              release_focus_window(d) \/ UNCHANGED <<table, wndproc, focusVars>>
        BY <3>1 DEF CreateMode
      <4> QED
        BY <4>1
    <3>2. CASE ResetEnd(d) \/ Release(d)
      BY <3>2 DEF ResetEnd, Release
    <3> QED
      BY <1>3, <3>1, <3>2
  <2> QED
    BY <1>0, <2>1, UnwrapPlain DEF release_focus_window
<1>4. ASSUME NEW d \in Devices,
             \/ CreateModeReturns(d) \/ CreateEnd(d) \/ ResetMode(d) \/ ResetModeReturns(d)
             \/ \E p \in Requests : ResetUnchanged(d, p)
             \/ \E w \in Windows : Deactivate(w, d) \/ Activate(w, d)
      PROVE  Plain'
  BY <1>0, <1>4 DEF CreateModeReturns, CreateEnd, ResetMode, ResetModeReturns, ResetUnchanged,
                    Deactivate, Activate, tableVars
<1>5. ASSUME NEW w \in Windows, Destroy(w) PROVE Plain'
  BY <1>5, DestroyPlain
<1>6. ASSUME NEW w \in Windows PROVE ~Application(w)
  BY DEF Application
<1>7. CASE ThirdParty
  BY <1>0, <1>7 DEF ThirdParty, tableVars
<1> QED
  BY <1>1, <1>2, <1>3, <1>4, <1>5, <1>6, <1>7 DEF Next

LEMMA PlainHears == OneDevice /\ EntriesKnow /\ Plain => HearsMessages
<1> SUFFICES ASSUME OneDevice, EntriesKnow, Plain, NEW d \in Devices, wrapped[d] # NoWindow
             PROVE  Receiver(wrapped[d]) = d
  BY DEF HearsMessages
<1>1. wrapped[d] \in Windows /\ Registered(wrapped[d])
  BY DEF EntriesKnow, Wraps, Plain
<1> QED
  BY <1>1 DEF Plain, PlainAt, Receiver, MessagesReachNine, OneDevice

\* One device that has a focus window hears the messages of every window it
\* wraps, through resets, failed ones, destroyed windows and reused handles,
\* as long as the application leaves the window procedure alone: the entry
\* is there and says so exactly while wrapped_wnd names the window.
THEOREM MessagesHeard ==
  ASSUME OneDevice, WithFocus, "backend" \notin Failures, "subclass" \notin Environment
  PROVE  Spec => []HearsMessages
<1>1. Init => Reaching /\ Wraps /\ EntriesKnow /\ Plain
  <2>1. Init => Plain
    BY DEF Init, TableInit, Plain, PlainAt, Registered
  <2> QED
    BY <2>1, ReachingInit, EntriesInit DEF EntriesKnow
<1>2. Reaching /\ Wraps /\ EntriesKnow /\ Plain /\ [Next]_vars
        => Reaching' /\ Wraps' /\ EntriesKnow' /\ Plain'
  BY StepReaches, StepKnows, StepPlain DEF EntriesKnow, Reaching
<1> QED
  BY <1>1, <1>2, PlainHears, PTL DEF Spec

---------------------------------------------------------------------------
(* A reset that fails leaves the size alone. *)

\* A device that present_create still works on is not live.
Sized ==
  /\ pc \in [Devices -> PCs]
  /\ life \in [Devices -> {"none", "creating", "live", "leaked", "freed"}]
  /\ \A d \in Devices : pc[d] \in {"cmode", "cset", "cend"} => life[d] = "creating"
  /\ DOMAIN size = Devices /\ DOMAIN last = Devices

\* What FailedKeepsSize says of a step.
SizeKept == \A d \in Devices : life[d] = "live" /\ size'[d] # size[d] => last'[d] = "ok"

\* A step of a call of d moves it and leaves the size.
LEMMA CallSized ==
  ASSUME Sized, NEW d \in Devices, UNCHANGED size,
         NEW c \in PCs, pc' = [pc EXCEPT ![d] = c], DOMAIN last' = Devices,
         life' = life \/ \E l \in {"creating", "live", "leaked", "freed"} : life' = [life EXCEPT ![d] = l],
         c \in {"cmode", "cset", "cend"} => life'[d] = "creating"
  PROVE  Sized' /\ SizeKept
  BY DEF Sized, SizeKept

LEMMA ResizeSized ==
  ASSUME Sized, NEW d \in Devices, NEW p, Resize(d, p), UNCHANGED life
  PROVE  Sized' /\ SizeKept
<1>1. ASSUME UNCHANGED size, Return(d, "failed") PROVE Sized' /\ SizeKept
  BY <1>1 DEF Return, PCs, Sized, SizeKept
<1>2. ASSUME NEW s, size' = [size EXCEPT ![d] = s], Return(d, "ok") PROVE Sized' /\ SizeKept
  BY <1>2 DEF Return, PCs, Sized, SizeKept
<1> QED
  BY <1>1, <1>2 DEF Resize

LEMMA StepSized == Sized /\ [Next]_vars => Sized' /\ SizeKept
<1> SUFFICES ASSUME Sized, [Next]_vars PROVE Sized' /\ SizeKept
  OBVIOUS
<1>0. ASSUME UNCHANGED <<size, pc, life, last>> PROVE Sized' /\ SizeKept
  BY <1>0 DEF Sized, SizeKept
<1>1. CASE UNCHANGED vars
  BY <1>0, <1>1 DEF vars, paramVars, callVars
<1>2. ASSUME NEW d \in Devices, NEW e \in Kinds, NEW f \in Focuses, NEW p \in Requests,
             CreateBegin(d, e, f, p)
      PROVE  Sized' /\ SizeKept
  <2>1. UNCHANGED size /\ DOMAIN last' = Devices
    BY <1>2 DEF CreateBegin, paramVars, GoOn, Return, Sized
  <2>2. PICK l \in {"creating", "leaked"}, c \in PCs :
          /\ life' = [life EXCEPT ![d] = l] /\ pc' = [pc EXCEPT ![d] = c]
          /\ c \in {"cmode", "cset", "cend"} => l = "creating"
    BY <1>2 DEF CreateBegin, GoOn, Return, PCs
  <2>3. life'[d] = l
    BY <2>2 DEF Sized
  <2> QED
    BY <2>1, <2>2, <2>3, CallSized
<1>3. ASSUME NEW d \in Devices, CreateMode(d) PROVE Sized' /\ SizeKept
  <2>1. UNCHANGED size /\ life[d] = "creating"
    BY <1>3 DEF CreateMode, paramVars, Sized
  <2>2. PICK r \in set_display_mode([size |-> args[d].size, rate |-> args[d].rate]) :
          \/ (GoOn(d, "cend", args[d]) \/ GoOn(d, "cset", args[d])) /\ UNCHANGED life
          \/ Return(d, "failed") /\ life' = [life EXCEPT ![d] = "freed"]
    BY <1>3 DEF CreateMode, CreateSet
  <2>3. CASE (GoOn(d, "cend", args[d]) \/ GoOn(d, "cset", args[d])) /\ UNCHANGED life
    <3>1. PICK c \in PCs : pc' = [pc EXCEPT ![d] = c]
      BY <2>3 DEF GoOn, PCs
    <3>2. DOMAIN last' = Devices
      BY <2>3 DEF GoOn, Sized
    <3> QED
      BY <2>1, <2>3, <3>1, <3>2, CallSized
  <2>4. CASE Return(d, "failed") /\ life' = [life EXCEPT ![d] = "freed"]
    <3>1. pc' = [pc EXCEPT ![d] = "idle"] /\ "idle" \in PCs /\ DOMAIN last' = Devices
      BY <2>4 DEF Return, PCs, Sized
    <3> QED
      BY <2>1, <2>4, <3>1, CallSized
  <2> QED
    BY <2>2, <2>3, <2>4
<1>4. ASSUME NEW d \in Devices, CreateEnd(d) PROVE Sized' /\ SizeKept
  <2>0. PICK l \in {"live", "leaked", "freed"}, r \in {"ok", "failed"} :
          life' = [life EXCEPT ![d] = l] /\ Return(d, r)
    BY <1>4 DEF CreateEnd
  <2>1. PICK s : size' = [size EXCEPT ![d] = s]
    BY <1>4 DEF CreateEnd
  <2>2. life[d] = "creating"
    BY <1>4 DEF CreateEnd, Sized
  <2>3. pc' = [pc EXCEPT ![d] = "idle"] /\ "idle" \in PCs /\ DOMAIN last' = Devices
    BY <2>0 DEF Return, PCs, Sized
  <2> QED
    BY <2>0, <2>1, <2>2, <2>3 DEF Sized, SizeKept
<1>5. ASSUME NEW d \in Devices, NEW p \in Requests, ResetBegin(d, p) PROVE Sized' /\ SizeKept
  <2>1. UNCHANGED <<size, life>> /\ DOMAIN last' = Devices
    BY <1>5 DEF ResetBegin, GoOn, Return, Sized
  <2>2. PICK c \in {"rmode", "idle"} : pc' = [pc EXCEPT ![d] = c]
    BY <1>5 DEF ResetBegin, GoOn, Return
  <2>3. c \in PCs
    BY DEF PCs
  <2> QED
    BY <2>1, <2>2, <2>3, CallSized
<1>6. ASSUME NEW d \in Devices, ResetMode(d) PROVE Sized' /\ SizeKept
  <2>1. UNCHANGED <<size, life>> /\ DOMAIN last' = Devices
    BY <1>6 DEF ResetMode, ResetSet, GoOn, Return, Sized, paramVars
  <2>2. PICK c \in {"rset", "rend", "idle"} : pc' = [pc EXCEPT ![d] = c]
    BY <1>6 DEF ResetMode, ResetSet, GoOn, Return
  <2>3. c \in PCs
    BY DEF PCs
  <2> QED
    BY <2>1, <2>2, <2>3, CallSized
<1>12. ASSUME NEW d \in Devices, CreateModeReturns(d) \/ ResetModeReturns(d)
       PROVE  Sized' /\ SizeKept
  <2>1. UNCHANGED <<size, life>> /\ DOMAIN last' = Devices
    BY <1>12 DEF CreateModeReturns, CreateSet, ResetModeReturns, ResetSet, GoOn, Sized, paramVars
  <2>2. \/ pc[d] = "cset" /\ pc' = [pc EXCEPT ![d] = "cend"]
        \/ pc' = [pc EXCEPT ![d] = "rend"]
    BY <1>12 DEF CreateModeReturns, CreateSet, ResetModeReturns, ResetSet, GoOn
  <2>3. "cend" \in PCs /\ "rend" \in PCs /\ (pc[d] = "cset" => life[d] = "creating")
    BY DEF PCs, Sized
  <2> QED
    BY <2>1, <2>2, <2>3, CallSized
<1>7. ASSUME NEW d \in Devices, ResetEnd(d) \/ \E p \in Requests : ResetUnchanged(d, p)
      PROVE  Sized' /\ SizeKept
  <2>1. PICK p : Resize(d, p) /\ UNCHANGED life
    BY <1>7 DEF ResetEnd, ResetUnchanged
  <2> QED
    BY <2>1, ResizeSized
<1>8. ASSUME NEW d \in Devices, Release(d) PROVE Sized' /\ SizeKept
  BY <1>8 DEF Release, Sized, SizeKept, paramVars, callVars
<1>9. ASSUME NEW d \in Devices, NEW w \in Windows, Deactivate(w, d) \/ Activate(w, d)
      PROVE  Sized' /\ SizeKept
  BY <1>0, <1>9 DEF Deactivate, Activate, paramVars, callVars
<1>10. ASSUME NEW w \in Windows, Destroy(w) \/ Application(w) PROVE Sized' /\ SizeKept
  BY <1>0, <1>10 DEF Destroy, Application, paramVars, callVars
<1>11. CASE ThirdParty
  BY <1>0, <1>11 DEF ThirdParty, paramVars, callVars
<1> QED
  BY <1>1, <1>2, <1>3, <1>4, <1>5, <1>6, <1>7, <1>8, <1>9, <1>10, <1>11, <1>12 DEF Next

\* The size of the back buffer changes with a reset that succeeds and with
\* nothing else: neither a call that fails half way, at whichever step, nor
\* a message or another device's call changes it (present.c:928).
THEOREM FailedResetsKeepSize == Spec => FailedKeepsSize
<1>1. Init => Sized
  BY DEF Init, Sized, PCs
<1>2. Sized /\ [Next]_vars => Sized' /\ [SizeKept]_vars
  BY StepSized
<1>3. [][SizeKept]_vars => FailedKeepsSize
  BY DEF FailedKeepsSize, SizeKept
<1> QED
  BY <1>1, <1>2, <1>3, PTL DEF Spec

---------------------------------------------------------------------------
(* Types. *)

\* The variables that neither the table nor the focus window are about.
Typed ==
  /\ mode \in Modes /\ screensaver \in BOOLEAN
  /\ winStyle \in [Windows -> {"framed", "bare"}]
  /\ life \in [Devices -> {"none", "creating", "live", "leaked", "freed"}]
  /\ ex \in [Devices -> BOOLEAN]
  /\ initial \in [Devices -> Asked]
  /\ restoreSaver \in [Devices -> BOOLEAN]
  /\ style \in [Devices -> {"none", "framed", "bare"}]
  /\ windowed \in [Devices -> BOOLEAN]
  /\ size \in [Devices -> Sizes \cup {NoSize}]
  /\ rate \in [Devices -> Rates \cup {0}]
  /\ devWin \in [Devices -> Windows \cup {NoWindow}]
  /\ mismatch \in [Devices -> BOOLEAN]
  /\ occluded \in [Devices -> BOOLEAN]
  /\ reapply \in [Devices -> BOOLEAN]
  /\ overtaken \subseteq Devices
  /\ pc \in [Devices -> PCs]
  /\ args \in [Devices -> Params]
  /\ last \in [Devices -> {"none", "ok", "failed"}]

\* A device has a window as soon as it is live, and a call that is under way
\* has one for it: setup_fullscreen_window and its like never work on no
\* window.  The mode to go back to has a size.
PlacedAt(d) ==
  /\ life[d] = "live" => devWin[d] \in Windows
  /\ pc[d] # "idle" => args[d].window \in Windows
  /\ pc[d] \in {"cmode", "cset", "cend"} => life[d] = "creating"
  /\ pc[d] \in {"rmode", "rset", "rend"} => life[d] = "live"
  /\ initial[d].size \in Sizes

Placed == \A d \in Devices : PlacedAt(d)

TypedAndPlaced == Typed /\ Placed

\* A fullscreen request names a size; set_display_mode refuses another when
\* the focus window is acquired already (present.c:824).
FullModes == \A p \in Requests : ~p.windowed => p.size # NoSize

LEMMA RequestFields ==
  ASSUME NEW p \in Requests
  PROVE  /\ p \in Params /\ p.windowed \in BOOLEAN /\ p.size \in Sizes \cup {NoSize}
         /\ p.rate \in Rates \cup {0} /\ p.window \in Windows \cup {NoWindow}
         /\ \A w \in Windows : [p EXCEPT !.window = w] \in Params
  BY DeviceAssumption DEF Params

LEMMA ParamFields ==
  ASSUME NEW p \in Params
  PROVE  /\ p.windowed \in BOOLEAN /\ p.size \in Sizes \cup {NoSize}
         /\ p.rate \in Rates \cup {0} /\ p.window \in Windows \cup {NoWindow}
         /\ [size |-> p.size, rate |-> p.rate] \in Asked
  BY DEF Params, Asked

LEMMA ModesAsked == \A m \in Modes : m \in Asked /\ m.size \in Sizes
  BY DEF Modes, Asked

LEMMA NoParamsTyped == NoParams \in Params
  BY DEF NoParams, Params

\* What set_display_mode makes of a request.
LEMMA ModeTyped ==
  ASSUME mode \in Modes, NEW m \in Asked, NEW r \in set_display_mode(m)
  PROVE  /\ r.ok \in BOOLEAN /\ r.mode \in Modes
         /\ r.asked \in Asked /\ r.asked.size = m.size
<1>0. /\ m.size \in Sizes \cup {NoSize} /\ m.rate \in Rates \cup {0}
      /\ Desktop.rate \in Rates /\ [m EXCEPT !.rate = 0] \in Asked
      /\ [m EXCEPT !.rate = 0].size = m.size
  BY DeviceAssumption DEF Asked, Modes
<1>1. CASE r = [ok |-> FALSE, mode |-> mode, asked |-> m]
  BY <1>1
<1>2. CASE r = [ok |-> TRUE, mode |-> mode, asked |-> m]
  BY <1>2
<1>3. ASSUME m.size # NoSize, NEW o \in Outcomes, r = ModeResult(m, o)
      PROVE  /\ r.ok \in BOOLEAN /\ r.mode \in Modes
             /\ r.asked \in Asked /\ r.asked.size = m.size
  <2>1. r.ok = (o # "fail")
    BY <1>3 DEF ModeResult
  <2>2. r.asked = m \/ r.asked = [m EXCEPT !.rate = 0]
    BY <1>3 DEF ModeResult
  <2>3. \/ r.mode = [size |-> m.size, rate |-> IF m.rate = 0 THEN Desktop.rate ELSE m.rate]
        \/ r.mode = [size |-> m.size, rate |-> Desktop.rate]
        \/ r.mode = mode
    BY <1>3 DEF ModeResult
  <2>4. r.mode \in Modes
    BY <1>0, <1>3, <2>3 DEF Modes
  <2> QED
    BY <1>0, <2>1, <2>2, <2>4
<1> QED
  BY <1>1, <1>2, <1>3 DEF set_display_mode

LEMMA TypedInit == Init => TypedAndPlaced
<1> SUFFICES ASSUME Init PROVE TypedAndPlaced
  OBVIOUS
<1>1. Desktop \in Modes /\ Desktop.size \in Sizes
  BY DeviceAssumption DEF Modes
<1>2. Typed
  BY <1>1, NoParamsTyped, ModesAsked DEF Init, Typed, PCs
<1>3. Placed
  BY <1>1 DEF Init, Placed, PlacedAt
<1> QED
  BY <1>2, <1>3 DEF TypedAndPlaced

\* What a call leaves in pc, args and last.
LEMMA CallTyped ==
  ASSUME Typed, NEW d \in Devices, NEW p \in Params,
         \/ GoOn(d, "cmode", p) \/ GoOn(d, "cset", p) \/ GoOn(d, "cend", p)
         \/ GoOn(d, "rmode", p) \/ GoOn(d, "rset", p) \/ GoOn(d, "rend", p)
         \/ Return(d, "ok") \/ Return(d, "failed")
  PROVE  /\ pc' \in [Devices -> PCs] /\ args' \in [Devices -> Params]
         /\ last' \in [Devices -> {"none", "ok", "failed"}]
  BY NoParamsTyped DEF Typed, GoOn, Return, PCs

\* resolution_mismatch after a change of mode.
LEMMA HeardTyped ==
  ASSUME Typed, NEW R, NEW m
  PROVE  Heard(R, m) \in [Devices -> BOOLEAN]
  BY DEF Typed, Heard, Lost

LEMMA OvertakenTyped ==
  ASSUME Typed, NEW m
  PROVE  Overtaken(m) \subseteq Devices
  BY DEF Typed, Overtaken

LEMMA CreateTyped ==
  ASSUME TypedAndPlaced, Wraps, NEW d \in Devices, NEW e \in Kinds, NEW f \in Focuses,
         NEW p \in Requests, CreateBegin(d, e, f, p)
  PROVE  TypedAndPlaced'
<1> DEFINE w == IF p.window = NoWindow THEN f ELSE p.window
           q == [p EXCEPT !.window = w]
           fw == IF f = NoWindow THEN w ELSE f
<1>0. Typed /\ Placed
  BY DEF TypedAndPlaced
<1>1. w \in Windows /\ q \in Params /\ q.window = w /\ e \in BOOLEAN
  BY RequestFields, DeviceAssumption DEF CreateBegin, Params
<1>2. /\ life[d] = "none" /\ pc[d] = "idle"
      /\ ex' = [ex EXCEPT ![d] = e] /\ initial' = [initial EXCEPT ![d] = mode]
      /\ UNCHANGED <<mode, winStyle, style, paramVars, flagVars>>
  BY DEF CreateBegin
<1>3. \/ life' = [life EXCEPT ![d] = "creating"] /\ GoOn(d, "cend", q)
      \/ life' = [life EXCEPT ![d] = "creating"] /\ GoOn(d, "cmode", q)
      \/ life' = [life EXCEPT ![d] = "leaked"] /\ Return(d, "failed")
  BY DEF CreateBegin
<1>4. acquire_focus_window(d, fw) \/ UNCHANGED <<table, wndproc, focusVars, screensaver>>
  BY DEF CreateBegin
<1> HIDE DEF w, q, fw
<1>5. /\ screensaver' \in BOOLEAN /\ restoreSaver' \in [Devices -> BOOLEAN]
  BY <1>0, <1>4 DEF acquire_focus_window, focusVars, Typed
<1>6. mode \in Asked /\ mode.size \in Sizes
  BY <1>0, ModesAsked DEF Typed
<1>7. /\ pc' \in [Devices -> PCs] /\ args' \in [Devices -> Params]
      /\ last' \in [Devices -> {"none", "ok", "failed"}]
  BY <1>0, <1>1, <1>3, CallTyped
<1>8. Typed'
  BY <1>0, <1>1, <1>2, <1>3, <1>5, <1>6, <1>7 DEF Typed, paramVars, flagVars
<1>9. Placed'
  BY <1>0, <1>1, <1>2, <1>3, <1>6 DEF Typed, Placed, PlacedAt, GoOn, Return, paramVars
<1> QED
  BY <1>8, <1>9 DEF TypedAndPlaced

LEMMA CreateSetTyped ==
  ASSUME TypedAndPlaced, NEW d \in Devices, pc[d] \in {"cmode", "cset"}, CreateSet(d),
         mode' \in Modes, overtaken' \subseteq Devices,
         UNCHANGED <<screensaver, life, ex, initial, focusVars, paramVars, occluded, reapply>>
  PROVE  TypedAndPlaced'
<1>0. /\ Typed /\ Placed /\ args[d] \in Params
      /\ life[d] = "creating" /\ args[d].window \in Windows
  BY DEF TypedAndPlaced, Typed, Placed, PlacedAt
<1>1. mismatch' \in [Devices -> BOOLEAN]
  BY <1>0 DEF CreateSet, Typed
<1>2. /\ style' \in [Devices -> {"none", "framed", "bare"}]
      /\ winStyle' \in [Windows -> {"framed", "bare"}]
  BY <1>0 DEF CreateSet, setup_fullscreen_window, Typed
<1>3. /\ pc' \in [Devices -> PCs] /\ args' \in [Devices -> Params]
      /\ last' \in [Devices -> {"none", "ok", "failed"}]
  BY <1>0, CallTyped DEF CreateSet
<1>4. Typed'
  BY <1>0, <1>1, <1>2, <1>3 DEF Typed, paramVars, focusVars
<1>5. Placed'
  BY <1>0 DEF CreateSet, Typed, Placed, PlacedAt, GoOn, paramVars
<1> QED
  BY <1>4, <1>5 DEF TypedAndPlaced

LEMMA CreateModeTyped ==
  ASSUME TypedAndPlaced, Wraps, NEW d \in Devices, CreateMode(d)
  PROVE  TypedAndPlaced'
<1> DEFINE m == [size |-> args[d].size, rate |-> args[d].rate]
<1>0. Typed /\ Placed /\ args[d] \in Params
  BY DEF TypedAndPlaced, Typed
<1>1. /\ pc[d] = "cmode" /\ life[d] = "creating" /\ args[d].window \in Windows
      /\ UNCHANGED <<ex, initial, paramVars, occluded, reapply>>
  BY <1>0 DEF CreateMode, Placed, PlacedAt
<1>2. PICK r \in set_display_mode(m) :
        /\ mode' = r.mode /\ overtaken' = Overtaken(r.mode)
        /\ \/ CreateSet(d) /\ UNCHANGED <<screensaver, focusVars, life>>
           \/ /\ mismatch' = Heard(Receivers, r.mode)
              /\ GoOn(d, "cset", args[d])
              /\ UNCHANGED <<screensaver, focusVars, life, winStyle, style>>
           \/ /\ release_focus_window(d)
              /\ life' = [life EXCEPT ![d] = "freed"]
              /\ Return(d, "failed")
              /\ UNCHANGED <<mismatch, winStyle, style>>
  BY <1>1 DEF CreateMode
<1>3. m \in Asked
  BY <1>0, ParamFields
<1> HIDE DEF m
<1>4. mode' \in Modes
  BY <1>0, <1>2, <1>3, ModeTyped DEF Typed
<1>a. overtaken' \subseteq Devices
  BY <1>0, <1>2, OvertakenTyped
<1>5. CASE CreateSet(d) /\ UNCHANGED <<screensaver, focusVars, life>>
  BY <1>1, <1>4, <1>5, <1>a, CreateSetTyped
<1>6. CASE /\ mismatch' = Heard(Receivers, r.mode)
           /\ GoOn(d, "cset", args[d])
           /\ UNCHANGED <<screensaver, focusVars, life, winStyle, style>>
  <2>1. mismatch' \in [Devices -> BOOLEAN]
    BY <1>0, <1>6, HeardTyped
  <2>2. /\ pc' \in [Devices -> PCs] /\ args' \in [Devices -> Params]
        /\ last' \in [Devices -> {"none", "ok", "failed"}]
    BY <1>0, <1>6, CallTyped
  <2>3. Typed'
    BY <1>0, <1>1, <1>4, <1>6, <1>a, <2>1, <2>2 DEF Typed, paramVars, focusVars
  <2>4. Placed'
    BY <1>0, <1>1, <1>6 DEF Typed, Placed, PlacedAt, GoOn, paramVars
  <2> QED
    BY <2>3, <2>4 DEF TypedAndPlaced
<1>7. CASE /\ release_focus_window(d)
           /\ life' = [life EXCEPT ![d] = "freed"]
           /\ Return(d, "failed")
           /\ UNCHANGED <<mismatch, winStyle, style>>
  <2>1. screensaver' \in BOOLEAN /\ restoreSaver' \in [Devices -> BOOLEAN]
    BY <1>0, <1>7 DEF release_focus_window, Unwrap, Typed
  <2>2. /\ pc' \in [Devices -> PCs] /\ args' \in [Devices -> Params]
        /\ last' \in [Devices -> {"none", "ok", "failed"}]
    BY <1>0, <1>7, CallTyped
  <2>3. Typed'
    BY <1>0, <1>1, <1>4, <1>7, <1>a, <2>1, <2>2 DEF Typed, paramVars
  <2>4. Placed'
    BY <1>0, <1>1, <1>7 DEF Typed, Placed, PlacedAt, Return, paramVars
  <2> QED
    BY <2>3, <2>4 DEF TypedAndPlaced
<1> QED
  BY <1>2, <1>5, <1>6, <1>7

LEMMA CreateModeReturnsTyped ==
  ASSUME TypedAndPlaced, NEW d \in Devices, CreateModeReturns(d)
  PROVE  TypedAndPlaced'
<1>1. mode' \in Modes /\ overtaken' \subseteq Devices
  BY DEF CreateModeReturns, TypedAndPlaced, Typed
<1> QED
  BY <1>1, CreateSetTyped DEF CreateModeReturns

LEMMA CreateEndTyped ==
  ASSUME TypedAndPlaced, NEW d \in Devices, CreateEnd(d)
  PROVE  TypedAndPlaced'
<1>0. Typed /\ Placed /\ args[d] \in Params
  BY DEF TypedAndPlaced, Typed
<1>1. /\ pc[d] = "cend" /\ args[d].window \in Windows
      /\ windowed' = [windowed EXCEPT ![d] = args[d].windowed]
      /\ rate' = [rate EXCEPT ![d] = args[d].rate]
      /\ devWin' = [devWin EXCEPT ![d] = args[d].window]
      /\ UNCHANGED <<systemVars, ex, initial, focusVars, style, flagVars>>
  BY <1>0 DEF CreateEnd, Placed, PlacedAt
<1>2. PICK s \in Sizes \cup {NoSize} : size' = [size EXCEPT ![d] = s]
  BY <1>0, ParamFields DEF CreateEnd
<1>3. PICK l \in {"live", "leaked", "freed"}, t \in {"ok", "failed"} :
        life' = [life EXCEPT ![d] = l] /\ Return(d, t)
  BY DEF CreateEnd
<1>4. /\ pc' \in [Devices -> PCs] /\ args' \in [Devices -> Params]
      /\ last' \in [Devices -> {"none", "ok", "failed"}]
  BY <1>0, <1>3, CallTyped
<1>5. /\ windowed' \in [Devices -> BOOLEAN] /\ rate' \in [Devices -> Rates \cup {0}]
      /\ devWin' \in [Devices -> Windows \cup {NoWindow}]
      /\ size' \in [Devices -> Sizes \cup {NoSize}]
  BY <1>0, <1>1, <1>2, ParamFields DEF Typed
<1>6. Typed'
  BY <1>0, <1>1, <1>3, <1>4, <1>5 DEF Typed, systemVars, focusVars, flagVars
<1>7. Placed'
  BY <1>0, <1>1, <1>3 DEF Typed, Placed, PlacedAt, Return
<1> QED
  BY <1>6, <1>7 DEF TypedAndPlaced

\* The request a reset goes on with.
LEMMA FullTyped ==
  ASSUME Typed, NEW d \in Devices, devWin[d] \in Windows, NEW p \in Requests
  PROVE  /\ Full(d, p) \in Params /\ Full(d, p).window \in Windows
         /\ Full(d, p).windowed = p.windowed /\ Full(d, p).size = p.size
         /\ Full(d, p).rate = p.rate
         /\ Full(d, p).window = IF p.window = NoWindow THEN devWin[d] ELSE p.window
<1>1. Full(d, p) = [p EXCEPT !.window = IF p.window = NoWindow THEN devWin[d] ELSE p.window]
  BY RequestFields DEF Full, Params
<1> QED
  BY <1>1, RequestFields DEF Params

LEMMA TakeOverTyped ==
  ASSUME TypedAndPlaced, NEW d \in Devices, NEW p \in Requests, TakeOver(d, p)
  PROVE  /\ rate' \in [Devices -> Rates \cup {0}]
         /\ devWin' \in [Devices -> Windows \cup {NoWindow}]
         /\ devWin[d] \in Windows /\ devWin'[d] \in Windows
         /\ devWin'[d] = IF p.window = NoWindow THEN devWin[d] ELSE p.window
         /\ \A x \in Devices \ {d} : devWin'[x] = devWin[x]
<1>1. /\ Typed /\ devWin[d] \in Windows
  BY DEF TypedAndPlaced, Placed, PlacedAt, TakeOver
<1>2. p.rate \in Rates \cup {0} /\ p.window \in Windows \cup {NoWindow}
  BY RequestFields
<1> QED
  BY <1>1, <1>2 DEF TakeOver, Typed

LEMMA ResetBeginTyped ==
  ASSUME TypedAndPlaced, NEW d \in Devices, NEW p \in Requests, ResetBegin(d, p)
  PROVE  TypedAndPlaced'
<1> DEFINE fw == IF focus[d] = NoWindow THEN p.window ELSE focus[d]
           q == Full(d, p)
<1>0. Typed /\ Placed /\ TakeOver(d, p) /\ life[d] = "live"
  BY DEF TypedAndPlaced, ResetBegin, TakeOver
<1>1. UNCHANGED <<mode, winStyle, life, ex, initial, style, windowed, size, flagVars>>
  BY DEF ResetBegin
<1>2. \/ GoOn(d, "rmode", q) /\ UNCHANGED <<focusVars, screensaver>>
      \/ GoOn(d, "rmode", q) /\ acquire_focus_window(d, fw)
      \/ Return(d, "failed") /\ UNCHANGED <<focusVars, screensaver>>
  BY DEF ResetBegin
<1>3. q \in Params /\ q.window \in Windows
  BY <1>0, TakeOverTyped, FullTyped
<1> HIDE DEF fw, q
<1>4. /\ screensaver' \in BOOLEAN /\ restoreSaver' \in [Devices -> BOOLEAN]
  BY <1>0, <1>2 DEF acquire_focus_window, focusVars, Typed
<1>5. /\ pc' \in [Devices -> PCs] /\ args' \in [Devices -> Params]
      /\ last' \in [Devices -> {"none", "ok", "failed"}]
  BY <1>0, <1>2, <1>3, CallTyped
<1>6. Typed'
  BY <1>0, <1>1, <1>4, <1>5, TakeOverTyped DEF Typed, flagVars
<1>7. ASSUME NEW x \in Devices PROVE PlacedAt(x)'
  <2>1. CASE x = d
    BY <1>0, <1>1, <1>2, <1>3, <2>1, TakeOverTyped DEF Typed, Placed, PlacedAt, GoOn, Return
  <2>2. CASE x # d
    BY <1>0, <1>1, <1>2, <2>2, TakeOverTyped DEF Typed, Placed, PlacedAt, GoOn, Return
  <2> QED
    BY <2>1, <2>2
<1> QED
  BY <1>6, <1>7 DEF TypedAndPlaced, Placed

LEMMA ResetModeTyped ==
  ASSUME TypedAndPlaced, NEW d \in Devices, ResetMode(d)
  PROVE  TypedAndPlaced'
<1> DEFINE p == args[d]
           m == IF p.windowed THEN initial[d] ELSE [size |-> p.size, rate |-> p.rate]
<1>0. Typed /\ Placed /\ p \in Params /\ p.window \in Windows /\ life[d] = "live"
  BY DEF TypedAndPlaced, Typed, Placed, PlacedAt, ResetMode
<1>1. /\ reapply' = [reapply EXCEPT ![d] = FALSE]
      /\ UNCHANGED <<screensaver, winStyle, life, ex, focusVars, style, paramVars, occluded>>
  BY DEF ResetMode
<1>2. m \in Asked
  BY <1>0, ParamFields DEF Typed
<1>3. \/ GoOn(d, "rend", p) /\ UNCHANGED <<mode, mismatch, overtaken, initial>>
      \/ \E r \in set_display_mode(m) :
           /\ mode' = r.mode
           /\ overtaken' = Overtaken(r.mode) \ (IF r.ok THEN {d} ELSE {})
           /\ initial' = IF p.windowed THEN [initial EXCEPT ![d] = r.asked] ELSE initial
           /\ \/ ResetSet(d)
              \/ mismatch' = Heard(Receivers, r.mode) /\ GoOn(d, "rset", p)
              \/ UNCHANGED mismatch /\ Return(d, "failed")
  BY DEF ResetMode
<1>a. p.windowed => m = initial[d]
  OBVIOUS
<1> HIDE DEF m
<1>4. /\ mode' \in Modes /\ initial' \in [Devices -> Asked]
      /\ mismatch' \in [Devices -> BOOLEAN] /\ overtaken' \subseteq Devices
      /\ \A x \in Devices : initial'[x].size \in Sizes
      /\ GoOn(d, "rend", p) \/ GoOn(d, "rset", p) \/ Return(d, "failed")
  <2>1. CASE GoOn(d, "rend", p) /\ UNCHANGED <<mode, mismatch, overtaken, initial>>
    BY <1>0, <2>1 DEF Typed, Placed, PlacedAt
  <2>2. ASSUME NEW r \in set_display_mode(m),
               mode' = r.mode,
               overtaken' = Overtaken(r.mode) \ (IF r.ok THEN {d} ELSE {}),
               initial' = IF p.windowed THEN [initial EXCEPT ![d] = r.asked] ELSE initial,
               \/ ResetSet(d)
               \/ mismatch' = Heard(Receivers, r.mode) /\ GoOn(d, "rset", p)
               \/ UNCHANGED mismatch /\ Return(d, "failed")
        PROVE <1>4!:
    <3>1. r.mode \in Modes /\ r.asked \in Asked /\ r.asked.size = m.size
      BY <1>0, <1>2, ModeTyped DEF Typed
    <3>2. p.windowed => m.size \in Sizes
      BY <1>0, <1>a DEF Placed, PlacedAt
    <3>3. mismatch' \in [Devices -> BOOLEAN]
      <4>1. Heard(Receivers, r.mode) \in [Devices -> BOOLEAN] /\ mismatch \in [Devices -> BOOLEAN]
        <5>1. Heard(Receivers, r.mode) \in [Devices -> BOOLEAN]
          BY <1>0, HeardTyped
        <5> QED
          BY <1>0, <5>1 DEF Typed
      <4> QED
        BY <2>2, <4>1 DEF ResetSet
    <3>5. overtaken' \subseteq Devices
      <4>1. Overtaken(r.mode) \subseteq Devices
        BY <1>0, OvertakenTyped
      <4> QED
        BY <2>2, <4>1
    <3>6. GoOn(d, "rend", p) \/ GoOn(d, "rset", p) \/ Return(d, "failed")
      BY <2>2 DEF ResetSet
    <3>4. initial' \in [Devices -> Asked] /\ \A x \in Devices : initial'[x].size \in Sizes
      BY <1>0, <2>2, <3>1, <3>2 DEF Typed, Placed, PlacedAt
    <3> QED
      BY <2>2, <3>1, <3>3, <3>4, <3>5, <3>6
  <2> QED
    BY <1>3, <2>1, <2>2
<1>5. /\ pc' \in [Devices -> PCs] /\ args' \in [Devices -> Params]
      /\ last' \in [Devices -> {"none", "ok", "failed"}]
  BY <1>0, <1>4, CallTyped
<1> HIDE DEF p
<1>6. Typed'
  BY <1>0, <1>1, <1>4, <1>5 DEF Typed, paramVars, focusVars
<1>7. Placed'
  BY <1>0, <1>1, <1>4 DEF Typed, Placed, PlacedAt, GoOn, Return, paramVars
<1> QED
  BY <1>6, <1>7 DEF TypedAndPlaced

LEMMA ResetModeReturnsTyped ==
  ASSUME TypedAndPlaced, NEW d \in Devices, ResetModeReturns(d)
  PROVE  TypedAndPlaced'
<1>0. /\ Typed /\ Placed /\ args[d] \in Params
      /\ args[d].window \in Windows /\ life[d] = "live"
  BY DEF TypedAndPlaced, Typed, Placed, PlacedAt, ResetModeReturns
<1>1. /\ mismatch' = [mismatch EXCEPT ![d] = FALSE] /\ GoOn(d, "rend", args[d])
      /\ UNCHANGED <<systemVars, life, ex, initial, focusVars, style, paramVars, occluded, reapply,
                     overtaken>>
  BY DEF ResetModeReturns, ResetSet
<1>2. /\ pc' \in [Devices -> PCs] /\ args' \in [Devices -> Params]
      /\ last' \in [Devices -> {"none", "ok", "failed"}]
  BY <1>0, <1>1, CallTyped
<1>3. Typed'
  BY <1>0, <1>1, <1>2 DEF Typed, systemVars, paramVars, focusVars
<1>4. Placed'
  BY <1>0, <1>1 DEF Typed, Placed, PlacedAt, GoOn, paramVars
<1> QED
  BY <1>3, <1>4 DEF TypedAndPlaced

\* Resize leaves a size and ends the call.
LEMMA ResizeTyped ==
  ASSUME Typed, NEW d \in Devices, NEW p \in Params, Resize(d, p)
  PROVE  /\ size' \in [Devices -> Sizes \cup {NoSize}]
         /\ Return(d, "ok") \/ Return(d, "failed")
         /\ pc' \in [Devices -> PCs] /\ args' \in [Devices -> Params]
         /\ last' \in [Devices -> {"none", "ok", "failed"}]
<1>1. Return(d, "ok") \/ Return(d, "failed")
  BY DEF Resize
<1>2. /\ pc' \in [Devices -> PCs] /\ args' \in [Devices -> Params]
      /\ last' \in [Devices -> {"none", "ok", "failed"}]
  BY <1>1, CallTyped
<1>3. size' \in [Devices -> Sizes \cup {NoSize}]
  BY ParamFields DEF Resize, Typed
<1> QED
  BY <1>1, <1>2, <1>3

LEMMA ResetEndTyped ==
  ASSUME TypedAndPlaced, NEW d \in Devices, ResetEnd(d)
  PROVE  TypedAndPlaced'
<1> DEFINE p == args[d]
<1>0. Typed /\ Placed /\ p \in Params /\ p.window \in Windows /\ life[d] = "live"
  BY DEF TypedAndPlaced, Typed, Placed, PlacedAt, ResetEnd
<1>1. /\ windowed' = [windowed EXCEPT ![d] = p.windowed] /\ Resize(d, p)
      /\ UNCHANGED <<mode, life, ex, initial, rate, devWin, flagVars>>
  BY DEF ResetEnd
<1>2. \/ setup_fullscreen_window(d, p.window)
      \/ style[d] # "none" /\ restore_fullscreen_window(d, p.window)
      \/ UNCHANGED <<winStyle, style>>
  BY DEF ResetEnd
<1>3. release_focus_window(d) \/ UNCHANGED <<table, wndproc, focusVars, screensaver>>
  BY DEF ResetEnd
<1>4. p.windowed \in BOOLEAN
  BY <1>0, ParamFields
<1>5. /\ size' \in [Devices -> Sizes \cup {NoSize}]
      /\ Return(d, "ok") \/ Return(d, "failed")
      /\ pc' \in [Devices -> PCs] /\ args' \in [Devices -> Params]
      /\ last' \in [Devices -> {"none", "ok", "failed"}]
  BY <1>0, <1>1, ResizeTyped
<1> HIDE DEF p
<1>6. /\ style' \in [Devices -> {"none", "framed", "bare"}]
      /\ winStyle' \in [Windows -> {"framed", "bare"}]
  BY <1>0, <1>2 DEF setup_fullscreen_window, restore_fullscreen_window, Typed
<1>7. screensaver' \in BOOLEAN /\ restoreSaver' \in [Devices -> BOOLEAN]
  BY <1>0, <1>3 DEF release_focus_window, Unwrap, Typed, focusVars
<1>8. Typed'
  BY <1>0, <1>1, <1>4, <1>5, <1>6, <1>7 DEF Typed, flagVars
<1>9. Placed'
  BY <1>0, <1>1, <1>5 DEF Typed, Placed, PlacedAt, Return
<1> QED
  BY <1>8, <1>9 DEF TypedAndPlaced

LEMMA ResetUnchangedTyped ==
  ASSUME TypedAndPlaced, NEW d \in Devices, NEW p \in Requests, ResetUnchanged(d, p)
  PROVE  TypedAndPlaced'
<1>0. Typed /\ Placed /\ TakeOver(d, p) /\ life[d] = "live" /\ p \in Params
  BY RequestFields DEF TypedAndPlaced, ResetUnchanged, TakeOver
<1>1. /\ Resize(d, p)
      /\ UNCHANGED <<mode, screensaver, life, ex, initial, focusVars, style, windowed, flagVars>>
      /\ \/ UNCHANGED winStyle
         \/ move_fullscreen_window(Full(d, p).window)
  BY DEF ResetUnchanged
<1>2. /\ size' \in [Devices -> Sizes \cup {NoSize}]
      /\ Return(d, "ok") \/ Return(d, "failed")
      /\ pc' \in [Devices -> PCs] /\ args' \in [Devices -> Params]
      /\ last' \in [Devices -> {"none", "ok", "failed"}]
  BY <1>0, <1>1, ResizeTyped
<1>3. winStyle' \in [Windows -> {"framed", "bare"}]
  BY <1>0, <1>1 DEF move_fullscreen_window, Typed
<1>4. Typed'
  BY <1>0, <1>1, <1>2, <1>3, TakeOverTyped DEF Typed, flagVars, focusVars
<1>5. Placed'
  BY <1>0, <1>1, <1>2, TakeOverTyped DEF Typed, Placed, PlacedAt, Return
<1> QED
  BY <1>4, <1>5 DEF TypedAndPlaced

\* A change of mode outside the calls.
LEMMA ModeStepTyped ==
  ASSUME TypedAndPlaced, NEW m \in Asked, NEW r \in set_display_mode(m), mode' = r.mode,
         NEW R, mismatch' = Heard(R, r.mode)
  PROVE  mode' \in Modes /\ mismatch' \in [Devices -> BOOLEAN]
  BY ModeTyped, HeardTyped DEF TypedAndPlaced, Typed

LEMMA ReleaseTyped ==
  ASSUME TypedAndPlaced, NEW d \in Devices, Release(d)
  PROVE  TypedAndPlaced'
<1>0. Typed /\ Placed /\ initial[d] \in Asked
  BY DEF TypedAndPlaced, Typed
<1>1. /\ life[d] = "live" /\ pc[d] = "idle" /\ life' = [life EXCEPT ![d] = "freed"]
      /\ release_focus_window(d)
      /\ UNCHANGED <<winStyle, ex, initial, style, paramVars, occluded, reapply, callVars>>
  BY DEF Release
<1>2. mode' \in Modes /\ mismatch' \in [Devices -> BOOLEAN]
  <2>1. PICK r \in set_display_mode(initial[d]) :
          mode' = r.mode /\ mismatch' = Heard(Receivers', r.mode)
    BY DEF Release
  <2> QED
    BY <1>0, <2>1, ModeStepTyped
<1>3. screensaver' \in BOOLEAN /\ restoreSaver' \in [Devices -> BOOLEAN]
  BY <1>0, <1>1 DEF release_focus_window, Unwrap, Typed
<1>a. overtaken' \subseteq Devices
  BY <1>0, OvertakenTyped DEF Release
<1>4. Typed'
  BY <1>0, <1>1, <1>2, <1>3, <1>a DEF Typed, paramVars, callVars
<1>5. Placed'
  BY <1>0, <1>1 DEF Typed, Placed, PlacedAt, paramVars, callVars
<1> QED
  BY <1>4, <1>5 DEF TypedAndPlaced

LEMMA ActivateTyped ==
  ASSUME TypedAndPlaced, NEW d \in Devices, NEW w \in Windows, Deactivate(w, d) \/ Activate(w, d)
  PROVE  TypedAndPlaced'
<1>0. Typed /\ Placed
  BY DEF TypedAndPlaced
<1>1. /\ UNCHANGED <<screensaver, winStyle, life, ex, initial, focusVars, style, paramVars, callVars>>
      /\ occluded' \in [Devices -> BOOLEAN] /\ reapply' \in [Devices -> BOOLEAN]
  BY <1>0 DEF Deactivate, Activate, Typed
<1>2. mode' \in Modes /\ mismatch' \in [Devices -> BOOLEAN]
  <2>1. CASE Deactivate(w, d)
    <3>1. PICK r \in set_display_mode(Desktop) :
            mode' = r.mode /\ mismatch' = Heard(Receivers, r.mode)
      BY <2>1 DEF Deactivate
    <3>2. Desktop \in Asked
      BY DeviceAssumption, ModesAsked
    <3> QED
      BY <3>1, <3>2, ModeStepTyped
  <2>2. CASE Activate(w, d)
    <3> DEFINE m == [size |-> size[d], rate |-> rate[d]]
    <3>1. \/ \E r \in set_display_mode(m) : mode' = r.mode /\ mismatch' = Heard(Receivers, r.mode)
          \/ mode' = mode /\ mismatch' = Heard(Receivers, mode)
      BY <2>2 DEF Activate
    <3>2. m \in Asked
      BY <1>0 DEF Typed, Asked
    <3> HIDE DEF m
    <3>3. CASE \E r \in set_display_mode(m) : mode' = r.mode /\ mismatch' = Heard(Receivers, r.mode)
      BY <3>2, <3>3, ModeStepTyped
    <3>4. CASE mode' = mode /\ mismatch' = Heard(Receivers, mode)
      BY <1>0, <3>4, HeardTyped DEF Typed
    <3> QED
      BY <3>1, <3>3, <3>4
  <2> QED
    BY <2>1, <2>2
<1>a. overtaken' \subseteq Devices
  BY <1>0, OvertakenTyped DEF Deactivate, Activate
<1>3. Typed'
  BY <1>0, <1>1, <1>2, <1>a DEF Typed, paramVars, callVars, focusVars
<1>4. Placed'
  BY <1>0, <1>1 DEF Typed, Placed, PlacedAt, paramVars, callVars
<1> QED
  BY <1>3, <1>4 DEF TypedAndPlaced

LEMMA OtherTyped ==
  ASSUME TypedAndPlaced, ThirdParty \/ \E w \in Windows : Destroy(w) \/ Application(w)
  PROVE  TypedAndPlaced'
<1>0. Typed /\ Placed
  BY DEF TypedAndPlaced
<1>1. UNCHANGED <<life, ex, initial, style, paramVars, occluded, reapply, callVars>>
  BY DEF ThirdParty, Destroy, Application, flagVars
<1>2. /\ mode' \in Modes /\ mismatch' \in [Devices -> BOOLEAN]
      /\ screensaver' \in BOOLEAN /\ restoreSaver' \in [Devices -> BOOLEAN]
      /\ winStyle' \in [Windows -> {"framed", "bare"}]
  <2>1. CASE ThirdParty
    <3>1. PICK m \in Modes : mode' = m /\ mismatch' = Heard(Receivers, m)
      BY <2>1 DEF ThirdParty
    <3> QED
      BY <1>0, <2>1, <3>1, HeardTyped DEF ThirdParty, Typed, focusVars
  <2>2. ASSUME NEW w \in Windows, Destroy(w) PROVE <1>2!:
    BY <1>0, <2>2 DEF Destroy, Unwrap, Typed, flagVars, focusVars
  <2>3. ASSUME NEW w \in Windows, Application(w) PROVE <1>2!:
    BY <1>0, <2>3 DEF Application, Typed, systemVars, flagVars, focusVars
  <2> QED
    BY <2>1, <2>2, <2>3
<1>a. overtaken' \subseteq Devices
  BY <1>0, OvertakenTyped DEF ThirdParty, Destroy, Application, flagVars, Typed
<1>3. Typed'
  BY <1>0, <1>1, <1>2, <1>a DEF Typed, paramVars, callVars
<1>4. Placed'
  BY <1>0, <1>1 DEF Typed, Placed, PlacedAt, paramVars, callVars
<1> QED
  BY <1>3, <1>4 DEF TypedAndPlaced

LEMMA StepTyped == TypedAndPlaced /\ Wraps /\ [Next]_vars => TypedAndPlaced'
<1> SUFFICES ASSUME TypedAndPlaced, Wraps, [Next]_vars PROVE TypedAndPlaced'
  OBVIOUS
<1>1. CASE UNCHANGED vars
  BY <1>1 DEF vars, systemVars, focusVars, paramVars, flagVars, callVars, TypedAndPlaced, Typed,
              Placed, PlacedAt
<1>2. ASSUME NEW d \in Devices, NEW e \in Kinds, NEW f \in Focuses, NEW p \in Requests,
             CreateBegin(d, e, f, p)
      PROVE  TypedAndPlaced'
  BY <1>2, CreateTyped
<1>3. ASSUME NEW d \in Devices,
             \/ CreateMode(d) \/ CreateModeReturns(d) \/ CreateEnd(d)
             \/ ResetMode(d) \/ ResetModeReturns(d) \/ ResetEnd(d) \/ Release(d)
      PROVE  TypedAndPlaced'
  BY <1>3, CreateModeTyped, CreateModeReturnsTyped, CreateEndTyped, ResetModeTyped,
     ResetModeReturnsTyped, ResetEndTyped, ReleaseTyped
<1>4. ASSUME NEW d \in Devices, NEW p \in Requests, ResetBegin(d, p) \/ ResetUnchanged(d, p)
      PROVE  TypedAndPlaced'
  BY <1>4, ResetBeginTyped, ResetUnchangedTyped
<1>5. ASSUME NEW d \in Devices, NEW w \in Windows, Deactivate(w, d) \/ Activate(w, d)
      PROVE  TypedAndPlaced'
  BY <1>5, ActivateTyped
<1>6. ASSUME NEW w \in Windows, Destroy(w) \/ Application(w) PROVE TypedAndPlaced'
  BY <1>6, OtherTyped
<1>7. CASE ThirdParty
  BY <1>7, OtherTyped
<1> QED
  BY <1>1, <1>2, <1>3, <1>4, <1>5, <1>6, <1>7 DEF Next

LEMMA TypedSuffices == Reaching /\ Wraps /\ TypedAndPlaced => TypeOK
  BY DEF Reaching, Wraps, TypedAndPlaced, Typed, TypeOK

\* Every variable has its type in every behaviour.  What it needs is that no
\* call works on a device without a window: present_create refuses to
\* make one (present.c:1436), and the window that a
\* reset does not name is the one of before (810).
THEOREM DeviceTypeCorrect == Spec => []TypeOK
<1>1. Init => Reaching /\ Wraps /\ TypedAndPlaced
  BY ReachingInit, TypedInit DEF Init, Wraps
<1>2. Reaching /\ Wraps /\ TypedAndPlaced /\ [Next]_vars => Reaching' /\ Wraps' /\ TypedAndPlaced'
  BY StepReaches, StepTyped
<1> QED
  BY <1>1, <1>2, TypedSuffices, PTL DEF Spec

---------------------------------------------------------------------------
(* In a window the device has no claim left. *)

\* Fullscreen requests are for window w, others for w or for the window of
\* before.
OneWindow(w) == \A p \in Requests : p.window = w \/ (p.windowed /\ p.window = NoWindow)

\* The saved style is the frame of w, and is there from the step that made
\* the window bare to the one that dresses it again; no other window is
\* touched.
DressedAt(d, w) ==
  /\ style[d] \in {"none", "framed"}
  /\ \A v \in Windows : winStyle[v] = "bare" => v = w /\ style[d] = "framed"
  /\ life[d] = "none" \/ pc[d] \in {"cmode", "cset"} => style[d] = "none"
  /\ pc[d] \in {"cmode", "cset"} => ~args[d].windowed
  /\ pc[d] = "cend" => style[d] = IF args[d].windowed THEN "none" ELSE "framed"
  /\ pc[d] \in {"cmode", "cset", "cend"} /\ ~args[d].windowed => args[d].window = w
  /\ life[d] = "live" => style[d] = IF windowed[d] THEN "none" ELSE "framed"
  /\ life[d] = "live" /\ ~windowed[d] => devWin[d] = w
  /\ pc[d] \in {"rmode", "rset", "rend"} /\ (~windowed[d] \/ ~args[d].windowed) =>
       args[d].window = w /\ devWin[d] = w

Dressed(w) == \A d \in Devices : DressedAt(d, w)

LEMMA DressedInit == ASSUME NEW w PROVE Init => Dressed(w)
  BY DEF Init, Dressed, DressedAt

LEMMA DressedSame ==
  ASSUME NEW w, Dressed(w), UNCHANGED <<winStyle, style, life, windowed, devWin, pc, args>>
  PROVE  Dressed(w)'
  BY DEF Dressed, DressedAt

LEMMA CreateDressed ==
  ASSUME NEW w \in Windows, OneWindow(w), OneDevice, TypedAndPlaced, Dressed(w),
         NEW d \in Devices, NEW e \in Kinds, NEW f \in Focuses, NEW p \in Requests,
         CreateBegin(d, e, f, p)
  PROVE  Dressed(w)'
<1> DEFINE v == IF p.window = NoWindow THEN f ELSE p.window
           q == [p EXCEPT !.window = v]
<1>0. Typed /\ DressedAt(d, w) /\ (p.window = w \/ (p.windowed /\ p.window = NoWindow))
  BY DEF TypedAndPlaced, Dressed, OneWindow
<1>1. q.window = v /\ q.windowed = p.windowed /\ (~p.windowed => v = w)
  BY <1>0, RequestFields, DeviceAssumption DEF Params
<1>2. /\ life[d] = "none" /\ UNCHANGED <<winStyle, style, windowed, devWin>>
      /\ \/ p.windowed /\ life' = [life EXCEPT ![d] = "creating"] /\ GoOn(d, "cend", q)
         \/ ~p.windowed /\ life' = [life EXCEPT ![d] = "creating"] /\ GoOn(d, "cmode", q)
         \/ life' = [life EXCEPT ![d] = "leaked"] /\ Return(d, "failed")
  BY DEF CreateBegin, paramVars
<1> HIDE DEF q
<1>3. DressedAt(d, w)'
  BY <1>0, <1>1, <1>2 DEF DressedAt, Typed, GoOn, Return
<1> QED
  BY <1>3 DEF Dressed, OneDevice

LEMMA CreateSetDressed ==
  ASSUME NEW w \in Windows, OneDevice, TypedAndPlaced, Dressed(w), NEW d \in Devices,
         pc[d] \in {"cmode", "cset"}, CreateSet(d), UNCHANGED <<windowed, devWin, life>>
  PROVE  Dressed(w)'
<1>0. Typed /\ DressedAt(d, w) /\ life[d] = "creating"
  BY DEF TypedAndPlaced, Dressed, Placed, PlacedAt
<1>1. args[d].window = w /\ ~args[d].windowed /\ winStyle[w] = "framed"
  BY <1>0 DEF DressedAt, Typed
<1>2. style' = [style EXCEPT ![d] = "framed"] /\ winStyle' = [winStyle EXCEPT ![w] = "bare"]
  BY <1>1 DEF CreateSet, setup_fullscreen_window
<1>3. GoOn(d, "cend", args[d])
  BY DEF CreateSet
<1>4. DressedAt(d, w)'
  BY <1>0, <1>1, <1>2, <1>3 DEF DressedAt, Typed, GoOn
<1> QED
  BY <1>4 DEF Dressed, OneDevice

LEMMA CreateModeDressed ==
  ASSUME NEW w \in Windows, OneDevice, TypedAndPlaced, Dressed(w), NEW d \in Devices, CreateMode(d)
  PROVE  Dressed(w)'
<1>0. Typed /\ DressedAt(d, w) /\ pc[d] = "cmode" /\ life[d] = "creating"
  BY DEF TypedAndPlaced, Dressed, CreateMode, Placed, PlacedAt
<1>1. /\ UNCHANGED <<windowed, devWin>>
      /\ \/ CreateSet(d) /\ UNCHANGED life
         \/ GoOn(d, "cset", args[d]) /\ UNCHANGED <<life, winStyle, style>>
         \/ /\ life' = [life EXCEPT ![d] = "freed"] /\ Return(d, "failed")
            /\ UNCHANGED <<winStyle, style>>
  <2>1. PICK r \in set_display_mode([size |-> args[d].size, rate |-> args[d].rate]) :
          \/ CreateSet(d) /\ UNCHANGED life
          \/ GoOn(d, "cset", args[d]) /\ UNCHANGED <<life, winStyle, style>>
          \/ /\ life' = [life EXCEPT ![d] = "freed"] /\ Return(d, "failed")
             /\ UNCHANGED <<winStyle, style>>
    BY DEF CreateMode
  <2> QED
    BY <2>1 DEF CreateMode, paramVars
<1>2. CASE CreateSet(d) /\ UNCHANGED life
  BY <1>0, <1>1, <1>2, CreateSetDressed
<1>3. CASE GoOn(d, "cset", args[d]) /\ UNCHANGED <<life, winStyle, style>>
  <2>1. DressedAt(d, w)'
    BY <1>0, <1>1, <1>3 DEF DressedAt, Typed, GoOn
  <2> QED
    BY <2>1 DEF Dressed, OneDevice
<1>4. CASE /\ life' = [life EXCEPT ![d] = "freed"] /\ Return(d, "failed")
           /\ UNCHANGED <<winStyle, style>>
  <2>1. DressedAt(d, w)'
    BY <1>0, <1>1, <1>4 DEF DressedAt, Typed, Return
  <2> QED
    BY <2>1 DEF Dressed, OneDevice
<1> QED
  BY <1>1, <1>2, <1>3, <1>4

LEMMA CreateModeReturnsDressed ==
  ASSUME NEW w \in Windows, OneDevice, TypedAndPlaced, Dressed(w), NEW d \in Devices,
         CreateModeReturns(d)
  PROVE  Dressed(w)'
  BY CreateSetDressed DEF CreateModeReturns, paramVars

LEMMA CreateEndDressed ==
  ASSUME NEW w \in Windows, OneDevice, TypedAndPlaced, Dressed(w), NEW d \in Devices, CreateEnd(d)
  PROVE  Dressed(w)'
<1>0. Typed /\ DressedAt(d, w) /\ pc[d] = "cend"
  BY DEF TypedAndPlaced, Dressed, CreateEnd
<1>1. /\ windowed' = [windowed EXCEPT ![d] = args[d].windowed]
      /\ devWin' = [devWin EXCEPT ![d] = args[d].window]
      /\ UNCHANGED <<winStyle, style>>
      /\ \E l \in {"live", "leaked", "freed"} : \E t : life' = [life EXCEPT ![d] = l] /\ Return(d, t)
  BY DEF CreateEnd, systemVars
<1>2. args[d].windowed \in BOOLEAN
  BY <1>0, ParamFields DEF Typed
<1>3. DressedAt(d, w)'
  BY <1>0, <1>1, <1>2 DEF DressedAt, Typed, Return
<1> QED
  BY <1>3 DEF Dressed, OneDevice

LEMMA ResetBeginDressed ==
  ASSUME NEW w \in Windows, OneWindow(w), OneDevice, TypedAndPlaced, Dressed(w), NEW d \in Devices,
         NEW p \in Requests, ResetBegin(d, p)
  PROVE  Dressed(w)'
<1> DEFINE q == Full(d, p)
<1>0. /\ Typed /\ DressedAt(d, w) /\ TakeOver(d, p) /\ life[d] = "live"
      /\ p.window = w \/ (p.windowed /\ p.window = NoWindow)
  BY DEF TypedAndPlaced, Dressed, OneWindow, ResetBegin, TakeOver
<1>1. /\ UNCHANGED <<winStyle, life, style, windowed>>
      /\ GoOn(d, "rmode", q) \/ Return(d, "failed")
  BY DEF ResetBegin
<1>2. /\ q.windowed = p.windowed
      /\ q.window = IF p.window = NoWindow THEN devWin[d] ELSE p.window
      /\ devWin'[d] = IF p.window = NoWindow THEN devWin[d] ELSE p.window
  BY <1>0, TakeOverTyped, FullTyped
<1> HIDE DEF q
<1>3. DressedAt(d, w)'
  BY <1>0, <1>1, <1>2, DeviceAssumption DEF DressedAt, Typed, GoOn, Return
<1> QED
  BY <1>3 DEF Dressed, OneDevice

LEMMA ResetModeDressed ==
  ASSUME NEW w \in Windows, OneDevice, TypedAndPlaced, Dressed(w), NEW d \in Devices,
         ResetMode(d) \/ ResetModeReturns(d)
  PROVE  Dressed(w)'
<1>0. Typed /\ DressedAt(d, w) /\ pc[d] \in {"rmode", "rset"} /\ life[d] = "live"
  BY DEF TypedAndPlaced, Dressed, ResetMode, ResetModeReturns, Placed, PlacedAt
<1>1. /\ UNCHANGED <<winStyle, life, style, windowed, devWin>>
      /\ GoOn(d, "rend", args[d]) \/ GoOn(d, "rset", args[d]) \/ Return(d, "failed")
  BY DEF ResetMode, ResetModeReturns, ResetSet, paramVars, systemVars
<1>2. DressedAt(d, w)'
  BY <1>0, <1>1 DEF DressedAt, Typed, GoOn, Return
<1> QED
  BY <1>2 DEF Dressed, OneDevice

LEMMA ResetEndDressed ==
  ASSUME NEW w \in Windows, OneDevice, TypedAndPlaced, Dressed(w), NEW d \in Devices, ResetEnd(d)
  PROVE  Dressed(w)'
<1> DEFINE p == args[d]
<1>0. Typed /\ DressedAt(d, w) /\ pc[d] = "rend" /\ life[d] = "live" /\ p \in Params
  BY DEF TypedAndPlaced, Dressed, ResetEnd, Placed, PlacedAt, Typed
<1>1. /\ windowed' = [windowed EXCEPT ![d] = p.windowed]
      /\ UNCHANGED <<life, devWin>>
      /\ \/ windowed[d] /\ ~p.windowed /\ setup_fullscreen_window(d, p.window)
         \/ ~windowed[d] /\ p.windowed /\ style[d] # "none" /\ restore_fullscreen_window(d, p.window)
         \/ (windowed[d] = p.windowed \/ (p.windowed /\ style[d] = "none")) /\ UNCHANGED <<winStyle, style>>
  BY DEF ResetEnd
<1>2. PICK t : Return(d, t)
  BY DEF ResetEnd, Resize
<1>3. p.windowed \in BOOLEAN /\ windowed[d] \in BOOLEAN
  BY <1>0, ParamFields DEF Typed
<1> HIDE DEF p
<1>4. CASE windowed[d] /\ ~p.windowed /\ setup_fullscreen_window(d, p.window)
  <2>1. p.window = w /\ winStyle[w] = "framed"
    BY <1>0, <1>4 DEF DressedAt, Typed, p
  <2>2. style' = [style EXCEPT ![d] = "framed"] /\ winStyle' = [winStyle EXCEPT ![w] = "bare"]
    BY <1>4, <2>1 DEF setup_fullscreen_window
  <2>3. devWin'[d] = w
    BY <1>0, <1>1, <1>4 DEF DressedAt, Typed, p
  <2>4. DressedAt(d, w)'
    BY <1>0, <1>1, <1>2, <1>4, <2>2, <2>3 DEF DressedAt, Typed, Return
  <2> QED
    BY <2>4 DEF Dressed, OneDevice
<1>5. CASE ~windowed[d] /\ p.windowed /\ style[d] # "none" /\ restore_fullscreen_window(d, p.window)
  <2>1. p.window = w /\ style[d] = "framed"
    BY <1>0, <1>5 DEF DressedAt, Typed, p
  <2>2. /\ style' = [style EXCEPT ![d] = "none"]
        /\ \A v \in Windows : winStyle'[v] = "framed"
    BY <1>0, <1>5, <2>1 DEF restore_fullscreen_window, DressedAt, Typed
  <2>3. DressedAt(d, w)'
    BY <1>0, <1>1, <1>2, <1>5, <2>2 DEF DressedAt, Typed, Return
  <2> QED
    BY <2>3 DEF Dressed, OneDevice
<1>6. CASE (windowed[d] = p.windowed \/ (p.windowed /\ style[d] = "none")) /\ UNCHANGED <<winStyle, style>>
  <2>1. DressedAt(d, w)'
    BY <1>0, <1>1, <1>2, <1>3, <1>6 DEF DressedAt, Typed, Return
  <2> QED
    BY <2>1 DEF Dressed, OneDevice
<1> QED
  BY <1>1, <1>4, <1>5, <1>6

LEMMA ResetUnchangedDressed ==
  ASSUME NEW w \in Windows, OneWindow(w), OneDevice, TypedAndPlaced, Dressed(w), NEW d \in Devices,
         NEW p \in Requests, ResetUnchanged(d, p)
  PROVE  Dressed(w)'
<1>0. /\ Typed /\ DressedAt(d, w) /\ TakeOver(d, p) /\ life[d] = "live"
      /\ p.window = w \/ (p.windowed /\ p.window = NoWindow)
  BY DEF TypedAndPlaced, Dressed, OneWindow, ResetUnchanged, TakeOver
<1>1. /\ UNCHANGED <<life, style, windowed>> /\ windowed[d] = p.windowed
      /\ \/ p.windowed /\ UNCHANGED winStyle
         \/ ~p.windowed /\ winStyle' = [winStyle EXCEPT ![Full(d, p).window] = "bare"]
  BY DEF ResetUnchanged, Changed, move_fullscreen_window
<1>2. PICK t : Return(d, t)
  BY DEF ResetUnchanged, Resize
<1>3. /\ Full(d, p).window = IF p.window = NoWindow THEN devWin[d] ELSE p.window
      /\ devWin'[d] = IF p.window = NoWindow THEN devWin[d] ELSE p.window
  BY <1>0, TakeOverTyped, FullTyped
<1>4. DressedAt(d, w)'
  BY <1>0, <1>1, <1>2, <1>3, DeviceAssumption DEF DressedAt, Typed, Return
<1> QED
  BY <1>4 DEF Dressed, OneDevice

LEMMA OtherDressed ==
  ASSUME NEW w \in Windows, OneDevice, TypedAndPlaced, Dressed(w), NEW v \in Windows,
         Destroy(v) \/ Application(v) \/ ThirdParty
         \/ \E d \in Devices : Release(d) \/ Deactivate(v, d) \/ Activate(v, d)
  PROVE  Dressed(w)'
<1>0. Typed
  BY DEF TypedAndPlaced
<1>1. CASE Destroy(v)
  <2>1. winStyle' = [winStyle EXCEPT ![v] = "framed"] /\ UNCHANGED <<style, life, paramVars, callVars>>
    BY <1>1 DEF Destroy
  <2> QED
    BY <1>0, <2>1 DEF Dressed, DressedAt, Typed, paramVars, callVars
<1>2. CASE \E d \in Devices : Release(d)
  <2>1. PICK d \in Devices : Release(d)
    BY <1>2
  <2>2. life' = [life EXCEPT ![d] = "freed"] /\ UNCHANGED <<style, winStyle, paramVars, callVars>>
    BY <2>1 DEF Release
  <2> QED
    BY <1>0, <2>2 DEF Dressed, DressedAt, Typed, paramVars, callVars
<1>3. CASE Application(v) \/ ThirdParty \/ \E d \in Devices : Deactivate(v, d) \/ Activate(v, d)
  <2>1. UNCHANGED <<winStyle, style, life, paramVars, callVars>>
    BY <1>3 DEF Application, ThirdParty, Deactivate, Activate, systemVars
  <2> QED
    BY <2>1, DressedSame DEF paramVars, callVars
<1> QED
  BY <1>1, <1>2, <1>3

LEMMA StepDressed ==
  ASSUME NEW w \in Windows, OneWindow(w), OneDevice, TypedAndPlaced, Dressed(w), [Next]_vars
  PROVE  Dressed(w)'
<1>1. CASE UNCHANGED vars
  BY <1>1, DressedSame DEF vars, systemVars, paramVars, callVars
<1>2. ASSUME NEW d \in Devices, NEW e \in Kinds, NEW f \in Focuses, NEW p \in Requests,
             CreateBegin(d, e, f, p)
      PROVE  Dressed(w)'
  BY <1>2, CreateDressed
<1>3. ASSUME NEW d \in Devices,
             \/ CreateMode(d) \/ CreateModeReturns(d) \/ CreateEnd(d)
             \/ ResetMode(d) \/ ResetModeReturns(d) \/ ResetEnd(d)
      PROVE  Dressed(w)'
  BY <1>3, CreateModeDressed, CreateModeReturnsDressed, CreateEndDressed, ResetModeDressed,
     ResetEndDressed
<1>4. ASSUME NEW d \in Devices, NEW p \in Requests, ResetBegin(d, p) \/ ResetUnchanged(d, p)
      PROVE  Dressed(w)'
  BY <1>4, ResetBeginDressed, ResetUnchangedDressed
<1>5. ASSUME NEW v \in Windows,
             \/ Destroy(v) \/ Application(v)
             \/ \E d \in Devices : Deactivate(v, d) \/ Activate(v, d)
      PROVE  Dressed(w)'
  BY <1>5, OtherDressed
<1>6. CASE ThirdParty \/ \E d \in Devices : Release(d)
  BY <1>6, OtherDressed
<1> QED
  BY <1>1, <1>2, <1>3, <1>4, <1>5, <1>6 DEF Next

\* A device that neither is fullscreen nor on its way there or back.
Unclaimed(d) ==
  \/ life[d] \in {"none", "freed"}
  \/ life[d] = "live" /\ pc[d] = "idle" /\ windowed[d]
  \/ pc[d] \in {"cmode", "cset", "cend"} /\ args[d].windowed
  \/ pc[d] \in {"rmode", "rset", "rend"} /\ windowed[d] /\ args[d].windowed

\* It wraps no window.  The screen saver is off only as long as a device
\* that is or becomes fullscreen is going to switch it on again.
ClaimsAt(d) ==
  /\ Unclaimed(d) => wrapped[d] = NoWindow /\ ~restoreSaver[d]
  /\ screensaver \/ restoreSaver[d]
  /\ pc[d] # "idle" /\ ~args[d].windowed => args[d].size # NoSize
  /\ pc[d] \in {"cmode", "cset"} => ~args[d].windowed

Claims == \A d \in Devices : ClaimsAt(d)

\* Everything typed.
Context == TypedAndPlaced /\ Wraps

LEMMA ClaimsInit == Init => Claims
  BY DEF Init, Claims, ClaimsAt

LEMMA ClaimsSame ==
  ASSUME Claims,
         UNCHANGED <<wrapped, restoreSaver, screensaver, life, windowed, pc, args>>
  PROVE  Claims'
  BY DEF Claims, ClaimsAt, Unclaimed

\* A request that names a size is granted.
LEMMA ModeGranted ==
  ASSUME "fail" \notin Outcomes, NEW m, m.size # NoSize, NEW r \in set_display_mode(m)
  PROVE  r.ok
<1>1. CASE r = [ok |-> TRUE, mode |-> mode, asked |-> m]
  BY <1>1
<1>2. ASSUME NEW o \in Outcomes, r = ModeResult(m, o) PROVE r.ok
  <2>1. r.ok = (o # "fail")
    BY <1>2 DEF ModeResult
  <2> QED
    BY <2>1
<1> QED
  BY <1>1, <1>2 DEF set_display_mode

LEMMA AcquireClaims ==
  ASSUME Context, NEW d \in Devices, ClaimsAt(d), Unclaimed(d), NEW f,
         acquire_focus_window(d, f)
  PROVE  restoreSaver'[d]
  BY DEF acquire_focus_window, ClaimsAt, Context, TypedAndPlaced, Typed

LEMMA UnwrapClaims ==
  ASSUME Context, NEW d \in Devices, ClaimsAt(d), Unwrap(d)
  PROVE  wrapped'[d] = NoWindow /\ ~restoreSaver'[d] /\ screensaver'
  BY DEF Unwrap, ClaimsAt, Context, TypedAndPlaced, Typed, Wraps

LEMMA CreateClaims ==
  ASSUME OneDevice, FullModes, Context, Claims, NEW d \in Devices, NEW e \in Kinds,
         NEW f \in Focuses, NEW p \in Requests, CreateBegin(d, e, f, p)
  PROVE  Claims'
<1> DEFINE v == IF p.window = NoWindow THEN f ELSE p.window
           q == [p EXCEPT !.window = v]
           fw == IF f = NoWindow THEN v ELSE f
<1>0. Typed /\ ClaimsAt(d) /\ Unclaimed(d) /\ life[d] = "none" /\ wrapped[d] = NoWindow
  BY DEF Context, TypedAndPlaced, Claims, ClaimsAt, CreateBegin, Unclaimed
<1>1. q.windowed = p.windowed /\ q.size = p.size
  BY RequestFields DEF Params
<1>2. /\ UNCHANGED windowed
      /\ \/ /\ p.windowed /\ life' = [life EXCEPT ![d] = "creating"] /\ GoOn(d, "cend", q)
            /\ UNCHANGED <<focusVars, screensaver>>
         \/ /\ ~p.windowed /\ life' = [life EXCEPT ![d] = "creating"] /\ GoOn(d, "cmode", q)
            /\ acquire_focus_window(d, fw)
         \/ /\ life' = [life EXCEPT ![d] = "leaked"] /\ Return(d, "failed")
            /\ UNCHANGED <<focusVars, screensaver>>
  BY DEF CreateBegin, paramVars
<1>3. ~p.windowed => p.size # NoSize
  BY DEF FullModes
<1> HIDE DEF q, fw
<1>4. CASE UNCHANGED <<focusVars, screensaver>>
  <2>1. ClaimsAt(d)'
    BY <1>0, <1>1, <1>2, <1>3, <1>4 DEF ClaimsAt, Typed, GoOn, Return, focusVars
  <2> QED
    BY <2>1 DEF Claims, OneDevice
<1>5. CASE /\ ~p.windowed /\ life' = [life EXCEPT ![d] = "creating"] /\ GoOn(d, "cmode", q)
           /\ acquire_focus_window(d, fw)
  <2>1. restoreSaver'[d]
    BY <1>0, <1>5, AcquireClaims
  <2>2. life'[d] = "creating" /\ pc'[d] = "cmode" /\ args'[d] = q
    BY <1>0, <1>5 DEF Typed, GoOn
  <2>3. ClaimsAt(d)'
    BY <1>1, <1>3, <1>5, <2>1, <2>2 DEF ClaimsAt, Unclaimed
  <2> QED
    BY <2>3 DEF Claims, OneDevice
<1> QED
  BY <1>2, <1>4, <1>5

LEMMA ResetBeginClaims ==
  ASSUME OneDevice, FullModes, Context, Claims, NEW d \in Devices, NEW p \in Requests,
         ResetBegin(d, p)
  PROVE  Claims'
<1> DEFINE q == Full(d, p)
           fw == IF focus[d] = NoWindow THEN p.window ELSE focus[d]
<1>0. /\ Typed /\ TypedAndPlaced /\ ClaimsAt(d) /\ TakeOver(d, p) /\ life[d] = "live" /\ pc[d] = "idle"
  BY DEF Context, TypedAndPlaced, Claims, ResetBegin, TakeOver
<1>2. q.windowed = p.windowed /\ q.size = p.size
  BY <1>0, TakeOverTyped, FullTyped
<1>3. /\ UNCHANGED <<windowed, life>>
      /\ \/ /\ ~(windowed[d] /\ ~p.windowed) /\ GoOn(d, "rmode", q)
            /\ UNCHANGED <<focusVars, screensaver>>
         \/ windowed[d] /\ ~p.windowed /\ acquire_focus_window(d, fw) /\ GoOn(d, "rmode", q)
         \/ Return(d, "failed") /\ UNCHANGED <<focusVars, screensaver>>
  BY DEF ResetBegin
<1>4. ~p.windowed => p.size # NoSize
  BY DEF FullModes
<1> HIDE DEF q, fw
<1>5. CASE UNCHANGED <<focusVars, screensaver>>
  <2>1. ClaimsAt(d)'
    BY <1>0, <1>2, <1>3, <1>4, <1>5 DEF ClaimsAt, Unclaimed, Typed, GoOn, Return, focusVars
  <2> QED
    BY <2>1 DEF Claims, OneDevice
<1>6. CASE windowed[d] /\ ~p.windowed /\ acquire_focus_window(d, fw) /\ GoOn(d, "rmode", q)
  <2>1. Unclaimed(d)
    BY <1>0, <1>6 DEF Unclaimed
  <2>2. restoreSaver'[d]
    BY <1>0, <1>6, <2>1, AcquireClaims
  <2>3. life'[d] = "live" /\ pc'[d] = "rmode" /\ args'[d] = q
    BY <1>0, <1>3, <1>6 DEF Typed, GoOn
  <2>4. ClaimsAt(d)'
    BY <1>2, <1>4, <1>6, <2>2, <2>3 DEF ClaimsAt, Unclaimed
  <2> QED
    BY <2>4 DEF Claims, OneDevice
<1> QED
  BY <1>3, <1>5, <1>6

\* The call goes on with what it was given.
LEMMA GoOnClaims ==
  ASSUME OneDevice, Context, Claims, NEW d \in Devices,
         UNCHANGED <<screensaver, focusVars, life, windowed>>,
         \/ pc[d] = "cmode" /\ GoOn(d, "cset", args[d])
         \/ pc[d] \in {"cmode", "cset"} /\ GoOn(d, "cend", args[d])
         \/ pc[d] = "rmode" /\ GoOn(d, "rset", args[d])
         \/ pc[d] \in {"rmode", "rset"} /\ GoOn(d, "rend", args[d])
  PROVE  Claims'
<1>0. Typed /\ ClaimsAt(d) /\ PlacedAt(d)
  BY DEF Context, TypedAndPlaced, Claims, Placed
<1>1. /\ args'[d] = args[d]
      /\ \/ pc'[d] \in {"cset", "cend"} /\ pc[d] \in {"cmode", "cset"} /\ life[d] = "creating"
         \/ pc'[d] \in {"rset", "rend"} /\ pc[d] \in {"rmode", "rset"} /\ life[d] = "live"
  BY <1>0 DEF GoOn, Typed, PlacedAt
<1>2. ClaimsAt(d)'
  BY <1>0, <1>1 DEF ClaimsAt, Unclaimed, focusVars
<1> QED
  BY <1>2 DEF Claims, OneDevice

LEMMA ModeClaims ==
  ASSUME OneDevice, "fail" \notin Outcomes, Context, Claims, NEW d \in Devices,
         CreateMode(d) \/ ResetMode(d)
  PROVE  Claims'
<1> DEFINE p == args[d]
<1>0. Typed /\ ClaimsAt(d) /\ PlacedAt(d) /\ p \in Params
  BY DEF Context, TypedAndPlaced, Claims, Placed, Typed
<1>1. CASE CreateMode(d)
  <2>1. PICK r \in set_display_mode([size |-> p.size, rate |-> p.rate]) :
          \/ /\ GoOn(d, "cset", p) \/ GoOn(d, "cend", p)
             /\ UNCHANGED <<screensaver, focusVars, life>>
          \/ release_focus_window(d) /\ life' = [life EXCEPT ![d] = "freed"] /\ Return(d, "failed")
    BY <1>1 DEF CreateMode, CreateSet
  <2>2. pc[d] = "cmode" /\ UNCHANGED windowed
    BY <1>1 DEF CreateMode, paramVars
  <2>3. CASE /\ GoOn(d, "cset", p) \/ GoOn(d, "cend", p)
             /\ UNCHANGED <<screensaver, focusVars, life>>
    BY <2>2, <2>3, GoOnClaims
  <2>4. CASE release_focus_window(d) /\ life' = [life EXCEPT ![d] = "freed"] /\ Return(d, "failed")
    <3>1. wrapped'[d] = NoWindow /\ ~restoreSaver'[d] /\ screensaver'
      BY <1>0, <2>4, UnwrapClaims DEF release_focus_window
    <3>2. pc'[d] = "idle"
      BY <1>0, <2>4 DEF Typed, Return
    <3>3. ClaimsAt(d)'
      BY <3>1, <3>2 DEF ClaimsAt
    <3> QED
      BY <3>3 DEF Claims, OneDevice
  <2> QED
    BY <2>1, <2>3, <2>4
<1>2. CASE ResetMode(d)
  <2> DEFINE m == IF p.windowed THEN initial[d] ELSE [size |-> p.size, rate |-> p.rate]
  <2>1. pc[d] = "rmode" /\ UNCHANGED <<screensaver, focusVars, life, windowed>>
    BY <1>2 DEF ResetMode, paramVars
  <2>2. m.size # NoSize
    BY <1>0, <2>1, DeviceAssumption DEF PlacedAt, ClaimsAt
  <2>3. \/ GoOn(d, "rend", p)
        \/ \E r \in set_display_mode(m) : r.ok => GoOn(d, "rset", p) \/ GoOn(d, "rend", p)
    BY <1>2 DEF ResetMode, ResetSet
  <2> HIDE DEF m
  <2>4. GoOn(d, "rset", p) \/ GoOn(d, "rend", p)
    BY <2>2, <2>3, ModeGranted
  <2> QED
    BY <2>1, <2>4, GoOnClaims
<1> QED
  BY <1>1, <1>2

LEMMA ReturnsClaims ==
  ASSUME OneDevice, Context, Claims, NEW d \in Devices, CreateModeReturns(d) \/ ResetModeReturns(d)
  PROVE  Claims'
<1>1. UNCHANGED <<screensaver, focusVars, life, windowed>>
  BY DEF CreateModeReturns, ResetModeReturns, systemVars, paramVars
<1>2. \/ pc[d] = "cset" /\ GoOn(d, "cend", args[d])
      \/ pc[d] = "rset" /\ GoOn(d, "rend", args[d])
  BY DEF CreateModeReturns, CreateSet, ResetModeReturns, ResetSet
<1> QED
  BY <1>1, <1>2, GoOnClaims

LEMMA CreateEndClaims ==
  ASSUME OneDevice, "backend" \notin Failures, Context, Claims, NEW d \in Devices, CreateEnd(d)
  PROVE  Claims'
<1>0. Typed /\ ClaimsAt(d) /\ pc[d] = "cend"
  BY DEF Context, TypedAndPlaced, Claims, CreateEnd
<1>1. /\ windowed' = [windowed EXCEPT ![d] = args[d].windowed]
      /\ UNCHANGED <<screensaver, focusVars>>
  BY DEF CreateEnd, systemVars
<1>a. PICK l \in {"live", "leaked"} : \E t : life' = [life EXCEPT ![d] = l] /\ Return(d, t)
  BY DEF CreateEnd
<1>2. PICK t : life' = [life EXCEPT ![d] = l] /\ Return(d, t)
  BY <1>a
<1>3. life'[d] = l /\ pc'[d] = "idle" /\ windowed'[d] = args[d].windowed
  BY <1>0, <1>1, <1>2 DEF Typed, Return
<1>4. ClaimsAt(d)'
  BY <1>0, <1>1, <1>3 DEF ClaimsAt, Unclaimed, focusVars
<1> QED
  BY <1>4 DEF Claims, OneDevice

LEMMA ResetEndClaims ==
  ASSUME OneDevice, Context, Claims, NEW d \in Devices, ResetEnd(d)
  PROVE  Claims'
<1>0. Typed /\ ClaimsAt(d) /\ pc[d] = "rend" /\ life[d] = "live"
  BY DEF Context, TypedAndPlaced, Claims, ResetEnd, Placed, PlacedAt
<1>1. /\ windowed' = [windowed EXCEPT ![d] = args[d].windowed] /\ UNCHANGED life
      /\ IF ~windowed[d] /\ args[d].windowed THEN release_focus_window(d)
         ELSE UNCHANGED <<table, wndproc, focusVars, screensaver>>
  BY DEF ResetEnd
<1>2. PICK t : Return(d, t)
  BY DEF ResetEnd, Resize
<1>3. life'[d] = "live" /\ pc'[d] = "idle" /\ windowed'[d] = args[d].windowed
  BY <1>0, <1>1, <1>2 DEF Typed, Return
<1>4. CASE ~windowed[d] /\ args[d].windowed
  <2>1. wrapped'[d] = NoWindow /\ ~restoreSaver'[d] /\ screensaver'
    BY <1>0, <1>1, <1>4, UnwrapClaims DEF release_focus_window
  <2>2. ClaimsAt(d)'
    BY <1>3, <2>1 DEF ClaimsAt
  <2> QED
    BY <2>2 DEF Claims, OneDevice
<1>5. CASE ~(~windowed[d] /\ args[d].windowed)
  <2>1. ClaimsAt(d)'
    BY <1>0, <1>1, <1>3, <1>5 DEF ClaimsAt, Unclaimed, focusVars
  <2> QED
    BY <2>1 DEF Claims, OneDevice
<1> QED
  BY <1>4, <1>5

LEMMA GivesBackClaims ==
  ASSUME OneDevice, Context, Claims, NEW d \in Devices, Unwrap(d), UNCHANGED <<pc, args>>
  PROVE  Claims'
<1>1. ClaimsAt(d)
  BY DEF Claims
<1>2. wrapped'[d] = NoWindow /\ ~restoreSaver'[d] /\ screensaver'
  BY <1>1, UnwrapClaims
<1>3. ClaimsAt(d)'
  BY <1>1, <1>2 DEF ClaimsAt
<1> QED
  BY <1>3 DEF Claims, OneDevice

LEMMA StepClaims ==
  ASSUME OneDevice, FullModes, "fail" \notin Outcomes, "backend" \notin Failures, Context, Claims,
         [Next]_vars
  PROVE  Claims'
<1>1. CASE UNCHANGED vars
  BY <1>1, ClaimsSame DEF vars, systemVars, focusVars, paramVars, callVars
<1>2. ASSUME NEW d \in Devices, NEW e \in Kinds, NEW f \in Focuses, NEW p \in Requests,
             CreateBegin(d, e, f, p)
      PROVE  Claims'
  BY <1>2, CreateClaims
<1>3. ASSUME NEW d \in Devices,
             \/ CreateMode(d) \/ CreateModeReturns(d) \/ CreateEnd(d)
             \/ ResetMode(d) \/ ResetModeReturns(d) \/ ResetEnd(d)
      PROVE  Claims'
  BY <1>3, ModeClaims, ReturnsClaims, CreateEndClaims, ResetEndClaims
<1>4. ASSUME NEW d \in Devices, NEW p \in Requests, ResetBegin(d, p) PROVE Claims'
  BY <1>4, ResetBeginClaims
<1>5. ASSUME NEW d \in Devices, NEW p \in Requests, ResetUnchanged(d, p) PROVE Claims'
  <2>1. /\ UNCHANGED <<wrapped, restoreSaver, screensaver, life, windowed>>
        /\ pc[d] = "idle" /\ \E t : Return(d, t)
    BY <1>5 DEF ResetUnchanged, TakeOver, Resize, focusVars
  <2>2. pc'[d] = "idle" /\ ClaimsAt(d)
    BY <2>1 DEF Return, Context, TypedAndPlaced, Typed, Claims
  <2>3. ClaimsAt(d)'
    BY <2>1, <2>2 DEF ClaimsAt, Unclaimed
  <2> QED
    BY <2>3 DEF Claims, OneDevice
<1>6. ASSUME NEW d \in Devices, Release(d) PROVE Claims'
  BY <1>6, GivesBackClaims DEF Release, release_focus_window, callVars
<1>7. ASSUME NEW d \in Devices, NEW w \in Windows, Deactivate(w, d) \/ Activate(w, d)
      PROVE  Claims'
  BY <1>7, ClaimsSame DEF Deactivate, Activate, focusVars, paramVars, callVars
<1>8. ASSUME NEW w \in Windows, Destroy(w) PROVE Claims'
  <2>1. UNCHANGED <<life, paramVars, callVars>>
    BY <1>8 DEF Destroy
  <2>2. CASE UNCHANGED <<table, screensaver, focusVars>>
    BY <2>1, <2>2, ClaimsSame DEF focusVars, paramVars, callVars
  <2>3. ASSUME NEW d \in Devices, Unwrap(d) PROVE Claims'
    BY <2>1, <2>3, GivesBackClaims DEF callVars
  <2> QED
    BY <1>8, <2>2, <2>3 DEF Destroy
<1>9. ASSUME NEW w \in Windows, Application(w) PROVE Claims'
  BY <1>9, ClaimsSame DEF Application, systemVars, focusVars, paramVars, callVars
<1>10. CASE ThirdParty
  BY <1>10, ClaimsSame DEF ThirdParty, focusVars, paramVars, callVars
<1> QED
  BY <1>1, <1>2, <1>3, <1>4, <1>5, <1>6, <1>7, <1>8, <1>9, <1>10 DEF Next

LEMMA CleanWindow ==
  ASSUME NEW w \in Windows, EntriesKnow, Dressed(w), Typed, Claims
  PROVE  WindowedIsClean
<1> SUFFICES ASSUME NEW d \in Devices, life[d] = "live", pc[d] = "idle", windowed[d]
             PROVE  /\ wrapped[d] = NoWindow /\ ~restoreSaver[d] /\ style[d] = "none"
                    /\ \A v \in Windows : winStyle[v] = "framed" /\ Receiver(v) # d
  BY DEF WindowedIsClean, Idle
<1>1. wrapped[d] = NoWindow /\ ~restoreSaver[d]
  BY DEF Claims, ClaimsAt, Unclaimed
<1>2. style[d] = "none" /\ \A v \in Windows : winStyle[v] = "framed"
  BY DEF Dressed, DressedAt, Typed
<1>3. ASSUME NEW v \in Windows PROVE Receiver(v) # d
  BY <1>1, TableAssumption, DeviceAssumption DEF EntriesKnow, Knows, EntryKnows, Receiver
<1> QED
  BY <1>1, <1>2, <1>3

\* A device whose fullscreen modes can be set and are all for one window has
\* no claim left once a reset took it back into a window: style and window
\* procedure are the window's own and the screen saver is on, whatever was
\* destroyed or changed meanwhile, also in the middle of a reset
\* (present.c:895, 898).
THEOREM WindowsGivenBack ==
  ASSUME OneDevice, WithFocus, FullModes, NEW w \in Windows, OneWindow(w),
         "fail" \notin Outcomes, "backend" \notin Failures
  PROVE  Spec => []WindowedIsClean
<1>1. Init => Reaching /\ Wraps /\ EntriesKnow /\ TypedAndPlaced /\ Dressed(w) /\ Claims
  BY ReachingInit, EntriesInit, TypedInit, DressedInit, ClaimsInit DEF EntriesKnow
<1>2. Reaching /\ Wraps /\ EntriesKnow /\ TypedAndPlaced /\ Dressed(w) /\ Claims /\ [Next]_vars
        => Reaching' /\ Wraps' /\ EntriesKnow' /\ TypedAndPlaced' /\ Dressed(w)' /\ Claims'
  BY StepReaches, StepKnows, StepTyped, StepDressed, StepClaims DEF EntriesKnow, Reaching, Context
<1>3. EntriesKnow /\ TypedAndPlaced /\ Dressed(w) /\ Claims => WindowedIsClean
  BY CleanWindow DEF TypedAndPlaced
<1> QED
  BY <1>1, <1>2, <1>3, PTL DEF Spec

---------------------------------------------------------------------------
(* Display modes. *)

\* Calls to change the mode succeed, if need be without the refresh rate,
\* and no other program sets a resolution.
ModesGranted == Outcomes \subseteq {"ok", "norate"}
DisplayAlone == "thirdparty" \notin Environment

\* No message is dispatched between the change of mode and the end of a
\* call: filter_messages is set in what is left of it (present.c:190,
\* 217, 251, 885).
Filtered == "cend" \notin Dispatch /\ "rend" \notin Dispatch

LEMMA ModeSet ==
  ASSUME ModesGranted, NEW m, m.size # NoSize, NEW r \in set_display_mode(m)
  PROVE  r.ok /\ r.mode.size = m.size
<1>1. CASE Suits(m) /\ r = [ok |-> TRUE, mode |-> mode, asked |-> m]
  BY <1>1 DEF Suits
<1>2. ASSUME NEW o \in Outcomes, r = ModeResult(m, o) PROVE r.ok /\ r.mode.size = m.size
  <2>1. o = "ok" \/ o = "norate"
    BY DEF ModesGranted
  <2>2. r.ok = (o # "fail")
    BY <1>2 DEF ModeResult
  <2>3. \/ r.mode = [size |-> m.size, rate |-> IF m.rate = 0 THEN Desktop.rate ELSE m.rate]
        \/ r.mode = [size |-> m.size, rate |-> Desktop.rate]
    BY <1>2, <2>1 DEF ModeResult
  <2>4. r.ok
    BY <2>1, <2>2
  <2>5. r.mode.size = m.size
    BY <2>3
  <2> QED
    BY <2>4, <2>5
<1> QED
  BY <1>1, <1>2 DEF set_display_mode

LEMMA NeverFails == ModesGranted => "fail" \notin Outcomes
  BY DEF ModesGranted

\* The mode to go back to is the desktop's, and it is there when no device
\* is.
Home ==
  /\ \A d \in Devices : initial[d].size = Desktop.size
  /\ (\A d \in Devices : ~Valid(d)) => mode.size = Desktop.size

LEMMA HomeInit == Init => Home
  BY DEF Init, Home

LEMMA HomeSame == ASSUME Home, UNCHANGED <<mode, initial, life>> PROVE Home'
  BY DEF Home, Valid

\* While a device is there, only the mode to go back to matters.
LEMMA HomeThere ==
  ASSUME Home, NEW d \in Devices, Valid(d)', UNCHANGED initial
  PROVE  Home'
  BY DEF Home

LEMMA CreateHome ==
  ASSUME OneDevice, Context, Home, NEW d \in Devices, NEW e \in Kinds, NEW f \in Focuses,
         NEW p \in Requests, CreateBegin(d, e, f, p)
  PROVE  Home'
<1>1. /\ initial' = [initial EXCEPT ![d] = mode] /\ life[d] = "none"
      /\ \E l \in {"creating", "leaked"} : life' = [life EXCEPT ![d] = l]
  BY DEF CreateBegin
<1>2. Typed
  BY DEF Context, TypedAndPlaced
<1>3. mode.size = Desktop.size
  BY <1>1 DEF Home, OneDevice, Valid
<1>4. Valid(d)' /\ \A x \in Devices : initial'[x].size = Desktop.size
  BY <1>1, <1>2, <1>3 DEF Home, Typed, Valid
<1> QED
  BY <1>4 DEF Home

LEMMA CallHome ==
  ASSUME OneDevice, ModesGranted, "backend" \notin Failures, Context, Claims, Home,
         NEW d \in Devices, CreateMode(d) \/ CreateEnd(d) \/ ResetMode(d) \/ Release(d)
  PROVE  Home'
<1>0. /\ Typed /\ ClaimsAt(d) /\ PlacedAt(d) /\ args[d] \in Params /\ initial[d] \in Asked
      /\ NoSize \notin Sizes
  BY DeviceAssumption DEF Context, TypedAndPlaced, Claims, Placed, Typed
<1>1. CASE CreateMode(d)
  <2> DEFINE m == [size |-> args[d].size, rate |-> args[d].rate]
  <2>1. PICK r \in set_display_mode(m) : r.ok => UNCHANGED life
    BY <1>1 DEF CreateMode
  <2>2. m.size # NoSize
    BY <1>0, <1>1 DEF CreateMode, ClaimsAt
  <2> HIDE DEF m
  <2>3. r.ok
    BY <2>1, <2>2, ModeSet
  <2>4. Valid(d)' /\ UNCHANGED initial
    BY <1>0, <1>1, <2>1, <2>3 DEF CreateMode, PlacedAt, Valid
  <2> QED
    BY <2>4, HomeThere
<1>2. CASE CreateEnd(d)
  <2>1. \E l \in {"live", "leaked"} : life' = [life EXCEPT ![d] = l]
    BY <1>2 DEF CreateEnd
  <2>2. Valid(d)' /\ UNCHANGED initial
    BY <1>0, <1>2, <2>1 DEF CreateEnd, Valid, Typed
  <2> QED
    BY <2>2, HomeThere
<1>3. CASE ResetMode(d)
  <2>1. Valid(d)'
    BY <1>0, <1>3 DEF ResetMode, PlacedAt, Valid
  <2>2. CASE UNCHANGED initial
    BY <2>1, <2>2, HomeThere
  <2>3. CASE args[d].windowed /\ \E r \in set_display_mode(initial[d]) :
               initial' = [initial EXCEPT ![d] = r.asked]
    <3>1. PICK r \in set_display_mode(initial[d]) : initial' = [initial EXCEPT ![d] = r.asked]
      BY <2>3
    <3>2. r.asked.size = initial[d].size
      BY <1>0, ModeTyped DEF Typed
    <3> QED
      BY <1>0, <2>1, <3>1, <3>2 DEF Home, Typed
  <2>4. UNCHANGED initial \/ (args[d].windowed /\ \E r \in set_display_mode(initial[d]) :
               initial' = [initial EXCEPT ![d] = r.asked])
    BY <1>3 DEF ResetMode
  <2> QED
    BY <2>2, <2>3, <2>4
<1>4. CASE Release(d)
  <2>1. PICK r \in set_display_mode(initial[d]) : mode' = r.mode
    BY <1>4 DEF Release
  <2>2. initial[d].size # NoSize
    BY <1>0 DEF PlacedAt
  <2>3. mode'.size = Desktop.size
    BY <2>1, <2>2, ModeSet DEF Home
  <2> QED
    BY <1>4, <2>3 DEF Home, Release
<1> QED
  BY <1>1, <1>2, <1>3, <1>4

LEMMA StepHome ==
  ASSUME OneDevice, ModesGranted, DisplayAlone, "backend" \notin Failures, Context, Claims, Home,
         [Next]_vars
  PROVE  Home'
<1>1. CASE UNCHANGED vars
  BY <1>1, HomeSame DEF vars, systemVars
<1>2. ASSUME NEW d \in Devices, NEW e \in Kinds, NEW f \in Focuses, NEW p \in Requests,
             CreateBegin(d, e, f, p)
      PROVE  Home'
  BY <1>2, CreateHome
<1>3. ASSUME NEW d \in Devices, CreateMode(d) \/ CreateEnd(d) \/ ResetMode(d) \/ Release(d)
      PROVE  Home'
  BY <1>3, CallHome
<1>4. ASSUME NEW d \in Devices,
             \/ CreateModeReturns(d) \/ ResetModeReturns(d) \/ ResetEnd(d)
             \/ \E p \in Requests : ResetBegin(d, p) \/ ResetUnchanged(d, p)
      PROVE  Home'
  BY <1>4, HomeSame DEF CreateModeReturns, ResetModeReturns, ResetEnd, ResetBegin, ResetUnchanged,
                        systemVars
<1>5. ASSUME NEW d \in Devices, NEW w \in Windows, Deactivate(w, d) \/ Activate(w, d)
      PROVE  Home'
  <2>1. Valid(d)' /\ UNCHANGED initial
    BY <1>5 DEF Deactivate, Activate, Dispatched, Valid
  <2> QED
    BY <2>1, HomeThere
<1>6. ASSUME NEW w \in Windows, Destroy(w) \/ Application(w) PROVE Home'
  BY <1>6, HomeSame DEF Destroy, Application, systemVars
<1>7. CASE ThirdParty
  <2>1. mode'.size = mode.size /\ UNCHANGED <<initial, life>>
    BY <1>7 DEF ThirdParty, DisplayAlone
  <2> QED
    BY <2>1 DEF Home, Valid
<1> QED
  BY <1>1, <1>2, <1>3, <1>4, <1>5, <1>6, <1>7 DEF Next

LEMMA HomeRestored ==
  ASSUME Devices # {}, Claims, Typed, Home
  PROVE  DesktopRestored
<1>1. screensaver \/ \E d \in Devices : Valid(d) /\ restoreSaver[d]
  <2>1. PICK d \in Devices : TRUE
    OBVIOUS
  <2>2. screensaver \/ (restoreSaver[d] /\ ~Unclaimed(d))
    BY DEF Claims, ClaimsAt
  <2>3. ~Unclaimed(d) => Valid(d)
    BY DEF Unclaimed, Typed, Valid
  <2> QED
    BY <2>2, <2>3
<1> QED
  BY <1>1 DEF Home, DesktopRestored

\* When the last device is gone the display has the resolution it had before
\* the first came, though resets may have taken the device to other modes,
\* failed to get a refresh rate or been interrupted; and the screen saver is
\* never off without a device that will switch it on again (present.c:758,
\* 761, 288).
THEOREM DesktopGivenBack ==
  ASSUME OneDevice, Devices # {}, FullModes, ModesGranted, DisplayAlone, "backend" \notin Failures
  PROVE  Spec => []DesktopRestored
<1>1. Init => Reaching /\ Wraps /\ TypedAndPlaced /\ Claims /\ Home
  BY ReachingInit, TypedInit, ClaimsInit, HomeInit DEF Init, Wraps
<1>2. Reaching /\ Wraps /\ TypedAndPlaced /\ Claims /\ Home /\ [Next]_vars
        => Reaching' /\ Wraps' /\ TypedAndPlaced' /\ Claims' /\ Home'
  BY StepReaches, StepTyped, StepClaims, StepHome, NeverFails DEF Context
<1>3. TypedAndPlaced /\ Claims /\ Home => DesktopRestored
  BY HomeRestored DEF TypedAndPlaced
<1> QED
  BY <1>1, <1>2, <1>3, PTL DEF Spec

\* From the change of mode to the end of the call the mode is the one asked
\* for.  A fullscreen device between calls has its mode, knows that it has
\* not, or has lost its focus window; and unless it is to set the mode again
\* with the next reset it has its mode.
ShownAt(d) ==
  /\ pc[d] \in {"cset", "rset", "cend", "rend"} /\ ~args[d].windowed => mode.size = args[d].size
  /\ pc[d] \in {"cend", "rend"} /\ ~args[d].windowed => ~mismatch[d]
  /\ life[d] = "live" /\ pc[d] = "idle" /\ ~windowed[d] =>
       /\ size[d] # NoSize
       /\ \/ mode.size = size[d]
          \/ wrapped[d] = NoWindow
          \/ ex[d] /\ occluded[d]
          \/ ~ex[d] /\ mismatch[d]
       /\ ~reapply[d] => mode.size = size[d] /\ ~mismatch[d]

\* All this unless its mode was replaced while it was being set, which lasts
\* until the next reset that sets it.
HeldAt(d) == d \in overtaken \/ ShownAt(d)

Held == \A d \in Devices : HeldAt(d)

LEMMA HeldInit == Init => Held
  BY DEF Init, Held, HeldAt, ShownAt

LEMMA HeldSame ==
  ASSUME Held, UNCHANGED <<mode, mismatch, wrapped, size, windowed, occluded, reapply, overtaken,
                           ex, life, pc, args>>
  PROVE  Held'
  BY DEF Held, HeldAt, ShownAt

LEMMA CreateHeld ==
  ASSUME OneDevice, Context, Held, NEW d \in Devices, NEW e \in Kinds, NEW f \in Focuses,
         NEW p \in Requests, CreateBegin(d, e, f, p)
  PROVE  Held'
<1> DEFINE v == IF p.window = NoWindow THEN f ELSE p.window
           q == [p EXCEPT !.window = v]
<1>0. Typed /\ q.windowed = p.windowed
  BY RequestFields DEF Context, TypedAndPlaced, Params
<1>1. \/ p.windowed /\ life' = [life EXCEPT ![d] = "creating"] /\ GoOn(d, "cend", q)
      \/ life' = [life EXCEPT ![d] = "creating"] /\ GoOn(d, "cmode", q)
      \/ life' = [life EXCEPT ![d] = "leaked"] /\ Return(d, "failed")
  BY DEF CreateBegin
<1> HIDE DEF q
<1>2. ShownAt(d)'
  BY <1>0, <1>1 DEF ShownAt, Typed, GoOn, Return
<1> QED
  BY <1>2 DEF Held, HeldAt, OneDevice

LEMMA ModeCallHeld ==
  ASSUME OneDevice, ModesGranted, Context, Claims, Held, NEW d \in Devices,
         CreateMode(d) \/ ResetMode(d)
  PROVE  Held'
<1> DEFINE p == args[d]
           m == IF p.windowed THEN initial[d] ELSE [size |-> p.size, rate |-> p.rate]
<1>0. /\ Typed /\ ClaimsAt(d) /\ PlacedAt(d) /\ p \in Params /\ NoSize \notin Sizes
      /\ m.size # NoSize
      /\ ~p.windowed => m.size = p.size
  <2>1. Typed /\ ClaimsAt(d) /\ PlacedAt(d) /\ p \in Params /\ NoSize \notin Sizes
    BY DeviceAssumption DEF Context, TypedAndPlaced, Claims, Placed, Typed
  <2>2. pc[d] # "idle"
    BY DEF CreateMode, ResetMode
  <2> QED
    BY <2>1, <2>2 DEF ClaimsAt, PlacedAt
<1>1. p.windowed \in BOOLEAN /\ windowed[d] \in BOOLEAN
  BY <1>0, ParamFields DEF Typed
<1>2. \/ GoOn(d, "rend", p) /\ p.windowed
      \/ \E r \in set_display_mode(m) :
           /\ mode' = r.mode
           /\ r.ok => \/ GoOn(d, "cset", p) \/ GoOn(d, "rset", p)
                      \/ /\ GoOn(d, "cend", p) \/ GoOn(d, "rend", p)
                         /\ mismatch' = [mismatch EXCEPT ![d] = FALSE]
  <2>1. CASE CreateMode(d)
    <3>1. m = [size |-> p.size, rate |-> p.rate]
      BY <1>0, <2>1 DEF CreateMode, ClaimsAt
    <3> QED
      BY <2>1, <3>1 DEF CreateMode, CreateSet
  <2>2. CASE ResetMode(d)
    BY <2>2 DEF ResetMode, ResetSet
  <2> QED
    BY <2>1, <2>2
<1> HIDE DEF m
<1>3. CASE GoOn(d, "rend", p) /\ p.windowed
  <2>1. ShownAt(d)'
    BY <1>0, <1>3 DEF ShownAt, Typed, GoOn
  <2> QED
    BY <2>1 DEF Held, HeldAt, OneDevice
<1>4. ASSUME NEW r \in set_display_mode(m), mode' = r.mode,
             r.ok => \/ GoOn(d, "cset", p) \/ GoOn(d, "rset", p)
                     \/ /\ GoOn(d, "cend", p) \/ GoOn(d, "rend", p)
                        /\ mismatch' = [mismatch EXCEPT ![d] = FALSE]
      PROVE  Held'
  <2>1. r.ok /\ (~p.windowed => mode'.size = p.size)
    BY <1>0, <1>4, ModeSet
  <2>2. /\ args'[d] = p
        /\ \/ pc'[d] \in {"cset", "rset"}
           \/ pc'[d] \in {"cend", "rend"} /\ ~mismatch'[d]
    BY <1>0, <1>4, <2>1 DEF GoOn, Typed
  <2>3. ShownAt(d)'
    BY <2>1, <2>2 DEF ShownAt
  <2> QED
    BY <2>3 DEF Held, HeldAt, OneDevice
<1> QED
  BY <1>2, <1>3, <1>4

LEMMA ReturnsHeld ==
  ASSUME OneDevice, Context, Held, NEW d \in Devices, CreateModeReturns(d) \/ ResetModeReturns(d)
  PROVE  Held'
<1>0. Typed /\ HeldAt(d)
  BY DEF Context, TypedAndPlaced, Held
<1>1. /\ pc[d] \in {"cset", "rset"} /\ mismatch' = [mismatch EXCEPT ![d] = FALSE]
      /\ GoOn(d, "cend", args[d]) \/ GoOn(d, "rend", args[d])
      /\ UNCHANGED <<mode, overtaken>>
  BY DEF CreateModeReturns, CreateSet, ResetModeReturns, ResetSet, systemVars
<1>2. ~mismatch'[d] /\ pc'[d] \in {"cend", "rend"} /\ args'[d] = args[d]
  BY <1>0, <1>1 DEF GoOn, Typed
<1>3. HeldAt(d)'
  BY <1>0, <1>1, <1>2 DEF HeldAt, ShownAt
<1> QED
  BY <1>3 DEF Held, OneDevice

LEMMA CreateEndHeld ==
  ASSUME OneDevice, Context, Claims, Held, NEW d \in Devices, CreateEnd(d)
  PROVE  Held'
<1>0. Typed /\ ClaimsAt(d) /\ HeldAt(d) /\ pc[d] = "cend"
  BY DEF Context, TypedAndPlaced, Claims, Held, CreateEnd
<1>1. /\ windowed' = [windowed EXCEPT ![d] = args[d].windowed]
      /\ \E s \in IF args[d].size = NoSize THEN Sizes ELSE {args[d].size} : size' = [size EXCEPT ![d] = s]
      /\ \E t : Return(d, t)
      /\ UNCHANGED <<mode, wrapped, ex, mismatch, occluded, reapply, overtaken>>
  BY DEF CreateEnd, systemVars, focusVars, flagVars
<1>2. /\ windowed'[d] = args[d].windowed /\ pc'[d] = "idle"
      /\ args[d].size # NoSize => size'[d] = args[d].size
  BY <1>0, <1>1 DEF Typed, Return
<1>3. HeldAt(d)'
  BY <1>0, <1>1, <1>2 DEF ClaimsAt, HeldAt, ShownAt
<1> QED
  BY <1>3 DEF Held, OneDevice

LEMMA ResetBeginHeld ==
  ASSUME OneDevice, Context, Held, NEW d \in Devices, NEW p \in Requests, ResetBegin(d, p)
  PROVE  Held'
<1>0. Typed /\ HeldAt(d) /\ pc[d] = "idle"
  BY DEF Context, TypedAndPlaced, Held, ResetBegin, TakeOver
<1>1. /\ UNCHANGED <<mode, life, ex, windowed, size, mismatch, occluded, reapply, overtaken>>
      /\ \/ \E q : GoOn(d, "rmode", q)
         \/ Return(d, "failed") /\ UNCHANGED wrapped
  BY DEF ResetBegin, flagVars, focusVars
<1>2. HeldAt(d)'
  BY <1>0, <1>1 DEF HeldAt, ShownAt, Typed, GoOn, Return
<1> QED
  BY <1>2 DEF Held, OneDevice

\* The end of a reset to fullscreen: size, mode and mismatch.
LEMMA ResetEndRestores ==
  ASSUME Context, Claims, Held, NEW d \in Devices, ResetEnd(d)
  PROVE  /\ pc'[d] = "idle" /\ UNCHANGED <<mode, ex, mismatch, overtaken>>
         /\ windowed'[d] = args[d].windowed
         /\ ~args[d].windowed /\ d \notin overtaken =>
              size'[d] # NoSize /\ mode'.size = size'[d] /\ ~mismatch'[d]
<1>0. Typed /\ ClaimsAt(d) /\ HeldAt(d) /\ pc[d] = "rend"
  BY DEF Context, TypedAndPlaced, Claims, Held, ResetEnd
<1>1. /\ windowed' = [windowed EXCEPT ![d] = args[d].windowed]
      /\ Resize(d, args[d]) /\ UNCHANGED <<mode, ex, mismatch, overtaken>>
  BY DEF ResetEnd, flagVars
<1>2. /\ \E t : Return(d, t)
      /\ args[d].size # NoSize => size' = [size EXCEPT ![d] = args[d].size]
  BY <1>1 DEF Resize
<1> QED
  BY <1>0, <1>1, <1>2 DEF ClaimsAt, HeldAt, ShownAt, Typed, Return

LEMMA ResetEndHeld ==
  ASSUME OneDevice, Context, Claims, Held, NEW d \in Devices, ResetEnd(d)
  PROVE  Held'
<1>1. HeldAt(d)'
  BY ResetEndRestores DEF HeldAt, ShownAt
<1> QED
  BY <1>1 DEF Held, OneDevice

\* A reset that changes nothing in size, Windowed and mode leaves the size.
LEMMA ResetUnchangedSize ==
  ASSUME FullModes, Context, NEW d \in Devices, NEW p \in Requests, ResetUnchanged(d, p)
  PROVE  /\ life[d] = "live" /\ pc[d] = "idle" /\ pc'[d] = "idle" /\ ~reapply[d]
         /\ UNCHANGED <<mode, life, ex, wrapped, windowed, mismatch, occluded, reapply, overtaken>>
         /\ ~windowed[d] => size'[d] = size[d]
<1>0. Typed
  BY DEF Context, TypedAndPlaced
<1>1. /\ life[d] = "live" /\ pc[d] = "idle" /\ ~reapply[d]
      /\ size[d] = p.size /\ windowed[d] = p.windowed /\ Resize(d, p)
      /\ UNCHANGED <<mode, life, ex, wrapped, windowed, mismatch, occluded, reapply, overtaken>>
  BY DEF ResetUnchanged, TakeOver, Changed, flagVars, focusVars
<1>2. /\ \E t : Return(d, t)
      /\ p.size # NoSize => size' = [size EXCEPT ![d] = p.size]
  BY <1>1 DEF Resize
<1>3. ~p.windowed => p.size # NoSize
  BY DEF FullModes
<1> QED
  BY <1>0, <1>1, <1>2, <1>3 DEF Typed, Return

LEMMA ResetUnchangedHeld ==
  ASSUME OneDevice, FullModes, Context, Held, NEW d \in Devices, NEW p \in Requests,
         ResetUnchanged(d, p)
  PROVE  Held'
<1>1. HeldAt(d)'
  BY ResetUnchangedSize DEF Held, HeldAt, ShownAt
<1> QED
  BY <1>1 DEF Held, OneDevice

\* Messages: what they leave of a device between calls.
LEMMA MessageHeld ==
  ASSUME OneDevice, Filtered, ModesGranted, Context, Held, NEW d \in Devices, NEW w \in Windows,
         Deactivate(w, d) \/ Activate(w, d)
  PROVE  Held'
<1>0. /\ Typed /\ HeldAt(d) /\ PlacedAt(d) /\ NoWindow \notin Windows
      /\ Desktop.size # NoSize
  BY DeviceAssumption DEF Context, TypedAndPlaced, Placed, Held, Modes
<1>1. /\ pc[d] # "cend" /\ pc[d] # "rend" /\ d \in Receivers
      /\ UNCHANGED <<wrapped, life, ex, windowed, size, devWin, pc, args>>
  <2>1. Dispatched(w, d)
    BY DEF Deactivate, Activate
  <2>2. d \in Receivers
    BY <2>1, TableAssumption DEF Dispatched, Receivers
  <2> QED
    BY <2>1, <2>2 DEF Filtered, Dispatched, Deactivate, Activate, paramVars, callVars, focusVars
<1>a. /\ d \notin overtaken' => d \notin overtaken
      /\ d \notin overtaken' /\ pc[d] \in {"cset", "rset"} => mode'.size = mode.size
  BY DEF Deactivate, Activate, Overtaken
<1>2. SUFFICES ASSUME d \notin overtaken', life[d] = "live", pc[d] = "idle", ~windowed[d]
               PROVE  ShownAt(d)'
  BY <1>0, <1>1, <1>a DEF Held, HeldAt, ShownAt, OneDevice
<1>b. ShownAt(d)
  BY <1>0, <1>2, <1>a DEF HeldAt
<1>3. devWin[d] \in Windows /\ size[d] # NoSize
  BY <1>0, <1>2, <1>b DEF PlacedAt, ShownAt
<1>4. ASSUME NEW m, Heard(Receivers, m)[d], ~(m = mode /\ mismatch[d])
      PROVE  ~ex[d] /\ m.size # size[d]
  BY <1>0, <1>1, <1>4 DEF Heard, Lost
<1>5. ASSUME NEW m, ~Heard(Receivers, m)[d], ~ex[d]
      PROVE  m.size = size[d] \/ (m = mode /\ ~mismatch[d])
  BY <1>0, <1>1, <1>2, <1>3, <1>5 DEF Heard, Lost
<1>6. CASE Deactivate(w, d)
  <2>1. /\ occluded'[d] /\ reapply'[d]
        /\ \E r \in set_display_mode(Desktop) : mode' = r.mode /\ mismatch' = Heard(Receivers, r.mode)
    BY <1>0, <1>6 DEF Deactivate, Typed
  <2>2. ~ex[d] => mode'.size = size[d] \/ mismatch'[d] \/ (mode' = mode /\ ~mismatch[d])
    BY <1>5, <2>1
  <2> QED
    BY <1>0, <1>1, <1>2, <1>b, <2>1, <2>2 DEF ShownAt
<1>7. CASE Activate(w, d) /\ ex[d]
  <2>1. /\ UNCHANGED reapply
        /\ \E r \in set_display_mode([size |-> size[d], rate |-> rate[d]]) :
             mode' = r.mode /\ mismatch' = Heard(Receivers, r.mode)
    BY <1>7 DEF Activate
  <2>2. mode'.size = size[d]
    BY <1>3, <2>1, ModeSet
  <2>3. ~reapply[d] => ~mismatch'[d]
    BY <1>2, <1>4, <1>7, <1>b, <2>1 DEF ShownAt
  <2> QED
    BY <1>0, <1>1, <1>2, <1>b, <2>1, <2>2, <2>3 DEF ShownAt
<1>8. CASE Activate(w, d) /\ ~ex[d]
  <2>1. UNCHANGED <<mode, reapply>> /\ mismatch' = Heard(Receivers, mode)
    BY <1>8 DEF Activate
  <2>2. mismatch'[d] = mismatch[d]
    BY <2>1 DEF Heard
  <2> QED
    BY <1>0, <1>1, <1>2, <1>8, <1>b, <2>1, <2>2 DEF ShownAt
<1> QED
  BY <1>6, <1>7, <1>8

LEMMA RefreshHeld ==
  ASSUME OneDevice, Filtered, DisplayAlone, Context, Held, ThirdParty
  PROVE  Held'
<1> SUFFICES ASSUME NEW d \in Devices PROVE HeldAt(d)'
  BY DEF Held
<1>0. Typed /\ HeldAt(d) /\ PlacedAt(d) /\ NoWindow \notin Windows
  BY DeviceAssumption DEF Context, TypedAndPlaced, Placed, Held
<1>1. /\ pc[d] # "cend" /\ pc[d] # "rend" /\ mode'.size = mode.size
      /\ mismatch' = Heard(Receivers, mode') /\ overtaken \subseteq overtaken'
      /\ UNCHANGED <<wrapped, life, ex, windowed, size, devWin, occluded, reapply, pc, args>>
  BY DEF ThirdParty, Filtered, DisplayAlone, Overtaken, paramVars, callVars, focusVars
<1>2. /\ mismatch[d] /\ ~ex[d] /\ ~windowed[d] /\ devWin[d] \in Windows /\ mode.size # size[d]
           => mismatch'[d]
      /\ ~mismatch[d] /\ mode.size = size[d] => ~mismatch'[d]
  BY <1>0, <1>1 DEF Heard, Lost
<1> QED
  BY <1>0, <1>1, <1>2 DEF HeldAt, ShownAt, PlacedAt

LEMMA StepHeld ==
  ASSUME OneDevice, FullModes, Filtered, ModesGranted, DisplayAlone, Context, Claims, Held, [Next]_vars
  PROVE  Held'
<1>0. Typed
  BY DEF Context, TypedAndPlaced
<1>1. CASE UNCHANGED vars
  BY <1>1, HeldSame DEF vars, systemVars, focusVars, paramVars, flagVars, callVars
<1>2. ASSUME NEW d \in Devices, NEW e \in Kinds, NEW f \in Focuses, NEW p \in Requests,
             CreateBegin(d, e, f, p)
      PROVE  Held'
  BY <1>2, CreateHeld
<1>3. ASSUME NEW d \in Devices,
             \/ CreateMode(d) \/ CreateModeReturns(d) \/ CreateEnd(d)
             \/ ResetMode(d) \/ ResetModeReturns(d) \/ ResetEnd(d)
      PROVE  Held'
  BY <1>3, ModeCallHeld, ReturnsHeld, CreateEndHeld, ResetEndHeld
<1>4. ASSUME NEW d \in Devices, NEW p \in Requests, ResetBegin(d, p) \/ ResetUnchanged(d, p)
      PROVE  Held'
  BY <1>4, ResetBeginHeld, ResetUnchangedHeld
<1>5. ASSUME NEW d \in Devices, Release(d) PROVE Held'
  <2>1. life'[d] = "freed" /\ pc'[d] = "idle"
    BY <1>0, <1>5 DEF Release, callVars, Typed
  <2> QED
    BY <2>1 DEF Held, HeldAt, ShownAt, OneDevice
<1>6. ASSUME NEW d \in Devices, NEW w \in Windows, Deactivate(w, d) \/ Activate(w, d)
      PROVE  Held'
  BY <1>6, MessageHeld
<1>7. ASSUME NEW w \in Windows, Destroy(w) PROVE Held'
  <2>1. UNCHANGED <<mode, life, ex, paramVars, flagVars, callVars>>
    BY <1>7 DEF Destroy
  <2>2. CASE UNCHANGED focusVars
    BY <2>1, <2>2, HeldSame DEF focusVars, paramVars, flagVars, callVars
  <2>3. ASSUME NEW d \in Devices, Unwrap(d) PROVE Held'
    <3>1. wrapped'[d] = NoWindow
      BY <2>3 DEF Unwrap, Context, Wraps
    <3>2. HeldAt(d)'
      BY <2>1, <3>1 DEF Held, HeldAt, ShownAt, paramVars, flagVars, callVars
    <3> QED
      BY <3>2 DEF Held, OneDevice
  <2> QED
    BY <1>7, <2>2, <2>3 DEF Destroy
<1>8. ASSUME NEW w \in Windows, Application(w) PROVE Held'
  BY <1>8, HeldSame DEF Application, systemVars, focusVars, paramVars, flagVars, callVars
<1>9. CASE ThirdParty
  BY <1>9, RefreshHeld
<1> QED
  BY <1>1, <1>2, <1>3, <1>4, <1>5, <1>6, <1>7, <1>8, <1>9 DEF Next

LEMMA HoldingMode == Typed /\ Held => ModeHeld
  BY DEF Typed, Held, HeldAt, ShownAt, ModeHeld, Idle

\* What ResetRestores says of a step.
Restored ==
  \A d \in Devices : ResetReturns(d) /\ last'[d] = "ok" /\ ~windowed'[d] =>
    d \in overtaken \/ (mode'.size = size'[d] /\ ~mismatch'[d])

LEMMA StepRestored ==
  ASSUME FullModes, Context, Claims, Held PROVE Restored
<1> SUFFICES ASSUME NEW d \in Devices, ResetReturns(d), ~windowed'[d], d \notin overtaken
             PROVE  mode'.size = size'[d] /\ ~mismatch'[d]
  BY DEF Restored
<1>1. CASE ResetEnd(d)
  BY <1>1, ResetEndRestores
<1>2. ASSUME NEW p \in Requests, ResetUnchanged(d, p) PROVE mode'.size = size'[d] /\ ~mismatch'[d]
  BY <1>2, ResetUnchangedSize DEF Held, HeldAt, ShownAt
<1> QED
  BY <1>1, <1>2 DEF ResetReturns

\* The invariant both theorems need.
ModeInvariant == Reaching /\ Wraps /\ TypedAndPlaced /\ Claims /\ Held

LEMMA ModesKept ==
  ASSUME OneDevice, FullModes, Filtered, ModesGranted, DisplayAlone, "backend" \notin Failures
  PROVE  Spec => []ModeInvariant
<1>1. Init => ModeInvariant
  BY ReachingInit, TypedInit, ClaimsInit, HeldInit DEF Init, Wraps, ModeInvariant
<1>2. ModeInvariant /\ [Next]_vars => ModeInvariant'
  BY StepReaches, StepTyped, StepClaims, StepHeld, NeverFails DEF Context, ModeInvariant
<1> QED
  BY <1>1, <1>2, PTL DEF Spec

\* A fullscreen device whose mode is not on the display knows, whatever
\* activations, resets and changes of the refresh rate come between, also
\* between the steps of a call: an Ex device is occluded until it gets the
\* focus and its mode back, another one reports the mismatch (present.c:390).
\* The device whose mode was replaced while the call set it is the exception
\* that ModeHeld makes, and the next reset that sets the mode ends it.
THEOREM FullscreenModeHeld ==
  ASSUME OneDevice, FullModes, Filtered, ModesGranted, DisplayAlone, "backend" \notin Failures
  PROVE  Spec => []ModeHeld
<1>1. ModeInvariant => ModeHeld
  BY HoldingMode DEF ModeInvariant, TypedAndPlaced
<1> QED
  BY <1>1, ModesKept, PTL

\* A reset that succeeds leaves a fullscreen device with its resolution on
\* the display and no mismatch, also one that found nothing to change: while
\* the device was away from its mode reapply_mode told (present.c:1347).
THEOREM ResetsRestoreMode ==
  ASSUME OneDevice, FullModes, Filtered, ModesGranted, DisplayAlone, "backend" \notin Failures
  PROVE  Spec => ResetRestores
<1>1. ModeInvariant => Restored
  BY StepRestored DEF ModeInvariant, Context
<1>2. [][Restored]_vars => ResetRestores
  BY DEF Restored, ResetRestores
<1> QED
  BY <1>1, <1>2, ModesKept, PTL DEF Spec
=============================================================================
