---------------------------- MODULE WndProcTable ----------------------------
(***************************************************************************)
(* The table of windows whose messages nine reads (wndproc.c), and what    *)
(* an application may do to a window procedure meanwhile.                  *)
(*                                                                         *)
(* Each operation runs under nine_wndproc_cs and is one step.  The array   *)
(* and its order are a function from windows to entries; growing it is     *)
(* left to the callers, which decide whether there is memory.  The unicode *)
(* and the ANSI branch of each operation do the same.                      *)
(***************************************************************************)
CONSTANTS Windows, Devices, NoDevice

ASSUME TableAssumption == NoDevice \notin Devices

VARIABLES
  table,                 \* wndproc_table: the entry of each window
  wndproc,               \* the window's procedure, GWLP_WNDPROC
  appPrev                \* what the application's own procedure calls next

tableVars == <<table, wndproc, appPrev>>

\* A window's first procedure, nine_wndproc, and one the application puts
\* in front of what it finds (subclassing).
Procs == {"original", "nine", "app"}

Entries == [proc : Procs, present : Devices \cup {NoDevice}]
NoEntry == [proc |-> "none", present |-> NoDevice]

TableTypeOK ==
  /\ table \in [Windows -> Entries \cup {NoEntry}]
  /\ wndproc \in [Windows -> Procs]
  /\ appPrev \in [Windows -> Procs \cup {"none"}]

TableInit ==
  /\ table = [w \in Windows |-> NoEntry]
  /\ wndproc = [w \in Windows |-> "original"]
  /\ appPrev = [w \in Windows |-> "none"]

\* nine_find_wndproc
Registered(w) == table[w] # NoEntry

\* A message to the window comes to nine_wndproc, directly or from the
\* application's procedure, and so to a device.
MessagesReachNine(w) ==
  \/ wndproc[w] = "nine"
  \/ wndproc[w] = "app" /\ appPrev[w] = "nine"

Receiver(w) ==
  IF MessagesReachNine(w) /\ Registered(w) THEN table[w].present ELSE NoDevice

\* Registers the window for a device.  A window that is registered keeps
\* its entry, and with it the device that registered it first.
nine_register_window(w, d) ==
  IF Registered(w)
  THEN UNCHANGED <<table, wndproc>>
  ELSE /\ table' = [table EXCEPT ![w] = [proc |-> wndproc[w], present |-> d]]
       /\ wndproc' = [wndproc EXCEPT ![w] = "nine"]

\* Mutants: the entry stays for ever; a procedure in front is not looked at;
\* a skipped entry keeps its device.
TableKeeping(w) == [table EXCEPT ![w] = IF Registered(w) THEN [@ EXCEPT !.present = NoDevice] ELSE @]
TableForgetting(w) == [table EXCEPT ![w] = NoEntry]
TableDangling(w) == IF wndproc[w] # "nine" THEN table ELSE TableForgetting(w)

\* Gives the window its procedure back.  Someone else's procedure is left
\* alone, and the entry stays for it to call, without its device.
TableWithout(w) ==
  [table EXCEPT ![w] =
     IF Registered(w) /\ wndproc[w] # "nine" THEN [@ EXCEPT !.present = NoDevice]
     ELSE NoEntry]

ProcsWithout(w) ==
  [wndproc EXCEPT ![w] = IF Registered(w) /\ @ = "nine" THEN table[w].proc ELSE @]

nine_unregister_window(w) ==
  /\ table' = TableWithout(w)
  /\ wndproc' = ProcsWithout(w)

---------------------------------------------------------------------------
(* The application. *)

\* It puts its procedure in front of whatever it finds.
Subclass(w) ==
  /\ appPrev[w] = "none"
  /\ appPrev' = [appPrev EXCEPT ![w] = wndproc[w]]
  /\ wndproc' = [wndproc EXCEPT ![w] = "app"]
  /\ UNCHANGED table

\* It puts back what it found, also over a procedure set in the meantime.
Unsubclass(w) ==
  /\ appPrev[w] # "none"
  /\ wndproc' = [wndproc EXCEPT ![w] = appPrev[w]]
  /\ appPrev' = [appPrev EXCEPT ![w] = "none"]
  /\ UNCHANGED table

---------------------------------------------------------------------------
\* The procedures a message passes, from procedure p of window w on, end
\* with the window's first one.
NineCallsOriginal(w) ==
  /\ Registered(w)
  /\ \/ table[w].proc = "original"
     \/ table[w].proc = "app" /\ appPrev[w] \in {"original", "none"}

\* Every message arrives at the window's own procedure in the end, neither
\* in DefWindowProc, which is what nine_wndproc falls back to for a window
\* it does not know (wndproc.c:117), nor in a circle between nine's and the
\* application's procedure.  nine_unregister_window keeps the entry for this
\* when it finds a procedure that is not nine's (202).
OriginalReached ==
  \A w \in Windows :
    /\ wndproc[w] = "nine" => NineCallsOriginal(w)
    /\ wndproc[w] = "app" /\ appPrev[w] = "nine" =>
         Registered(w) /\ table[w].proc = "original"
=============================================================================
