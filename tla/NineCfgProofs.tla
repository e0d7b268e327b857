---------------------------- MODULE NineCfgProofs ----------------------------
(***************************************************************************)
(* Theorems about NineCfg, whatever operations fail, whenever the process  *)
(* dies and whatever Wine puts back: while one user at a time runs the     *)
(* program, Wine's d3d9.dll is not lost, a call in which nothing fails     *)
(* does what it is called for, and without accidents no directory is left  *)
(* half way.                                                               *)
(***************************************************************************)
EXTENDS NineCfg, TLAPS

\* What nine_set knows of the files of the architecture it works in, from
\* the test it made to the operation that relies on it.
Tested ==
  \A p \in Procs :
    /\ pc[p] = "rename" => back[at[p]] = "absent"
    /\ pc[p] \in {"remove", "restore"} => back[at[p]] = "wine"
    /\ pc[p] = "unlink" => dst[at[p]] = "nine"

\* The inductive invariant.  That the backup is never nine's own symlink is
\* part of TypeOK and needs the rest: only Tested and OriginalKept tell what
\* Rename moves.
KeptInv == TypeOK /\ OriginalKept /\ Tested

\* One user: there is only one run of the program at a time.
OneUser == \A p, q \in Procs : p = q

---------------------------------------------------------------------------
\* A step of the program, and what it notes in the history.
LEMMA StepFacts ==
  ASSUME TypeOK, NEW p \in Procs, NEW from, NEW to \in PCs, Step(p, from, to)
  PROVE  /\ pc[p] = from /\ pc'[p] = to /\ pc' \in [Procs -> PCs]
         /\ \A q \in Procs : q # p => pc'[q] = pc[q]
  BY DEF TypeOK, Step

LEMMA HistoryFacts ==
  ASSUME TypeOK, NEW p \in Procs, NEW operation, Succeeds \/ Fails(p, operation)
  PROVE  clean' \in [Procs -> BOOLEAN] /\ tidy' \in BOOLEAN
<1>1. CASE Succeeds
  BY <1>1 DEF Succeeds, history, TypeOK
<1>2. CASE Fails(p, operation)
  BY <1>2 DEF Fails, TypeOK
<1> QED
  BY <1>1, <1>2

\* A prefix as Wine made it has the file in its place.
LEMMA KeptInit == Init => KeptInv
  BY DEF Init, KeptInv, TypeOK, OriginalKept, Tested, Files, PCs

\* Calls begin and dialogs are used without a file being touched.
LEMMA KeptBegin ==
  ASSUME KeptInv, NEW p \in Procs,
         \/ \E a \in Archs, s, n \in BOOLEAN : CommandLine(p, a, s, n)
         \/ \E a \in Archs : load_settings(p, a)
         \/ Click(p) \/ Close(p)
  PROVE  KeptInv'
<1>1. CASE \E a \in Archs, s, n \in BOOLEAN : CommandLine(p, a, s, n)
  <2>1. PICK a \in Archs, s \in BOOLEAN, n \in BOOLEAN : CommandLine(p, a, s, n)
    BY <1>1
  <2> QED
    BY <2>1 DEF CommandLine, Step, Begin, KeptInv, TypeOK, OriginalKept, Tested, Files, PCs,
                registryVars, fileVars
<1>2. CASE \E a \in Archs : load_settings(p, a)
  <2>1. PICK a \in Archs : load_settings(p, a)
    BY <1>2
  <2> QED
    BY <2>1 DEF load_settings, nine_get, nine_registry_enabled, is_nine_symlink, KeptInv, TypeOK,
                OriginalKept, Tested, Files, PCs, registryVars, fileVars, history
<1>3. CASE Click(p)
  BY <1>3 DEF Click, NewStatus, Step, Begin, KeptInv, TypeOK, OriginalKept, Tested, Files, PCs,
              registryVars, fileVars
<1>4. CASE Close(p)
  BY <1>4 DEF Close, KeptInv, TypeOK, OriginalKept, Tested, Files, PCs,
              registryVars, fileVars, history
<1> QED
  BY <1>1, <1>2, <1>3, <1>4

\* The steps of nine_set before it comes to the files.
LEMMA KeptRegistry ==
  ASSUME KeptInv, NEW p \in Procs, OtherArch(p) \/ DelRedirect(p) \/ SetOverride(p) \/ Result(p)
  PROVE  KeptInv'
<1>1. CASE OtherArch(p)
  <2>1. /\ pc[p] = "other" /\ pc'[p] = "redirects" /\ pc' \in [Procs -> PCs]
        /\ \A q \in Procs : q # p => pc'[q] = pc[q]
    BY <1>1, StepFacts DEF OtherArch, PCs, KeptInv
  <2>2. clean' \in [Procs -> BOOLEAN] /\ tidy' \in BOOLEAN
    BY <1>1, HistoryFacts DEF OtherArch, KeptInv
  <2>3. at' \in [Procs -> Archs]
    BY <1>1 DEF OtherArch, KeptInv, TypeOK, OriginalKept, Files, file_exist
  <2>4. TypeOK'
    BY <1>1, <2>1, <2>2, <2>3 DEF OtherArch, KeptInv, TypeOK, registryVars, fileVars
  <2>5. OriginalKept'
    BY <1>1, <2>3 DEF OtherArch, KeptInv, TypeOK, OriginalKept, Files, file_exist, registryVars, fileVars
  <2>6. Tested'
    BY <1>1, <2>1 DEF OtherArch, KeptInv, TypeOK, Tested, registryVars, fileVars
  <2> QED
    BY <2>4, <2>5, <2>6 DEF KeptInv
<1>2. CASE DelRedirect(p)
  <2>1. /\ pc[p] = "redirects" /\ pc'[p] = "overrides" /\ pc' \in [Procs -> PCs]
        /\ \A q \in Procs : q # p => pc'[q] = pc[q]
    BY <1>2, StepFacts DEF DelRedirect, PCs, KeptInv
  <2>2. clean' \in [Procs -> BOOLEAN] /\ tidy' \in BOOLEAN
    BY <1>2, HistoryFacts DEF DelRedirect, KeptInv
  <2>3. redirect' \in BOOLEAN
    BY <1>2 DEF DelRedirect, KeptInv, TypeOK, OriginalKept, Files, file_exist
  <2>4. TypeOK'
    BY <1>2, <2>1, <2>2, <2>3 DEF DelRedirect, KeptInv, TypeOK, fileVars, runVars
  <2>5. OriginalKept'
    BY <1>2, <2>3 DEF DelRedirect, KeptInv, TypeOK, OriginalKept, Files, file_exist, fileVars, runVars
  <2>6. Tested'
    BY <1>2, <2>1 DEF DelRedirect, KeptInv, TypeOK, Tested, fileVars, runVars
  <2> QED
    BY <2>4, <2>5, <2>6 DEF KeptInv
<1>3. CASE SetOverride(p)
  <2>1. /\ pc[p] = "overrides" /\ pc'[p] \in {"checkdst", "checklink"} /\ pc' \in [Procs -> PCs]
        /\ \A q \in Procs : q # p => pc'[q] = pc[q]
    BY <1>3, StepFacts DEF SetOverride, PCs, KeptInv
  <2>2. clean' \in [Procs -> BOOLEAN] /\ tidy' \in BOOLEAN
    BY <1>3, HistoryFacts DEF SetOverride, KeptInv
  <2>3. override' \in {"none", "native", "other"}
    BY <1>3 DEF SetOverride, KeptInv, TypeOK, OriginalKept, Files, file_exist
  <2>4. TypeOK'
    BY <1>3, <2>1, <2>2, <2>3 DEF SetOverride, KeptInv, TypeOK, fileVars, runVars
  <2>5. OriginalKept'
    BY <1>3, <2>3 DEF SetOverride, KeptInv, TypeOK, OriginalKept, Files, file_exist, fileVars, runVars
  <2>6. Tested'
    BY <1>3, <2>1 DEF SetOverride, KeptInv, TypeOK, Tested, fileVars, runVars
  <2> QED
    BY <2>4, <2>5, <2>6 DEF KeptInv
<1>4. CASE Result(p)
  <2>1. /\ pc[p] = "result" /\ pc'[p] \in {"idle", "redirects"} /\ pc' \in [Procs -> PCs]
        /\ \A q \in Procs : q # p => pc'[q] = pc[q] /\ at'[q] = at[q]
    BY <1>4, StepFacts DEF Result, PCs, KeptInv, TypeOK
  <2>2. at' \in [Procs -> Archs] /\ checked' \in [Procs -> BOOLEAN]
    BY <1>4 DEF Result, KeptInv, TypeOK, nine_get, nine_registry_enabled, is_nine_symlink
  <2>3. TypeOK'
    BY <1>4, <2>1, <2>2 DEF Result, KeptInv, TypeOK, registryVars, fileVars, history
  <2>4. OriginalKept'
    BY <1>4 DEF Result, KeptInv, OriginalKept, fileVars
  <2>5. Tested'
    BY <1>4, <2>1 DEF Result, KeptInv, TypeOK, Tested, fileVars
  <2> QED
    BY <2>3, <2>4, <2>5 DEF KeptInv
<1> QED
  BY <1>1, <1>2, <1>3, <1>4

\* The tests.
LEMMA KeptTest ==
  ASSUME KeptInv, NEW p \in Procs,
         CheckDst(p) \/ CheckBack(p) \/ CheckLink(p) \/ LookBack(p) \/ Load(p)
  PROVE  KeptInv'
<1>1. CASE CheckDst(p)
  BY <1>1 DEF CheckDst, Step, KeptInv, TypeOK, OriginalKept, Tested, Files, PCs,
              registryVars, fileVars, runVars, history
<1>2. CASE CheckBack(p)
  BY <1>2 DEF CheckBack, Step, file_exist, KeptInv, TypeOK, OriginalKept, Tested, Files, PCs,
              registryVars, fileVars, runVars, history
<1>3. CASE CheckLink(p)
  BY <1>3 DEF CheckLink, Step, is_nine_symlink, KeptInv, TypeOK, OriginalKept, Tested, Files, PCs,
              registryVars, fileVars, runVars, history
<1>4. CASE LookBack(p)
  BY <1>4 DEF LookBack, Step, file_exist, KeptInv, TypeOK, OriginalKept, Tested, Files, PCs,
              registryVars, fileVars, runVars, history
<1>5. CASE Load(p)
  <2>1. /\ pc[p] = "load" /\ pc'[p] \in {"link", "result"} /\ pc' \in [Procs -> PCs]
        /\ \A q \in Procs : q # p => pc'[q] = pc[q]
    BY <1>5, StepFacts DEF Load, PCs, KeptInv
  <2>2. clean' \in [Procs -> BOOLEAN] /\ tidy' \in BOOLEAN
    <3>1. CASE Succeeds \/ Fails(p, "load")
      BY <3>1, HistoryFacts DEF KeptInv
    <3>2. CASE clean' = [clean EXCEPT ![p] = FALSE] /\ tidy' = FALSE
      BY <3>2 DEF KeptInv, TypeOK
    <3> QED
      BY <1>5, <3>1, <3>2 DEF Load
  <2>3. TypeOK'
    BY <1>5, <2>1, <2>2 DEF Load, KeptInv, TypeOK, registryVars, fileVars, runVars
  <2>4. OriginalKept'
    BY <1>5 DEF Load, KeptInv, TypeOK, OriginalKept, Files, file_exist, registryVars, fileVars, runVars
  <2>5. Tested'
    BY <1>5, <2>1 DEF Load, KeptInv, TypeOK, Tested, registryVars, fileVars, runVars
  <2> QED
    BY <2>3, <2>4, <2>5 DEF KeptInv
<1> QED
  BY <1>1, <1>2, <1>3, <1>4, <1>5

\* The operations on the files: here no other process may have come in
\* between the test and the operation, nor may its own tests be spoilt.
LEMMA KeptFile ==
  ASSUME KeptInv, OneUser, NEW p \in Procs,
         Rename(p) \/ Remove(p) \/ Link(p) \/ Unlink(p) \/ Restore(p)
  PROVE  KeptInv'
<1>1. CASE Rename(p)
  <2>1. /\ pc[p] = "rename" /\ pc'[p] = "load" /\ pc' \in [Procs -> PCs]
        /\ \A q \in Procs : q # p => pc'[q] = pc[q]
    BY <1>1, StepFacts DEF Rename, PCs, KeptInv
  <2>2. clean' \in [Procs -> BOOLEAN] /\ tidy' \in BOOLEAN
    BY <1>1, HistoryFacts DEF Rename, KeptInv
  <2>3. back[at[p]] = "absent" /\ at[p] \in Archs
    BY <2>1 DEF KeptInv, Tested, TypeOK
  <2>4. dst' \in [Archs -> Files] /\ back' \in [Archs -> Files \ {"nine"}]
    <3>1. CASE UNCHANGED fileVars
      BY <3>1 DEF fileVars, KeptInv, TypeOK
    <3>2. CASE ~UNCHANGED fileVars
      <4>1. dst[at[p]] = "wine"
        BY <1>1, <2>3, <3>2 DEF Rename, KeptInv, OriginalKept
      <4>2. back' = [back EXCEPT ![at[p]] = "wine"] /\ dst' = [dst EXCEPT ![at[p]] = "absent"]
        BY <1>1, <3>2, <4>1 DEF Rename
      <4> QED
        BY <4>2 DEF KeptInv, TypeOK, Files
    <3> QED
      BY <3>1, <3>2
  <2>5. TypeOK'
    BY <1>1, <2>1, <2>2, <2>3, <2>4 DEF Rename, KeptInv, TypeOK, registryVars, fileVars, runVars
  <2>6. OriginalKept'
    BY <1>1, <2>3, <2>4 DEF Rename, KeptInv, TypeOK, OriginalKept, Files, file_exist, registryVars, fileVars, runVars
  <2>7. Tested'
    BY <2>1 DEF OneUser, Tested
  <2> QED
    BY <2>5, <2>6, <2>7 DEF KeptInv
<1>2. CASE Remove(p)
  <2>1. /\ pc[p] = "remove" /\ pc'[p] = "load" /\ pc' \in [Procs -> PCs]
        /\ \A q \in Procs : q # p => pc'[q] = pc[q]
    BY <1>2, StepFacts DEF Remove, PCs, KeptInv
  <2>2. clean' \in [Procs -> BOOLEAN] /\ tidy' \in BOOLEAN
    BY <1>2, HistoryFacts DEF Remove, KeptInv
  <2>3. back[at[p]] = "wine" /\ at[p] \in Archs
    BY <2>1 DEF KeptInv, Tested, TypeOK
  <2>4. dst' \in [Archs -> Files]
    BY <1>2, <2>3 DEF Remove, KeptInv, TypeOK, OriginalKept, Files, file_exist
  <2>5. TypeOK'
    BY <1>2, <2>1, <2>2, <2>3, <2>4 DEF Remove, KeptInv, TypeOK, registryVars, runVars
  <2>6. OriginalKept'
    BY <1>2, <2>3, <2>4 DEF Remove, KeptInv, TypeOK, OriginalKept, Files, file_exist, registryVars, runVars
  <2>7. Tested'
    BY <2>1 DEF OneUser, Tested
  <2> QED
    BY <2>5, <2>6, <2>7 DEF KeptInv
<1>3. CASE Link(p)
  <2>1. /\ pc[p] = "link" /\ pc'[p] = "result" /\ pc' \in [Procs -> PCs]
        /\ \A q \in Procs : q # p => pc'[q] = pc[q]
    BY <1>3, StepFacts DEF Link, PCs, KeptInv
  <2>2. clean' \in [Procs -> BOOLEAN] /\ tidy' \in BOOLEAN
    BY <1>3, HistoryFacts DEF Link, KeptInv
  <2>3. dst' \in [Archs -> Files]
    BY <1>3 DEF Link, KeptInv, TypeOK, OriginalKept, Files, file_exist
  <2>4. TypeOK'
    BY <1>3, <2>1, <2>2, <2>3 DEF Link, KeptInv, TypeOK, registryVars, runVars
  <2>5. OriginalKept'
    BY <1>3, <2>3 DEF Link, KeptInv, TypeOK, OriginalKept, Files, file_exist, registryVars, runVars
  <2>6. Tested'
    BY <2>1 DEF OneUser, Tested
  <2> QED
    BY <2>4, <2>5, <2>6 DEF KeptInv
<1>4. CASE Unlink(p)
  <2>1. /\ pc[p] = "unlink" /\ pc'[p] = "lookback" /\ pc' \in [Procs -> PCs]
        /\ \A q \in Procs : q # p => pc'[q] = pc[q]
    BY <1>4, StepFacts DEF Unlink, PCs, KeptInv
  <2>2. clean' \in [Procs -> BOOLEAN] /\ tidy' \in BOOLEAN
    BY <1>4, HistoryFacts DEF Unlink, KeptInv
  <2>3. dst[at[p]] = "nine" /\ at[p] \in Archs
    BY <2>1 DEF KeptInv, Tested, TypeOK
  <2>4. dst' \in [Archs -> Files]
    BY <1>4, <2>3 DEF Unlink, KeptInv, TypeOK, OriginalKept, Files, file_exist
  <2>5. TypeOK'
    BY <1>4, <2>1, <2>2, <2>3, <2>4 DEF Unlink, KeptInv, TypeOK, registryVars, runVars
  <2>6. OriginalKept'
    BY <1>4, <2>3, <2>4 DEF Unlink, KeptInv, TypeOK, OriginalKept, Files, file_exist, registryVars, runVars
  <2>7. Tested'
    BY <2>1 DEF OneUser, Tested
  <2> QED
    BY <2>5, <2>6, <2>7 DEF KeptInv
<1>5. CASE Restore(p)
  <2>1. /\ pc[p] = "restore" /\ pc'[p] = "result" /\ pc' \in [Procs -> PCs]
        /\ \A q \in Procs : q # p => pc'[q] = pc[q]
    BY <1>5, StepFacts DEF Restore, PCs, KeptInv
  <2>2. clean' \in [Procs -> BOOLEAN] /\ tidy' \in BOOLEAN
    BY <1>5, HistoryFacts DEF Restore, KeptInv
  <2>3. back[at[p]] = "wine" /\ at[p] \in Archs
    BY <2>1 DEF KeptInv, Tested, TypeOK
  <2>4. dst' \in [Archs -> Files] /\ back' \in [Archs -> Files \ {"nine"}]
    <3>1. CASE UNCHANGED fileVars
      BY <3>1 DEF fileVars, KeptInv, TypeOK
    <3>2. CASE ~UNCHANGED fileVars
      <4>2. back' = [back EXCEPT ![at[p]] = "absent"] /\ dst' = [dst EXCEPT ![at[p]] = "wine"]
        BY <1>5, <2>3, <3>2 DEF Restore
      <4> QED
        BY <4>2 DEF KeptInv, TypeOK, Files
    <3> QED
      BY <3>1, <3>2
  <2>5. TypeOK'
    BY <1>5, <2>1, <2>2, <2>3, <2>4 DEF Restore, KeptInv, TypeOK, registryVars, fileVars, runVars
  <2>6. OriginalKept'
    BY <1>5, <2>3, <2>4 DEF Restore, KeptInv, TypeOK, OriginalKept, Files, file_exist, registryVars, fileVars, runVars
  <2>7. Tested'
    BY <2>1 DEF OneUser, Tested
  <2> QED
    BY <2>5, <2>6, <2>7 DEF KeptInv
<1> QED
  BY <1>1, <1>2, <1>3, <1>4, <1>5

\* What happens to the program and the prefix.
LEMMA KeptCrash == ASSUME KeptInv, NEW p \in Procs, Crash(p) PROVE KeptInv'
<1>1. /\ pc' \in [Procs -> PCs] /\ own' \in [Procs -> Archs] /\ at' \in [Procs -> Archs]
      /\ dialog' \in [Procs -> {"closed", "greyed", "open"}]
      /\ clean' \in [Procs -> BOOLEAN] /\ tidy' \in BOOLEAN
  <2>1. pc' \in [Procs -> PCs]
    BY DEF Crash, KeptInv, TypeOK, PCs
  <2>2. own' \in [Procs -> Archs] /\ at' \in [Procs -> Archs]
    BY DEF Crash, KeptInv, TypeOK
  <2>3. dialog' \in [Procs -> {"closed", "greyed", "open"}]
    BY DEF Crash, KeptInv, TypeOK
  <2>4. clean' \in [Procs -> BOOLEAN] /\ tidy' \in BOOLEAN
    BY DEF Crash, KeptInv, TypeOK
  <2> QED
    BY <2>1, <2>2, <2>3, <2>4
<1>2. /\ pc'[p] \in {"idle", "redirects"} \/ (pc'[p] = pc[p] /\ at'[p] = at[p])
      /\ \A q \in Procs : q # p => pc'[q] = pc[q] /\ at'[q] = at[q]
  BY DEF Crash, KeptInv, TypeOK
<1>3. TypeOK'
  BY <1>1 DEF Crash, KeptInv, TypeOK, registryVars, fileVars
<1>4. OriginalKept'
  BY DEF Crash, KeptInv, OriginalKept, fileVars
<1>5. Tested'
  BY <1>2 DEF Crash, KeptInv, Tested, fileVars
<1> QED
  BY <1>3, <1>4, <1>5 DEF KeptInv

LEMMA KeptPrefix == ASSUME KeptInv, NEW a \in Archs, Install(a) \/ Update(a) PROVE KeptInv'
<1>1. CASE Install(a)
  BY <1>1 DEF Install, KeptInv, TypeOK, OriginalKept, Tested, Files, PCs,
              registryVars, fileVars, runVars, history
<1>2. CASE Update(a)
  <2>1. dst' \in [Archs -> Files] /\ clean' \in [Procs -> BOOLEAN] /\ tidy' \in BOOLEAN
    BY <1>2 DEF Update, KeptInv, TypeOK, Files
  <2>2. TypeOK'
    BY <1>2, <2>1 DEF Update, KeptInv, TypeOK, registryVars, runVars
  <2>3. OriginalKept'
    BY <1>2 DEF Update, KeptInv, TypeOK, OriginalKept
  <2>4. Tested'
    BY <1>2 DEF Update, KeptInv, TypeOK, Tested, runVars
  <2> QED
    BY <2>2, <2>3, <2>4 DEF KeptInv
<1> QED
  BY <1>1, <1>2

LEMMA KeptStep == ASSUME KeptInv, OneUser, [Next]_vars PROVE KeptInv'
<1>1. CASE \E p \in Procs :
             \/ \E a \in Archs, s, n \in BOOLEAN : CommandLine(p, a, s, n)
             \/ \E a \in Archs : load_settings(p, a)
             \/ Click(p) \/ Close(p)
  BY <1>1, KeptBegin
<1>2. CASE \E p \in Procs : NineSet(p)
  BY <1>2, KeptRegistry, KeptTest, KeptFile DEF NineSet
<1>3. CASE \E p \in Procs : Crash(p)
  BY <1>3, KeptCrash
<1>4. CASE \E a \in Archs : Install(a) \/ Update(a)
  BY <1>4, KeptPrefix
<1>5. CASE UNCHANGED vars
  BY <1>5 DEF vars, registryVars, fileVars, runVars, history, KeptInv, TypeOK, OriginalKept, Tested
<1> QED
  BY <1>1, <1>2, <1>3, <1>4, <1>5 DEF Next

---------------------------------------------------------------------------
\* While one user at a time runs ninewinecfg, Wine's d3d9.dll is in its
\* place or the backup, in every architecture, whatever fails and whenever
\* the process dies between two operations.
THEOREM OriginalNeverLost == ASSUME OneUser PROVE Spec => []OriginalKept
<1>1. KeptInv /\ [Next]_vars => KeptInv'
  BY KeptStep
<1>2. KeptInv => OriginalKept
  BY DEF KeptInv
<1> QED
  BY <1>1, <1>2, KeptInit, PTL DEF Spec

\* The same for the types: the backup is never a symlink of nine's.
THEOREM BackupNeverNine == ASSUME OneUser PROVE Spec => []TypeOK
<1>1. KeptInv /\ [Next]_vars => KeptInv'
  BY KeptStep
<1>2. KeptInv => TypeOK
  BY DEF KeptInv
<1> QED
  BY <1>1, <1>2, KeptInit, PTL DEF Spec

---------------------------------------------------------------------------
(* Switching on and off settles. *)

SettledAt(a) == <<dst[a], back[a]>> \in {<<"nine", "wine">>, <<"wine", "absent">>}

\* From the time d3d9.dll is taken away until another one is in its place.
Editing(p) == pc[p] \in {"load", "link", "lookback", "restore"}

\* As long as nothing went wrong every directory is settled but the one a
\* run is at work in, where d3d9.dll is missing and Wine's is the backup.
Phase ==
  tidy =>
    /\ \A a \in Archs : (\A p \in Procs : Editing(p) => at[p] # a) => SettledAt(a)
    /\ \A p \in Procs : Editing(p) => dst[at[p]] = "absent" /\ back[at[p]] = "wine"

\* A step that touches no file, in a run that is at work on them before and
\* after it, or neither before nor after.
LEMMA PhaseSame ==
  ASSUME Phase, OneUser, UNCHANGED fileVars, tidy' => tidy,
         \A p \in Procs : /\ Editing(p)' <=> Editing(p)
                          /\ Editing(p) => at'[p] = at[p]
  PROVE  Phase'
  BY DEF Phase, SettledAt, fileVars

\* A directory is taken to work on, or is given up settled.
LEMMA PhaseEdits ==
  ASSUME Phase, OneUser, NEW p \in Procs, ~Editing(p), Editing(p)', at'[p] = at[p],
         dst'[at[p]] = "absent", back'[at[p]] = "wine",
         \A a \in Archs : a # at[p] => dst'[a] = dst[a] /\ back'[a] = back[a], tidy' => tidy
  PROVE  Phase'
  BY DEF Phase, SettledAt, OneUser

LEMMA PhaseEnds ==
  ASSUME Phase, OneUser, NEW p \in Procs, ~Editing(p)', at'[p] = at[p],
         <<dst'[at[p]], back'[at[p]]>> \in {<<"nine", "wine">>, <<"wine", "absent">>},
         \A a \in Archs : a # at[p] => dst'[a] = dst[a] /\ back'[a] = back[a], tidy' => tidy
  PROVE  Phase'
  BY DEF Phase, SettledAt, OneUser

\* The run is not at work on files: all directories are settled.
LEMMA AllSettled ==
  ASSUME Phase, tidy, OneUser, NEW p \in Procs, ~Editing(p), NEW a \in Archs
  PROVE  SettledAt(a)
  BY DEF Phase, OneUser

LEMMA PhaseBegin ==
  ASSUME KeptInv, Phase, OneUser, NEW p \in Procs,
         \/ \E a \in Archs, s, n \in BOOLEAN : CommandLine(p, a, s, n)
         \/ \E a \in Archs : load_settings(p, a)
         \/ Click(p) \/ Close(p)
         \/ OtherArch(p) \/ DelRedirect(p) \/ SetOverride(p) \/ Result(p)
         \/ CheckBack(p) \/ CheckLink(p)
  PROVE  Phase'
<1>1. UNCHANGED fileVars
  BY DEF CommandLine, Begin, load_settings, Click, Close, OtherArch, DelRedirect, SetOverride,
         Result, CheckBack, CheckLink
<1>2. tidy' => tidy
  BY DEF CommandLine, Begin, load_settings, Click, Close, OtherArch, DelRedirect, SetOverride,
         Result, CheckBack, CheckLink, Succeeds, Fails, history
<1>3. ~Editing(p) /\ ~Editing(p)'
  BY DEF CommandLine, Step, load_settings, Click, Close, OtherArch, DelRedirect, SetOverride,
         Result, CheckBack, CheckLink, Editing, KeptInv, TypeOK
<1> QED
  BY <1>1, <1>2, <1>3, PhaseSame DEF OneUser

LEMMA PhaseTest ==
  ASSUME KeptInv, Phase, OneUser, NEW p \in Procs, CheckDst(p) \/ LookBack(p) \/ Load(p)
  PROVE  Phase'
<1>0. at[p] \in Archs /\ TypeOK
  BY DEF KeptInv, TypeOK
<1>1. UNCHANGED fileVars /\ UNCHANGED at
  BY DEF CheckDst, LookBack, Load, runVars
<1>2. tidy' => tidy
  BY DEF CheckDst, LookBack, Load, Succeeds, Fails, history
<1>3. CASE ~tidy'
  BY <1>3 DEF Phase
<1>4. CASE tidy' /\ CheckDst(p)
  <2>1. ~Editing(p) /\ pc[p] = "checkdst"
    BY <1>4 DEF CheckDst, Step, Editing
  <2>2. SettledAt(at[p])
    BY <1>0, <1>2, <1>4, <2>1, AllSettled
  <2>3. file_exist(dst, at[p])
    BY <2>2 DEF SettledAt, file_exist
  <2>4. ~Editing(p)'
    BY <1>0, <1>4, <2>3 DEF CheckDst, Step, Editing, TypeOK
  <2> QED
    BY <1>1, <1>2, <2>1, <2>4, PhaseSame DEF OneUser
<1>5. CASE tidy' /\ LookBack(p)
  <2>1. Editing(p)
    BY <1>5 DEF LookBack, Step, Editing
  <2>2. file_exist(back, at[p])
    BY <1>2, <1>5, <2>1 DEF Phase, file_exist
  <2>3. Editing(p)'
    BY <1>0, <1>5, <2>2 DEF LookBack, Step, Editing, TypeOK
  <2> QED
    BY <1>1, <1>2, <2>1, <2>3, PhaseSame DEF OneUser
<1>6. CASE tidy' /\ Load(p)
  <2>1. Editing(p) /\ Editing(p)'
    BY <1>0, <1>6 DEF Load, Step, Editing, Fails, TypeOK
  <2> QED
    BY <1>1, <1>2, <2>1, PhaseSame DEF OneUser
<1> QED
  BY <1>2, <1>3, <1>4, <1>5, <1>6

LEMMA PhaseFile ==
  ASSUME KeptInv, Phase, OneUser, NEW p \in Procs,
         Rename(p) \/ Remove(p) \/ Link(p) \/ Unlink(p) \/ Restore(p)
  PROVE  Phase'
<1>0. /\ at[p] \in Archs /\ TypeOK
      /\ dst \in [Archs -> Files] /\ back \in [Archs -> Files]
  BY DEF KeptInv, TypeOK
<1>1. UNCHANGED at
  BY DEF Rename, Remove, Link, Unlink, Restore, runVars
<1>2. tidy' => tidy
  BY DEF Rename, Remove, Link, Unlink, Restore, Succeeds, Fails, history
<1>3. CASE ~tidy'
  BY <1>3 DEF Phase
<1>4. CASE tidy' /\ Rename(p)
  <2>1. pc[p] = "rename" /\ ~Editing(p) /\ Editing(p)' /\ back[at[p]] = "absent"
    BY <1>0, <1>4 DEF Rename, Step, Editing, TypeOK, KeptInv, Tested
  <2>2. dst[at[p]] = "wine"
    BY <1>0, <1>2, <1>4, <2>1, AllSettled DEF SettledAt
  <2>3. dst' = [dst EXCEPT ![at[p]] = "absent"] /\ back' = [back EXCEPT ![at[p]] = "wine"]
    BY <1>4, <2>2 DEF Rename, Fails, file_exist
  <2> QED
    BY <1>0, <1>1, <1>2, <2>1, <2>3, PhaseEdits
<1>5. CASE tidy' /\ Remove(p)
  <2>1. pc[p] = "remove" /\ ~Editing(p) /\ Editing(p)' /\ back[at[p]] = "wine"
    BY <1>0, <1>5 DEF Remove, Step, Editing, TypeOK, KeptInv, Tested
  <2>2. dst' = [dst EXCEPT ![at[p]] = "absent"] /\ UNCHANGED back
    BY <1>5 DEF Remove, Fails
  <2> QED
    BY <1>0, <1>1, <1>2, <2>1, <2>2, PhaseEdits
<1>6. CASE tidy' /\ Link(p)
  <2>1. Editing(p) /\ ~Editing(p)'
    BY <1>0, <1>6 DEF Link, Step, Editing, TypeOK
  <2>2. dst[at[p]] = "absent" /\ back[at[p]] = "wine"
    BY <1>2, <1>6, <2>1 DEF Phase
  <2>3. dst' = [dst EXCEPT ![at[p]] = "nine"] /\ UNCHANGED back
    BY <1>6, <2>2 DEF Link, Fails, file_exist
  <2> QED
    BY <1>0, <1>1, <1>2, <2>1, <2>2, <2>3, PhaseEnds
<1>7. CASE tidy' /\ Unlink(p)
  <2>1. pc[p] = "unlink" /\ ~Editing(p) /\ Editing(p)' /\ dst[at[p]] = "nine"
    BY <1>0, <1>7 DEF Unlink, Step, Editing, TypeOK, KeptInv, Tested
  <2>2. back[at[p]] = "wine"
    BY <1>0, <1>2, <1>7, <2>1, AllSettled DEF SettledAt
  <2>3. dst' = [dst EXCEPT ![at[p]] = "absent"] /\ UNCHANGED back
    BY <1>7 DEF Unlink, Fails
  <2> QED
    BY <1>0, <1>1, <1>2, <2>1, <2>2, <2>3, PhaseEdits
<1>8. CASE tidy' /\ Restore(p)
  <2>1. Editing(p) /\ ~Editing(p)' /\ back[at[p]] = "wine"
    BY <1>0, <1>8 DEF Restore, Step, Editing, TypeOK, KeptInv, Tested
  <2>2. dst' = [dst EXCEPT ![at[p]] = "wine"] /\ back' = [back EXCEPT ![at[p]] = "absent"]
    BY <1>8, <2>1 DEF Restore, Fails
  <2> QED
    BY <1>0, <1>1, <1>2, <2>1, <2>2, PhaseEnds
<1> QED
  BY <1>2, <1>3, <1>4, <1>5, <1>6, <1>7, <1>8

LEMMA PhaseStep == ASSUME KeptInv, Phase, OneUser, [Next]_vars PROVE Phase'
<1>1. CASE \E p \in Procs :
             \/ \E a \in Archs, s, n \in BOOLEAN : CommandLine(p, a, s, n)
             \/ \E a \in Archs : load_settings(p, a)
             \/ Click(p) \/ Close(p)
  BY <1>1, PhaseBegin
<1>2. CASE \E p \in Procs : NineSet(p)
  BY <1>2, PhaseBegin, PhaseTest, PhaseFile DEF NineSet
<1>3. CASE (\E p \in Procs : Crash(p)) \/ \E a \in Archs : Update(a)
  BY <1>3 DEF Crash, Update, Phase
<1>4. CASE \E a \in Archs : Install(a)
  BY <1>4, PhaseSame DEF Install, runVars, history, Editing
<1>5. CASE UNCHANGED vars
  BY <1>5, PhaseSame DEF vars, runVars, history, Editing
<1> QED
  BY <1>1, <1>2, <1>3, <1>4, <1>5 DEF Next

\* However often one user switches nine on and off, from whichever
\* architecture, with -n or without: as long as nothing fails, no directory
\* is left with a stale backup or without d3d9.dll.
THEOREM TogglesSettle == ASSUME OneUser PROVE Spec => []Settled
<1>1. Init => KeptInv /\ Phase
  BY KeptInit DEF Init, Phase, SettledAt, Editing
<1>2. KeptInv /\ Phase /\ [Next]_vars => KeptInv' /\ Phase'
  BY KeptStep, PhaseStep
<1>3. Phase => Settled
  BY DEF Phase, Settled, SettledAt, Editing
<1> QED
  BY <1>1, <1>2, <1>3, PTL DEF Spec

---------------------------------------------------------------------------
(* A call does what it is called for. *)

\* Architecture a is as the call of p wants it, but for the override.
DoneAt(p, a) ==
  IF status[p] THEN installed[a] /\ dst[a] = "nine" ELSE dst[a] # "nine"

\* Where nine_set is when it enables nine, where when it disables it, and
\* where the override is set already.
Enabling == {"checkdst", "checkback", "rename", "remove", "load", "link"}
Disabling == {"checklink", "unlink", "lookback", "restore"}

\* A run in which nothing went wrong, at one of its positions: the override
\* is written once it is past it, a removed d3d9.dll stays away until the
\* next one is put in its place, and the architecture worked in last is done.
OnCourse(p) ==
  /\ pc[p] \in Enabling \cup Disabling \cup {"result"} =>
       override = IF status[p] THEN "native" ELSE "none"
  /\ pc[p] \in Enabling => status[p]
  /\ pc[p] \in Disabling => ~status[p]
  /\ pc[p] \in {"load", "link", "lookback"} => dst[at[p]] = "absent"
  /\ pc[p] = "link" => installed[at[p]]
  /\ pc[p] = "result" => DoneAt(p, at[p])

\* And the other architecture, if the call covers it, is done before its own.
OtherFirst(p) ==
  pc[p] \notin {"idle", "other"} /\ at[p] = own[p] /\ ~alone[p] =>
    \A b \in Archs \ {own[p]} : installed[b] => DoneAt(p, b)

Working == \A p \in Procs : clean[p] /\ pc[p] # "idle" => OnCourse(p) /\ OtherFirst(p)

\* A click asks for the contrary of what the dialog shows.
Asked == \A p \in Procs : pc[p] # "idle" /\ dialog[p] = "open" => (status[p] <=> ~checked[p])

\* At a position of the run of p from which another one is reached.
LEMMA WorkingOne ==
  ASSUME OneUser, NEW p \in Procs, clean'[p] => OnCourse(p)' /\ OtherFirst(p)'
  PROVE  Working'
  BY DEF OneUser, Working

\* The beginning of a call and what the dialog does without one.
LEMMA WorkingBegin ==
  ASSUME KeptInv, OneUser, NEW p \in Procs,
         \/ \E a \in Archs, s, n \in BOOLEAN : CommandLine(p, a, s, n)
         \/ \E a \in Archs : load_settings(p, a)
         \/ Click(p) \/ Close(p)
  PROVE  Working'
<1>1. pc'[p] \in {"idle", "other"}
  BY DEF CommandLine, load_settings, Click, Close, Step, KeptInv, TypeOK
<1>2. OnCourse(p)' /\ OtherFirst(p)'
  BY <1>1 DEF OnCourse, OtherFirst, Enabling, Disabling
<1> QED
  BY <1>2, WorkingOne

\* The other program's run and the registry.
LEMMA WorkingRegistry ==
  ASSUME KeptInv, Working, OneUser, NEW p \in Procs,
         OtherArch(p) \/ DelRedirect(p) \/ SetOverride(p)
  PROVE  Working'
<1>0. TypeOK /\ at[p] \in Archs /\ own[p] \in Archs /\ status[p] \in BOOLEAN
  BY DEF KeptInv, TypeOK
<1>1. CASE OtherArch(p)
  <2>1. pc'[p] = "redirects"
    BY <1>0, <1>1 DEF OtherArch, Step, TypeOK
  <2>2. OnCourse(p)'
    BY <2>1 DEF OnCourse, Enabling, Disabling
  <2>3. UNCHANGED <<installed, own, alone>>
    BY <1>1 DEF OtherArch
  <2>4. clean'[p] => OtherFirst(p)'
    <3>1. CASE ~alone[p] /\ \E b \in Archs \ {own[p]} : at' = [at EXCEPT ![p] = b]
      BY <1>0, <2>3, <3>1 DEF OtherFirst, TypeOK
    <3>2. CASE alone[p] \/ \A b \in Archs \ {own[p]} : ~installed[b]
      BY <2>3, <3>2 DEF OtherFirst
    <3>3. CASE Fails(p, "process")
      BY <1>0, <3>3 DEF Fails, TypeOK
    <3> QED
      BY <1>1, <3>1, <3>2, <3>3 DEF OtherArch
  <2> QED
    BY <2>2, <2>4, WorkingOne
<1>2. CASE DelRedirect(p)
  <2>1. pc[p] = "redirects" /\ pc'[p] = "overrides"
    BY <1>0, <1>2 DEF DelRedirect, Step, TypeOK
  <2>2. OnCourse(p)'
    BY <2>1 DEF OnCourse, Enabling, Disabling
  <2>3. clean'[p] => clean[p]
    BY <1>0, <1>2 DEF DelRedirect, Succeeds, Fails, history, TypeOK
  <2>4. clean[p] => OtherFirst(p)
    BY <2>1 DEF Working
  <2>5. UNCHANGED <<dst, installed, own, at, status, alone>>
    BY <1>2 DEF DelRedirect, fileVars, runVars
  <2>6. clean'[p] => OtherFirst(p)'
    BY <2>1, <2>3, <2>4, <2>5 DEF OtherFirst, DoneAt
  <2> QED
    BY <2>2, <2>6, WorkingOne
<1>3. CASE SetOverride(p)
  <2>1. pc[p] = "overrides" /\ pc'[p] = IF status[p] THEN "checkdst" ELSE "checklink"
    BY <1>0, <1>3 DEF SetOverride, Step, TypeOK
  <2>2. clean'[p] => clean[p] /\ override' = IF status[p] THEN "native" ELSE "none"
    BY <1>0, <1>3 DEF SetOverride, Succeeds, Fails, history, TypeOK
  <2>4. clean[p] => OtherFirst(p)
    BY <2>1 DEF Working
  <2>5. UNCHANGED <<dst, installed, own, at, status, alone>>
    BY <1>3 DEF SetOverride, fileVars, runVars
  <2>6. clean'[p] => OtherFirst(p)'
    BY <2>1, <2>2, <2>4, <2>5 DEF OtherFirst, DoneAt
  <2>7. clean'[p] => OnCourse(p)'
    BY <1>0, <2>1, <2>2, <2>5 DEF OnCourse, Enabling, Disabling
  <2> QED
    BY <2>6, <2>7, WorkingOne
<1> QED
  BY <1>1, <1>2, <1>3

\* Between the override and the end of an architecture's part: only the
\* files of that architecture change.
LEMMA WorkingInside ==
  ASSUME KeptInv, Working, OneUser, NEW p \in Procs,
         pc[p] \notin {"idle", "other"}, pc'[p] \in Enabling \cup Disabling \cup {"result"},
         pc[p] \in Enabling \cup Disabling,
         UNCHANGED <<override, installed, own, at, status, alone>>,
         clean'[p] => clean[p],
         \A a \in Archs : a # at[p] => dst'[a] = dst[a],
         pc'[p] \in Enabling => pc[p] \in Enabling,
         pc'[p] \in Disabling => pc[p] \in Disabling,
         clean'[p] => /\ pc'[p] \in {"load", "link", "lookback"} => dst'[at[p]] = "absent"
                      /\ pc'[p] = "link" => installed[at[p]]
                      /\ pc'[p] = "result" => DoneAt(p, at[p])'
  PROVE  Working'
<1>1. clean[p] => OnCourse(p) /\ OtherFirst(p)
  BY DEF Working
<1>2. clean'[p] => OnCourse(p)'
  BY <1>1 DEF OnCourse, DoneAt
<1>3. clean'[p] => OtherFirst(p)'
  BY <1>1 DEF OtherFirst, DoneAt, Enabling, Disabling
<1> QED
  BY <1>2, <1>3, WorkingOne

LEMMA WorkingTest ==
  ASSUME KeptInv, Working, OneUser, NEW p \in Procs,
         CheckDst(p) \/ CheckBack(p) \/ CheckLink(p) \/ LookBack(p) \/ Load(p)
  PROVE  Working'
<1>0. TypeOK /\ at[p] \in Archs /\ clean[p] \in BOOLEAN
  BY DEF KeptInv, TypeOK
<1>1. UNCHANGED <<dst, override, installed, own, at, status, alone>>
  BY DEF CheckDst, CheckBack, CheckLink, LookBack, Load, registryVars, fileVars, runVars
<1>2. clean'[p] => clean[p]
  BY <1>0 DEF CheckDst, CheckBack, CheckLink, LookBack, Load, Succeeds, Fails, history, TypeOK
<1>3. clean[p] /\ pc[p] # "idle" => OnCourse(p)
  BY DEF Working
<1>4. CASE CheckDst(p)
  <2>1. pc[p] = "checkdst" /\ pc'[p] = IF file_exist(dst, at[p]) THEN "checkback" ELSE "load"
    BY <1>0, <1>4 DEF CheckDst, Step, TypeOK
  <2> QED
    BY <1>1, <1>2, <2>1, WorkingInside DEF Enabling, Disabling, file_exist
<1>5. CASE CheckBack(p)
  <2>1. pc[p] = "checkback" /\ pc'[p] \in {"remove", "rename"}
    BY <1>0, <1>5 DEF CheckBack, Step, TypeOK
  <2> QED
    BY <1>1, <1>2, <2>1, WorkingInside DEF Enabling, Disabling
<1>6. CASE CheckLink(p)
  <2>1. pc[p] = "checklink" /\ pc'[p] = IF dst[at[p]] = "nine" THEN "unlink" ELSE "result"
    BY <1>0, <1>6 DEF CheckLink, Step, TypeOK, is_nine_symlink
  <2>2. clean[p] => ~status[p]
    BY <1>3, <2>1 DEF OnCourse, Disabling
  <2>3. clean[p] /\ pc'[p] = "result" => DoneAt(p, at[p])'
    BY <1>1, <2>1, <2>2 DEF DoneAt
  <2> QED
    BY <1>1, <1>2, <2>1, <2>3, WorkingInside DEF Enabling, Disabling
<1>7. CASE LookBack(p)
  <2>1. pc[p] = "lookback" /\ pc'[p] \in {"restore", "result"}
    BY <1>0, <1>7 DEF LookBack, Step, TypeOK
  <2>2. clean[p] => ~status[p] /\ dst[at[p]] = "absent"
    BY <1>3, <2>1 DEF OnCourse, Disabling
  <2>3. clean[p] => DoneAt(p, at[p])'
    BY <1>1, <2>2 DEF DoneAt
  <2> QED
    BY <1>1, <1>2, <2>1, <2>3, WorkingInside DEF Enabling, Disabling
<1>8. CASE Load(p)
  <2>1. pc[p] = "load" /\ pc'[p] \in {"link", "result"}
    BY <1>0, <1>8 DEF Load, Step, TypeOK
  <2>2. clean'[p] => pc'[p] = "link" /\ installed[at[p]]
    BY <1>0, <1>8 DEF Load, Step, Fails, TypeOK
  <2>3. clean[p] => dst[at[p]] = "absent"
    BY <1>3, <2>1 DEF OnCourse
  <2> QED
    BY <1>1, <1>2, <2>1, <2>2, <2>3, WorkingInside DEF Enabling, Disabling
<1> QED
  BY <1>4, <1>5, <1>6, <1>7, <1>8

LEMMA WorkingFile ==
  ASSUME KeptInv, Working, OneUser, NEW p \in Procs,
         Rename(p) \/ Remove(p) \/ Link(p) \/ Unlink(p) \/ Restore(p)
  PROVE  Working'
<1>0. TypeOK /\ at[p] \in Archs /\ clean[p] \in BOOLEAN /\ dst \in [Archs -> Files]
  BY DEF KeptInv, TypeOK
<1>1. UNCHANGED <<override, installed, own, at, status, alone>>
  BY DEF Rename, Remove, Link, Unlink, Restore, registryVars, runVars
<1>2. clean'[p] => clean[p]
  BY <1>0 DEF Rename, Remove, Link, Unlink, Restore, Succeeds, Fails, history, TypeOK
<1>3. clean[p] /\ pc[p] # "idle" => OnCourse(p)
  BY DEF Working
<1>4. \A a \in Archs : a # at[p] => dst'[a] = dst[a]
  BY <1>0 DEF Rename, Remove, Link, Unlink, Restore, fileVars
<1>5. CASE Rename(p)
  <2>1. pc[p] = "rename" /\ pc'[p] = "load"
    BY <1>0, <1>5 DEF Rename, Step, TypeOK
  <2>2. clean'[p] => dst'[at[p]] = "absent"
    BY <1>0, <1>5 DEF Rename, Fails, file_exist, fileVars, TypeOK
  <2> QED
    BY <1>1, <1>2, <1>4, <2>1, <2>2, WorkingInside DEF Enabling, Disabling
<1>6. CASE Remove(p)
  <2>1. pc[p] = "remove" /\ pc'[p] = "load"
    BY <1>0, <1>6 DEF Remove, Step, TypeOK
  <2>2. clean'[p] => dst'[at[p]] = "absent"
    BY <1>0, <1>6 DEF Remove, Fails, TypeOK
  <2> QED
    BY <1>1, <1>2, <1>4, <2>1, <2>2, WorkingInside DEF Enabling, Disabling
<1>7. CASE Link(p)
  <2>1. pc[p] = "link" /\ pc'[p] = "result"
    BY <1>0, <1>7 DEF Link, Step, TypeOK
  <2>2. clean[p] => status[p] /\ dst[at[p]] = "absent" /\ installed[at[p]]
    BY <1>3, <2>1 DEF OnCourse, Enabling
  <2>3. clean'[p] => dst'[at[p]] = "nine"
    BY <1>0, <1>2, <1>7, <2>2 DEF Link, Fails, file_exist, TypeOK
  <2>4. clean'[p] => DoneAt(p, at[p])'
    BY <1>1, <1>2, <2>2, <2>3 DEF DoneAt
  <2> QED
    BY <1>1, <1>2, <1>4, <2>1, <2>4, WorkingInside DEF Enabling, Disabling
<1>8. CASE Unlink(p)
  <2>1. pc[p] = "unlink" /\ pc'[p] = "lookback"
    BY <1>0, <1>8 DEF Unlink, Step, TypeOK
  <2>2. clean'[p] => dst'[at[p]] = "absent"
    BY <1>0, <1>8 DEF Unlink, Fails, TypeOK
  <2> QED
    BY <1>1, <1>2, <1>4, <2>1, <2>2, WorkingInside DEF Enabling, Disabling
<1>9. CASE Restore(p)
  <2>1. pc[p] = "restore" /\ pc'[p] = "result" /\ back[at[p]] = "wine"
    BY <1>0, <1>9 DEF Restore, Step, TypeOK, KeptInv, Tested
  <2>2. clean[p] => ~status[p]
    BY <1>3, <2>1 DEF OnCourse, Disabling
  <2>3. clean'[p] => dst'[at[p]] = "wine"
    BY <1>0, <1>9, <2>1 DEF Restore, Fails, TypeOK
  <2>4. clean'[p] => DoneAt(p, at[p])'
    BY <1>1, <1>2, <2>2, <2>3 DEF DoneAt
  <2> QED
    BY <1>1, <1>2, <1>4, <2>1, <2>4, WorkingInside DEF Enabling, Disabling
<1> QED
  BY <1>5, <1>6, <1>7, <1>8, <1>9

\* The child's part is over and its parent goes on: with two architectures
\* the child's is the only other one.
LEMMA WorkingResult ==
  ASSUME KeptInv, Working, OneUser, NEW p \in Procs, Result(p)
  PROVE  Working'
<1>0. TypeOK /\ at[p] \in Archs /\ own[p] \in Archs
  BY DEF KeptInv, TypeOK
<1>1. CASE pc'[p] = "idle"
  BY <1>1, WorkingOne DEF OnCourse, OtherFirst, Enabling, Disabling
<1>2. CASE pc'[p] # "idle"
  <2>1. pc[p] = "result" /\ pc'[p] = "redirects" /\ at[p] # own[p] /\ at'[p] = own[p]
    BY <1>0, <1>2 DEF Result, Step, TypeOK
  <2>2. UNCHANGED <<dst, installed, own, status, alone, clean>>
    BY DEF Result, fileVars, history
  <2>3. clean[p] => DoneAt(p, at[p])
    BY <2>1 DEF Working, OnCourse
  <2>4. \A b \in Archs \ {own[p]} : b = at[p]
    BY <1>0, <2>1, ArchsAssumption
  <2>5. clean'[p] => OtherFirst(p)'
    BY <2>2, <2>3, <2>4 DEF OtherFirst, DoneAt
  <2>6. OnCourse(p)'
    BY <2>1 DEF OnCourse, Enabling, Disabling
  <2> QED
    BY <2>5, <2>6, WorkingOne
<1> QED
  BY <1>1, <1>2

LEMMA WorkingStep == ASSUME KeptInv, Working, OneUser, [Next]_vars PROVE Working'
<1>1. CASE \E p \in Procs :
             \/ \E a \in Archs, s, n \in BOOLEAN : CommandLine(p, a, s, n)
             \/ \E a \in Archs : load_settings(p, a)
             \/ Click(p) \/ Close(p)
  BY <1>1, WorkingBegin
<1>2. CASE \E p \in Procs : NineSet(p)
  BY <1>2, WorkingRegistry, WorkingTest, WorkingFile, WorkingResult DEF NineSet
<1>3. CASE \E p \in Procs : Crash(p)
  <2>1. PICK p \in Procs : Crash(p)
    BY <1>3
  <2>2. ~clean'[p]
    BY <2>1 DEF Crash, KeptInv, TypeOK
  <2> QED
    BY <2>2, WorkingOne
<1>4. CASE \E a \in Archs : Update(a)
  BY <1>4 DEF Update, Working
<1>5. CASE \E a \in Archs : Install(a)
  BY <1>5 DEF Install, Working
<1>6. CASE UNCHANGED vars
  BY <1>6 DEF vars, registryVars, fileVars, runVars, history, Working, OnCourse, OtherFirst, DoneAt
<1> QED
  BY <1>1, <1>2, <1>3, <1>4, <1>5, <1>6 DEF Next

LEMMA AskedStep == ASSUME KeptInv, Asked, OneUser, [Next]_vars PROVE Asked'
<1>1. SUFFICES ASSUME NEW p \in Procs, pc'[p] # "idle", dialog'[p] = "open"
               PROVE  status'[p] <=> ~checked'[p]
  BY DEF Asked
<1>2. \A q \in Procs : q = p
  BY DEF OneUser
<1>3. TypeOK
  BY DEF KeptInv
<1>4. CASE \E a \in Archs, s, n \in BOOLEAN : CommandLine(p, a, s, n)
  BY <1>1, <1>3, <1>4 DEF CommandLine
<1>5. CASE \E a \in Archs : load_settings(p, a)
  BY <1>1, <1>3, <1>5 DEF load_settings
<1>6. CASE Click(p)
  BY <1>3, <1>6 DEF Click, NewStatus, Begin, TypeOK
<1>7. CASE Close(p)
  BY <1>1, <1>3, <1>7 DEF Close
<1>8. CASE NineSet(p)
  <2>1. pc[p] # "idle" /\ UNCHANGED <<dialog, status>>
    BY <1>8 DEF NineSet, OtherArch, DelRedirect, SetOverride, CheckDst, CheckBack, Rename, Remove,
                Load, Link, CheckLink, Unlink, LookBack, Restore, Result, Step, runVars
  <2>2. UNCHANGED checked
    <3>1. CASE Result(p)
      BY <1>1, <1>3, <3>1 DEF Result, Step, TypeOK
    <3>2. CASE ~Result(p)
      BY <1>8, <3>2 DEF NineSet, OtherArch, DelRedirect, SetOverride, CheckDst, CheckBack, Rename,
                        Remove, Load, Link, CheckLink, Unlink, LookBack, Restore, runVars
    <3> QED
      BY <3>1, <3>2
  <2> QED
    BY <1>1, <2>1, <2>2 DEF Asked
<1>9. CASE Crash(p)
  <2>1. pc[p] # "idle" /\ UNCHANGED <<status, checked>> /\ UNCHANGED dialog
    BY <1>1, <1>3, <1>9 DEF Crash, TypeOK
  <2> QED
    BY <1>1, <2>1 DEF Asked
<1>10. CASE (\E a \in Archs : Install(a) \/ Update(a)) \/ UNCHANGED vars
  <2>1. UNCHANGED <<pc, dialog, status, checked>>
    BY <1>10 DEF Install, Update, vars, runVars
  <2> QED
    BY <1>1, <2>1 DEF Asked
<1> QED
  BY <1>2, <1>4, <1>5, <1>6, <1>7, <1>8, <1>9, <1>10 DEF Next

\* What the end of a clean run finds.
LEMMA EndFinds ==
  ASSUME KeptInv, Working, [Next]_vars, NEW p \in Procs, Ends(p), clean'[p], OneUser
  PROVE  /\ Result(p) /\ clean[p] /\ at[p] = own[p]
         /\ override = IF status[p] THEN "native" ELSE "none"
         /\ \A a \in Covered(p) : DoneAt(p, a)
<1>1. pc[p] = "result" /\ pc'[p] = "idle" /\ TypeOK
  BY DEF Ends, KeptInv
<1>2. \A q \in Procs : q = p
  BY DEF OneUser
<1>3. NineSet(p)
  BY <1>1, <1>2 DEF Next, CommandLine, load_settings, Click, Close, Step, Crash, TypeOK,
                    Install, Update, vars, runVars
<1>4. Result(p)
  BY <1>1, <1>3 DEF NineSet, OtherArch, DelRedirect, SetOverride, CheckDst, CheckBack, Rename,
                    Remove, Load, Link, CheckLink, Unlink, LookBack, Restore, Step
<1>5. at[p] = own[p] /\ UNCHANGED clean
  BY <1>1, <1>4 DEF Result, Step, TypeOK, history
<1>6. OnCourse(p) /\ OtherFirst(p)
  BY <1>1, <1>5 DEF Working
<1>7. DoneAt(p, own[p]) /\ override = IF status[p] THEN "native" ELSE "none"
  BY <1>1, <1>5, <1>6 DEF OnCourse
<1>8. \A a \in Covered(p) : DoneAt(p, a)
  BY <1>1, <1>5, <1>6, <1>7 DEF Covered, OtherFirst
<1> QED
  BY <1>4, <1>5, <1>7, <1>8

LEMMA WorkingAlways == ASSUME OneUser PROVE Spec => [](KeptInv /\ Working /\ Asked)
<1>1. Init => KeptInv /\ Working /\ Asked
  BY KeptInit DEF Init, Working, Asked
<1>2. KeptInv /\ Working /\ Asked /\ [Next]_vars => KeptInv' /\ Working' /\ Asked'
  BY KeptStep, WorkingStep, AskedStep
<1> QED
  BY <1>1, <1>2, PTL DEF Spec

\* What CallWorks and ClickToggles say of a step.
Works ==
  \A p \in Procs : Ends(p) /\ clean'[p] =>
    \A a \in Covered(p) : IF status[p] THEN nine_get(a)
                          ELSE override = "none" /\ ~is_nine_symlink(dst, a)
Toggles ==
  \A p \in Procs : Ends(p) /\ clean'[p] /\ dialog[p] = "open" => checked'[p] # checked[p]

\* A call of nine_set in which nothing fails switches nine on or off in both
\* architectures, or in its own with -n, whatever half-done work earlier
\* calls that failed or died left in the prefix (main.c, nine_set).
THEOREM CleanCallsWork == ASSUME OneUser PROVE Spec => CallWorks
<1>1. KeptInv /\ Working /\ [Next]_vars => Works
  <2>1. SUFFICES ASSUME KeptInv, Working, [Next]_vars, NEW p \in Procs, Ends(p), clean'[p],
                        NEW a \in Covered(p)
                 PROVE  IF status[p] THEN nine_get(a)
                        ELSE override = "none" /\ ~is_nine_symlink(dst, a)
    BY DEF Works
  <2>2. DoneAt(p, a) /\ override = IF status[p] THEN "native" ELSE "none"
    BY <2>1, EndFinds
  <2> QED
    BY <2>2 DEF DoneAt, nine_get, nine_registry_enabled, is_nine_symlink
<1>2. [][Works]_vars => CallWorks
  BY DEF Works, CallWorks
<1> QED
  BY <1>1, <1>2, WorkingAlways, PTL DEF Spec

\* A click on the dialog's box that works changes the box: it asks for the
\* contrary of what is shown and shows afterwards what is the case.
THEOREM ClicksToggle == ASSUME OneUser PROVE Spec => ClickToggles
<1>1. KeptInv /\ Working /\ Asked /\ [Next]_vars => Toggles
  <2>1. SUFFICES ASSUME KeptInv, Working, Asked, [Next]_vars, NEW p \in Procs, Ends(p), clean'[p],
                        dialog[p] = "open"
                 PROVE  checked'[p] # checked[p]
    BY DEF Toggles
  <2>2. TypeOK /\ pc[p] = "result" /\ pc'[p] = "idle"
    BY <2>1 DEF KeptInv, Ends
  <2>3. /\ Result(p) /\ own[p] \in Covered(p)
        /\ \A a \in Covered(p) : DoneAt(p, a)
        /\ override = IF status[p] THEN "native" ELSE "none"
    BY <2>1, EndFinds DEF Covered
  <2>4. DoneAt(p, own[p])
    BY <2>3
  <2>5. checked'[p] = nine_get(own[p])
    BY <2>1, <2>2, <2>3 DEF Result, Step, TypeOK
  <2>6. status[p] <=> ~checked[p]
    BY <2>1, <2>2 DEF Asked
  <2>7. nine_get(own[p]) <=> status[p]
    BY <2>2, <2>3, <2>4 DEF DoneAt, nine_get, nine_registry_enabled, is_nine_symlink, TypeOK
  <2> QED
    BY <2>5, <2>6, <2>7
<1>2. [][Toggles]_vars => ClickToggles
  BY DEF Toggles, ClickToggles
<1> QED
  BY <1>1, <1>2, WorkingAlways, PTL DEF Spec
=============================================================================
