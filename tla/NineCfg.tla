------------------------------- MODULE NineCfg -------------------------------
(***************************************************************************)
(* The configuration tool (ninewinecfg/main.c with common/registry.c):     *)
(* enabling and disabling nine in a Wine prefix, from the command line or  *)
(* from the dialog.                                                        *)
(*                                                                         *)
(* nine_set is a program over three stores that nothing locks: the         *)
(* registry, which both architectures share, and in each architecture's    *)
(* system directory d3d9.dll and its backup.  A step is one operation on a *)
(* store; between two of them the process may die and Wine may put a       *)
(* missing d3d9.dll back.  Left out: the probe (-p), which changes         *)
(* nothing, paths and messages, and a failing allocation.                  *)
(***************************************************************************)
CONSTANTS
  Procs,        \* runs of the program that the user has going at a time
  Archs,        \* architectures of the prefix, one or two
  Failures      \* operations that may fail: "registry", "rename", "remove",
                \* "symlink", "load", "process"

\* Win32 and win64: nine_set calls at most one other program.
ASSUME ArchsAssumption == \A a, b, c \in Archs : a = b \/ b = c \/ a = c

VARIABLES
  (* the prefix *)
  override,     \* DllOverrides\d3d9: "none", "native", "other"
  redirect,     \* there is a value DllRedirects\d3d9
  dst,          \* d3d9.dll: "absent", "wine" for Wine's own, "nine" for a symlink
  back,         \* d3d9-nine.bak
  installed,    \* d3d9-nine.dll and ninewinecfg.exe are there
  (* a run of the program *)
  pc, own,      \* where it is, the architecture it was started in
  at,           \* the architecture nine_set works in: own, or the child's
  status, alone,   \* parameters of nine_set: status, NoOtherArch
  dialog, checked, \* "closed", "greyed", "open"; the checkbox
  (* history *)
  clean,        \* nothing failed and nobody died in this run
  tidy          \* so far nothing failed, nobody died, nobody interfered

registryVars == <<override, redirect>>
fileVars == <<dst, back>>
runVars == <<own, at, status, alone, dialog, checked>>
history == <<clean, tidy>>
vars == <<registryVars, fileVars, installed, pc, runVars, history>>

Files == {"absent", "wine", "nine"}
PCs == {"idle", "other", "redirects", "overrides", "checkdst", "checkback", "rename",
        "remove", "load", "link", "checklink", "unlink", "lookback", "restore", "result"}

TypeOK ==
  /\ override \in {"none", "native", "other"} /\ redirect \in BOOLEAN
  /\ dst \in [Archs -> Files]
  /\ back \in [Archs -> Files \ {"nine"}]     \* never nine's own symlink
  /\ installed \in [Archs -> BOOLEAN]
  /\ pc \in [Procs -> PCs]
  /\ own \in [Procs -> Archs] /\ at \in [Procs -> Archs]
  /\ status \in [Procs -> BOOLEAN] /\ alone \in [Procs -> BOOLEAN]
  /\ dialog \in [Procs -> {"closed", "greyed", "open"}] /\ checked \in [Procs -> BOOLEAN]
  /\ clean \in [Procs -> BOOLEAN] /\ tidy \in BOOLEAN

\* A prefix as Wine made it.
Init ==
  /\ override \in {"none", "other"} /\ redirect \in BOOLEAN
  /\ dst = [a \in Archs |-> "wine"] /\ back = [a \in Archs |-> "absent"]
  /\ installed = [a \in Archs |-> FALSE]
  /\ pc = [p \in Procs |-> "idle"]
  /\ own \in [Procs -> Archs] /\ at = own
  /\ status = [p \in Procs |-> FALSE] /\ alone = [p \in Procs |-> FALSE]
  /\ dialog = [p \in Procs |-> "closed"] /\ checked = [p \in Procs |-> FALSE]
  /\ clean = [p \in Procs |-> TRUE] /\ tidy = TRUE

---------------------------------------------------------------------------
\* readlink's -1 for a file that is no symlink is not below a size_t; the
\* comparison of what buf then has comes out FALSE in practice.
is_nine_symlink(f, a) == f[a] = "nine"
file_exist(f, a) == f[a] # "absent"

\* A value that cannot be read or is no string is as good as none.
nine_registry_enabled == override = "native"

\* Whether nine is in use, for a process of architecture a: the symlink
\* leads to the installed library.
nine_get(a) == nine_registry_enabled /\ is_nine_symlink(dst, a) /\ installed[a]

\* The step of p from one position to another.
Step(p, from, to) == pc[p] = from /\ pc' = [pc EXCEPT ![p] = to]

Succeeds == UNCHANGED history
Fails(p, operation) ==
  /\ operation \in Failures
  /\ clean' = [clean EXCEPT ![p] = FALSE]
  /\ tidy' = FALSE

---------------------------------------------------------------------------
(* The program. *)

\* "ninewinecfg -e" or "-d", with or without "-n".
Begin(p, s, n) ==
  /\ status' = [status EXCEPT ![p] = s]
  /\ alone' = [alone EXCEPT ![p] = n]
  /\ clean' = [clean EXCEPT ![p] = TRUE]
  /\ UNCHANGED <<registryVars, fileVars, installed, tidy>>

CommandLine(p, a, s, n) ==
  /\ Step(p, "idle", "other") /\ dialog[p] = "closed"
  /\ installed[a]
  /\ own' = [own EXCEPT ![p] = a] /\ at' = [at EXCEPT ![p] = a]
  /\ Begin(p, s, n)
  /\ UNCHANGED <<dialog, checked>>

\* The dialog lets nine be switched only if it works.
load_settings(p, a) ==
  /\ pc[p] = "idle" /\ dialog[p] = "closed"
  /\ installed[a]
  /\ own' = [own EXCEPT ![p] = a] /\ at' = [at EXCEPT ![p] = a]
  /\ \E d \in {"greyed", "open"} : dialog' = [dialog EXCEPT ![p] = d]
  /\ checked' = [checked EXCEPT ![p] = nine_get(a)]
  /\ UNCHANGED <<registryVars, fileVars, installed, pc, status, alone, history>>

\* Mutant: the box is taken for one that has changed already.
ClickedState(p) == checked[p]

\* A click on the box, which Windows does not change by itself.
NewStatus(p) == ~checked[p]

Click(p) ==
  /\ Step(p, "idle", "other") /\ dialog[p] = "open"
  /\ Begin(p, NewStatus(p), FALSE)
  /\ UNCHANGED <<own, at, dialog, checked>>

Close(p) ==
  /\ pc[p] = "idle" /\ dialog[p] # "closed"
  /\ dialog' = [dialog EXCEPT ![p] = "closed"]
  /\ UNCHANGED <<registryVars, fileVars, installed, pc, own, at, status, alone, checked, history>>

\* The other architecture's program is run first, with -n.  Whether it can
\* be, and what it returns, is ignored.
OtherArch(p) ==
  /\ Step(p, "other", "redirects")
  /\ \/ /\ ~alone[p]
        /\ \E b \in Archs \ {own[p]} : installed[b] /\ at' = [at EXCEPT ![p] = b]
        /\ Succeeds
     \/ /\ alone[p] \/ \A b \in Archs \ {own[p]} : ~installed[b]
        /\ Succeeds /\ UNCHANGED at
     \/ /\ ~alone[p] /\ Fails(p, "process") /\ UNCHANGED at
  /\ UNCHANGED <<registryVars, fileVars, installed, own, status, alone, dialog, checked>>

DelRedirect(p) ==
  /\ Step(p, "redirects", "overrides")
  /\ \/ redirect' = FALSE /\ Succeeds
     \/ Fails(p, "registry") /\ UNCHANGED redirect
  /\ UNCHANGED <<override, fileVars, installed, runVars>>

\* The value is set or deleted; a failure is only logged.
SetOverride(p) ==
  /\ Step(p, "overrides", IF status[p] THEN "checkdst" ELSE "checklink")
  /\ \/ override' = (IF status[p] THEN "native" ELSE "none") /\ Succeeds
     \/ Fails(p, "registry") /\ UNCHANGED override
  /\ UNCHANGED <<redirect, fileVars, installed, runVars>>

\* What is at d3d9.dll goes: it becomes the backup, or it is removed when
\* there is one.
CheckDst(p) ==
  /\ Step(p, "checkdst", IF file_exist(dst, at[p]) THEN "checkback" ELSE "load")
  /\ UNCHANGED <<registryVars, fileVars, installed, runVars, history>>

\* Mutants: the backup is always made; it is never made.
AlwaysBackup(p) ==
  /\ Step(p, "checkback", "rename")
  /\ UNCHANGED <<registryVars, fileVars, installed, runVars, history>>
NeverBackup(p) ==
  /\ Step(p, "checkback", "remove")
  /\ UNCHANGED <<registryVars, fileVars, installed, runVars, history>>

CheckBack(p) ==
  /\ Step(p, "checkback", IF file_exist(back, at[p]) THEN "remove" ELSE "rename")
  /\ UNCHANGED <<registryVars, fileVars, installed, runVars, history>>

\* rename(2): the target is replaced; without a source it fails.
Rename(p) ==
  /\ Step(p, "rename", "load")
  /\ \/ /\ file_exist(dst, at[p])
        /\ back' = [back EXCEPT ![at[p]] = dst[at[p]]]
        /\ dst' = [dst EXCEPT ![at[p]] = "absent"]
        /\ Succeeds
     \/ /\ ~file_exist(dst, at[p]) \/ Fails(p, "rename")
        /\ ~file_exist(dst, at[p]) => Succeeds
        /\ UNCHANGED fileVars
  /\ UNCHANGED <<registryVars, installed, runVars>>

Remove(p) ==
  /\ Step(p, "remove", "load")
  /\ \/ dst' = [dst EXCEPT ![at[p]] = "absent"] /\ Succeeds
     \/ Fails(p, "remove") /\ UNCHANGED dst
  /\ UNCHANGED <<registryVars, back, installed, runVars>>

\* Without the library there is no symlink; the file is gone all the same.
Load(p) ==
  /\ \/ Step(p, "load", "link") /\ installed[at[p]] /\ Succeeds
     \/ /\ Step(p, "load", "result")
        /\ IF installed[at[p]] THEN Fails(p, "load")
           ELSE clean' = [clean EXCEPT ![p] = FALSE] /\ tidy' = FALSE
  /\ UNCHANGED <<registryVars, fileVars, installed, runVars>>

\* symlink(2) replaces nothing.
Link(p) ==
  /\ Step(p, "link", "result")
  /\ \/ /\ ~file_exist(dst, at[p])
        /\ dst' = [dst EXCEPT ![at[p]] = "nine"]
        /\ Succeeds
     \/ file_exist(dst, at[p]) /\ UNCHANGED dst /\ Succeeds
     \/ Fails(p, "symlink") /\ UNCHANGED dst
  /\ UNCHANGED <<registryVars, back, installed, runVars>>

\* Disabling touches a symlink of nine's only.
CheckLink(p) ==
  /\ Step(p, "checklink", IF is_nine_symlink(dst, at[p]) THEN "unlink" ELSE "result")
  /\ UNCHANGED <<registryVars, fileVars, installed, runVars, history>>

Unlink(p) ==
  /\ Step(p, "unlink", "lookback")
  /\ \/ dst' = [dst EXCEPT ![at[p]] = "absent"] /\ Succeeds
     \/ Fails(p, "remove") /\ UNCHANGED dst
  /\ UNCHANGED <<registryVars, back, installed, runVars>>

\* Mutant: the backup is left where it is.
NotRestored(p) ==
  /\ Step(p, "lookback", "result")
  /\ UNCHANGED <<registryVars, fileVars, installed, runVars, history>>

LookBack(p) ==
  /\ Step(p, "lookback", IF file_exist(back, at[p]) THEN "restore" ELSE "result")
  /\ UNCHANGED <<registryVars, fileVars, installed, runVars, history>>

Restore(p) ==
  /\ Step(p, "restore", "result")
  /\ \/ /\ file_exist(back, at[p])
        /\ dst' = [dst EXCEPT ![at[p]] = back[at[p]]]
        /\ back' = [back EXCEPT ![at[p]] = "absent"]
        /\ Succeeds
     \/ Fails(p, "rename") /\ UNCHANGED fileVars
  /\ UNCHANGED <<registryVars, installed, runVars>>

\* Mutant: the run ends with the other architecture's part.
EndWithOther(p) ==
  /\ Step(p, "result", "idle")
  /\ checked' = [checked EXCEPT ![p] = nine_get(own[p])]
  /\ UNCHANGED <<registryVars, fileVars, installed, own, at, status, alone, dialog, history>>

\* The other architecture's process is over and this one goes on; or this
\* one is, and a dialog shows what is now the case.
Result(p) ==
  /\ \/ /\ Step(p, "result", "redirects") /\ at[p] # own[p]
        /\ at' = [at EXCEPT ![p] = own[p]]
        /\ UNCHANGED checked
     \/ /\ Step(p, "result", "idle") /\ at[p] = own[p]
        /\ checked' = [checked EXCEPT ![p] = IF dialog[p] = "closed" THEN @ ELSE nine_get(own[p])]
        /\ UNCHANGED at
  /\ UNCHANGED <<registryVars, fileVars, installed, own, status, alone, dialog, history>>

---------------------------------------------------------------------------
(* What happens to it. *)

\* A process dies: the child, and the parent goes on; or the parent, and a
\* child comes to its end alone.
Crash(p) ==
  /\ pc[p] # "idle"
  /\ clean' = [clean EXCEPT ![p] = FALSE] /\ tidy' = FALSE
  /\ \/ /\ at[p] = own[p]
        /\ pc' = [pc EXCEPT ![p] = "idle"]
        /\ dialog' = [dialog EXCEPT ![p] = "closed"]
        /\ UNCHANGED <<own, at>>
     \/ /\ at[p] # own[p]
        /\ pc' = [pc EXCEPT ![p] = "redirects"]
        /\ at' = [at EXCEPT ![p] = own[p]]
        /\ UNCHANGED <<own, dialog>>
     \/ /\ at[p] # own[p]
        /\ own' = [own EXCEPT ![p] = at[p]]
        /\ dialog' = [dialog EXCEPT ![p] = "closed"]
        /\ UNCHANGED <<pc, at>>
  /\ UNCHANGED <<registryVars, fileVars, installed, status, alone, checked>>

\* nine-install.sh links the files of one architecture, and may be undone by
\* hand.  Its calls of ninewinecfg -e are runs that CommandLine starts.
Install(a) ==
  /\ \A p \in Procs : pc[p] = "idle"
  /\ installed' = [installed EXCEPT ![a] = ~@]
  /\ UNCHANGED <<registryVars, fileVars, pc, runVars, history>>

\* An update of Wine puts back a d3d9.dll that is missing.
Update(a) ==
  /\ dst[a] = "absent"
  /\ dst' = [dst EXCEPT ![a] = "wine"]
  /\ clean' = [p \in Procs |-> FALSE] /\ tidy' = FALSE
  /\ UNCHANGED <<registryVars, back, installed, pc, runVars>>

NineSet(p) ==
  \/ OtherArch(p) \/ DelRedirect(p) \/ SetOverride(p)
  \/ CheckDst(p) \/ CheckBack(p) \/ Rename(p) \/ Remove(p) \/ Load(p) \/ Link(p)
  \/ CheckLink(p) \/ Unlink(p) \/ LookBack(p) \/ Restore(p)
  \/ Result(p)

Next ==
  \/ \E p \in Procs :
       \/ \E a \in Archs, s, n \in BOOLEAN : CommandLine(p, a, s, n)
       \/ \E a \in Archs : load_settings(p, a)
       \/ Click(p) \/ Close(p) \/ NineSet(p) \/ Crash(p)
  \/ \E a \in Archs : Install(a) \/ Update(a)

Spec == Init /\ [][Next]_vars

---------------------------------------------------------------------------
(* Properties. *)

\* Wine's d3d9.dll is never lost, whatever fails, whoever dies in the middle
\* and whatever is called next: it is in its place or it is the backup.
OriginalKept == \A a \in Archs : "wine" \in {dst[a], back[a]}

\* The run of p, or its dialog's last call, ends with this step.
Ends(p) == pc[p] = "result" /\ pc'[p] = "idle"

\* Architectures that a call of p covers.
Covered(p) == {own[p]} \cup {b \in Archs : ~alone[p] /\ installed[b]}

\* A call in which nothing fails does what it is called for, from whatever
\* state earlier crashes and failures left: in both architectures, unless it
\* was given -n.
CallWorks ==
  [][\A p \in Procs : Ends(p) /\ clean'[p] =>
       \A a \in Covered(p) : IF status[p] THEN nine_get(a)
                             ELSE override = "none" /\ ~is_nine_symlink(dst, a)]_vars

\* As long as nothing went wrong each architecture has nine with Wine's file
\* as the backup, or Wine's file and no backup, however often nine was
\* switched on and off and from which architecture.
Settled ==
  tidy /\ (\A p \in Procs : pc[p] = "idle") =>
    \A a \in Archs : <<dst[a], back[a]>> \in {<<"nine", "wine">>, <<"wine", "absent">>}

\* A click in the dialog that works changes the box, also when the setting
\* was changed behind the dialog's back.
ClickToggles ==
  [][\A p \in Procs : Ends(p) /\ clean'[p] /\ dialog[p] = "open" => checked'[p] # checked[p]]_vars
=============================================================================
