------------------------------- MODULE Adapter -------------------------------
(***************************************************************************)
(* The IDirect3D9 object (d3dadapter9.c): the groups it finds, one for     *)
(* each display device with the outputs of that device, the map from the   *)
(* adapter numbers of the application to groups and outputs, and its       *)
(* reference count.                                                        *)
(*                                                                         *)
(* Creation is one step for each display device, and one for each group    *)
(* when the map is made.  Modes are left out: an output is good, or one    *)
(* whose rotation or monitor is unknown and which is taken off again.      *)
(***************************************************************************)
EXTENDS DriBackend, Sequences

CONSTANTS
  Monitors      \* sequences of outputs a display may have, "good" or "odd"

ASSUME AdapterAssumption ==
  /\ Backends \subseteq Nat \ {0}
  /\ Monitors \subseteq Seq({"good", "odd"})

VARIABLES
  loaded,       \* present_has_d3dadapter: "no", "yes", "failed"
  object,       \* "none"; "filling" groups, "mapping" adapters to them; "ready"
  refs,         \* of the object
  groups,       \* the array of groups
  map,          \* adapter_map
  mapped        \* groups whose outputs are in it

adapterVars == <<loaded, object, refs, groups, map, mapped>>

\* A group: its backend, whether the driver gave an adapter, the number of
\* its outputs.  Backends are numbered like groups; a half-filled group has
\* none.
Group(b, noutputs) == [backend |-> b, adapter |-> TRUE, noutputs |-> noutputs]
HalfFilled == [backend |-> 0, adapter |-> FALSE, noutputs |-> 0]

AdapterTypeOK ==
  /\ loaded \in {"no", "yes", "failed"} /\ object \in {"none", "filling", "mapping", "ready"}
  /\ refs \in Nat
  /\ \A i \in DOMAIN groups : groups[i].backend \in Backends \cup {0}
  /\ \A k \in DOMAIN map : map[k].group \in DOMAIN groups
  /\ mapped \in 0..Len(groups)

AdapterInit ==
  /\ loaded = "no" /\ object = "none" /\ refs = 0
  /\ groups = <<>> /\ map = <<>> /\ mapped = 0

---------------------------------------------------------------------------
\* The destructor: every group's backend.
Destroyed ==
  /\ backend_destroy({groups[i].backend : i \in DOMAIN groups})
  /\ object' = "none" /\ groups' = <<>> /\ map' = <<>> /\ mapped' = 0

\* Mutant: one reference too early.
ReleaseEarly ==
  /\ refs' = refs - 1
  /\ IF refs <= 2 THEN Destroyed ELSE UNCHANGED <<kind, object, groups, map, mapped>>

\* d3dadapter9_Release
Release ==
  /\ refs' = refs - 1
  /\ IF refs = 1 THEN Destroyed ELSE UNCHANGED <<kind, object, groups, map, mapped>>

\* present_has_d3dadapter: what the first call finds holds for the process.
LoadDriver ==
  /\ loaded = "no"
  /\ \/ \E found \in BOOLEAN :
          backend_probe(found) /\ loaded' = (IF found THEN "yes" ELSE "failed")
     \/ /\ "driver" \in Failures
        /\ loaded' = "failed"
        /\ UNCHANGED eglVars
  /\ UNCHANGED <<kind, pixmaps, pastVars, object, refs, groups, map, mapped>>

\* d3dadapter9_new
New ==
  /\ loaded = "yes" /\ object = "none"
  /\ object' = "filling" /\ refs' = 1
  /\ UNCHANGED <<backendVars, loaded, groups, map, mapped>>

\* The outputs that stay.
GoodOutputs(monitors) == Cardinality({j \in DOMAIN monitors : monitors[j] = "good"})

\* One turn of the loop of fill_groups.  A group without a device context or
\* a driver's adapter is removed again; one without a backend stays.
FillGroup ==
  /\ object = "filling"
  /\ LET b == Len(groups) + 1
     IN /\ b \in Backends
        /\ \/ /\ backend_create(b, "none")
              /\ groups' = Append(groups, HalfFilled)
           \/ \E k \in {"dri3", "dri2"}, m \in Monitors :
                /\ backend_create(b, k)
                /\ groups' = Append(groups, Group(b, GoodOutputs(m)))
  /\ UNCHANGED <<display, displayRef, call, pastVars, loaded, object, refs, map, mapped>>

\* A display whose group is removed leaves nothing behind: such a turn
\* changes no state.  Memory may run out in any turn.
FillFails ==
  /\ object = "filling" /\ "memory" \in Failures
  /\ Release
  /\ UNCHANGED <<eglVars, pixmaps, pastVars, loaded>>

\* The number of adapters is known.  Without one the object goes again.
FillEnd ==
  /\ object = "filling"
  /\ IF \A i \in DOMAIN groups : groups[i].noutputs = 0
     THEN Release
     ELSE object' = "mapping" /\ UNCHANGED <<kind, refs, groups, map, mapped>>
  /\ UNCHANGED <<eglVars, pixmaps, pastVars, loaded>>

\* Mutant: the group's number in the place of its first adapter's.
EntriesUnshifted(i) == [j \in 1..groups[i].noutputs |-> [group |-> i, master |-> i]]

\* The map of group i; master is the number (from 1) of its first adapter.
EntriesOf(i) == [j \in 1..groups[i].noutputs |-> [group |-> i, master |-> Len(map) + 1]]

\* One turn of the loop that fills the map.
MapGroup ==
  /\ object = "mapping"
  /\ map' = map \o EntriesOf(mapped + 1)
  /\ mapped' = mapped + 1
  /\ object' = IF mapped + 1 = Len(groups) THEN "ready" ELSE object
  /\ UNCHANGED <<backendVars, loaded, refs, groups>>

AdapterNext == LoadDriver \/ New \/ FillGroup \/ FillFails \/ FillEnd \/ MapGroup

---------------------------------------------------------------------------
\* ADAPTER_GROUP and ADAPTER_OUTPUT
AdapterGroup(k) == groups[map[k].group]
AdapterOutput(k) == k - map[k].master + 1

\* d3dadapter9_GetDeviceCaps: the numbers the application sees.
GetDeviceCaps(k) ==
  [masterAdapterOrdinal |-> map[k].master,
   adapterOrdinalInGroup |-> k - map[k].master,
   numberOfAdaptersInGroup |-> AdapterGroup(k).noutputs]

\* Every adapter number leads to an output there is, of a group that works,
\* and each such output has one number; the adapters of a group follow on
\* each other from its master, as GetDeviceCaps tells the application.
\* Half-filled groups, which are no adapters, must not shift them.
MapRight ==
  object = "ready" =>
    /\ \A k \in DOMAIN map :
         /\ map[k].group \in DOMAIN groups /\ AdapterGroup(k).adapter
         /\ AdapterOutput(k) \in 1..AdapterGroup(k).noutputs
         /\ LET caps == GetDeviceCaps(k)
            IN \A n \in 0..caps.numberOfAdaptersInGroup - 1 :
                 map[caps.masterAdapterOrdinal + n] = map[k]
    /\ \A i \in DOMAIN groups : \A j \in 1..groups[i].noutputs :
         \E k \in DOMAIN map : map[k].group = i /\ AdapterOutput(k) = j
    /\ \A k, l \in DOMAIN map :
         map[k].group = map[l].group /\ AdapterOutput(k) = AdapterOutput(l) => k = l
=============================================================================
