------------------------- MODULE PresentGroupProofs -------------------------
(***************************************************************************)
(* Theorems about devices, adapters and drawables, for any displays,       *)
(* outputs, devices, presentation objects and windows, and any failures:   *)
(* drawables are accounted for and not freed while a window of one object  *)
(* uses them, adapter numbers are mapped right, what a device uses         *)
(* outlives it, buffers find their backend, and no count falls below zero. *)
(***************************************************************************)
EXTENDS PresentGroup, FiniteSetTheorems, SequenceTheorems, TLAPS

---------------------------------------------------------------------------
(* Drawables. *)

\* DrawablesAccounted as an equation: allocated as a function of the table.
AccountOf(t) == [w \in Windows |-> IF w \in t THEN 1 ELSE 0]
Accounted == allocated = AccountOf(table)

LEMMA GivingUpAccounts ==
  ASSUME NEW t, NEW ws
  PROVE  Allocated(AccountOf(t), t, ws) = AccountOf(t \ ws)
  BY DEF Allocated, AccountOf

\* A caller of get_d3d_drawable, with the table it found.
LEMMA UseAccounts ==
  ASSUME NEW p, NEW w, NEW from, NEW t, Use(p, w, from, t, AccountOf(t))
  PROVE  Accounted'
<1>1. CASE from = "PresentBuffer"
  <2>1. PICK v \in Told(p) :
          /\ table' = t \ Replaced(v, w)
          /\ allocated' = Allocated(AccountOf(t), t, Replaced(v, w))
    BY <1>1 DEF Use, PresentOn
  <2> QED
    BY <2>1, GivingUpAccounts DEF Accounted, AccountOf
<1>2. CASE from # "PresentBuffer"
  BY <1>2 DEF Use, Accounted, AccountOf
<1> QED
  BY <1>1, <1>2

\* The first of several threads that created a drawable adds it, the others
\* free theirs.
LEMMA AddedAccounts ==
  ASSUME Accounted, NEW w
  PROVE  Added(w)[2] = AccountOf(Added(w)[1])
  BY DEF Accounted, AccountOf, Added

LEMMA ReleaseAccounts ==
  ASSUME Accounted, NEW d, NEW p, DRIPresent_Release(d, p)
  PROVE  Accounted'
<1>1. CASE UNCHANGED drawableVars
  BY <1>1 DEF drawableVars, Accounted, AccountOf
<1>2. CASE ReleaseDrawable(p)
  <2>1. PICK v \in Told(p) :
          /\ table' = table \ ({v} \ {NoWindow})
          /\ allocated' = Allocated(allocated, table, {v} \ {NoWindow})
    BY <1>2 DEF ReleaseDrawable
  <2> QED
    BY <2>1, GivingUpAccounts DEF Accounted, AccountOf
<1> QED
  BY <1>1, <1>2 DEF DRIPresent_Release

LEMMA DrawableStep ==
  ASSUME Accounted, [Next]_nineVars
  PROVE  Accounted'
<1>0. ASSUME UNCHANGED <<table, allocated>> PROVE Accounted'
  BY <1>0 DEF Accounted, AccountOf
<1>1. ASSUME NEW d \in Devices, NEW p \in Presents, NEW w \in Windows, UseDrawable(d, p, w)
      PROVE  Accounted'
  <2>1. PICK from \in Callers : Get(p, w, from)
    BY <1>1 DEF UseDrawable, Callers
  <2> QED
    BY <1>0, <2>1, UseAccounts DEF Get, Accounted
<1>2. ASSUME NEW p \in Presents, DrawableCreated(p)
      PROVE  Accounted'
  BY <1>0, <1>2, UseAccounts, AddedAccounts DEF DrawableCreated, Created, CreateFails
<1>4. CASE UNCHANGED drawableVars
  BY <1>0, <1>4 DEF drawableVars
<1>5. CASE Object \/ ReleaseObject \/ UNCHANGED nineVars
  BY <1>4, <1>5 DEF Object, ReleaseObject, nineVars
<1>6. ASSUME NEW d \in Devices, NEW k \in DOMAIN map, NEW f, CreateDevice(d, k, f)
      PROVE  Accounted'
  BY <1>4, <1>6 DEF CreateDevice
<1>7. ASSUME NEW d \in Devices, NEW p \in Presents,
             \/ CreatePresent(d, p) \/ CreateAdditionalPresent(d, p)
             \/ D3DWindowBufferFromDmaBuf(d, p) \/ DestroyD3DWindowBuffer(d, p)
      PROVE  Accounted'
  BY <1>4, <1>7 DEF CreatePresent, CreateAdditionalPresent, present_create,
                    D3DWindowBufferFromDmaBuf, DestroyD3DWindowBuffer
<1>8. ASSUME NEW d \in Devices, NEW p \in Presents, ReleaseSwapChain(d, p)
      PROVE  Accounted'
  BY <1>8, ReleaseAccounts DEF ReleaseSwapChain
<1>9. ASSUME NEW d \in Devices, GroupReleases(d) PROVE Accounted'
  BY <1>9, ReleaseAccounts DEF GroupReleases
<1>10. ASSUME NEW d \in Devices,
              DriverCreates(d) \/ CloseDevice(d) \/ DeviceGone(d) \/ DisplayStep(d)
       PROVE  Accounted'
  BY <1>4, <1>10 DEF DriverCreates, CloseDevice, DeviceGone, DisplayStep
<1> QED
  BY <1>1, <1>2, <1>5, <1>6, <1>7, <1>8, <1>9, <1>10 DEF Next

\* Whatever threads look for, create, present to and release drawables at
\* the same time: each one in memory is in the table, once (present.c:716).
THEOREM DrawablesAreAccounted == Spec => []DrawablesAccounted
<1>1. Init => Accounted
  BY DEF Init, DrawableInit, Accounted, AccountOf
<1>2. Accounted => DrawablesAccounted
  BY DEF Accounted, AccountOf, DrawablesAccounted
<1> QED
  BY <1>1, <1>2, DrawableStep, PTL DEF Spec

---------------------------------------------------------------------------
(* Adapters. *)

Groups == [backend : Backends \cup {0}, adapter : BOOLEAN, noutputs : Nat]
MapEntries == [group : Nat, master : Nat]

\* A group with outputs has an adapter and a backend of its own.
GroupsMade ==
  /\ kind \in [Backends -> {"none", "dri3", "dri2"}]
  /\ groups \in Seq(Groups)
  /\ \A i \in 1..Len(groups) : groups[i].noutputs > 0 =>
       groups[i].adapter /\ groups[i].backend = i /\ i \in Backends /\ kind[i] # "none"

\* What each phase of the creation has done of the map.
MapPhase ==
  /\ object \in {"none", "filling", "mapping", "ready"}
  /\ mapped \in 0..Len(groups)
  /\ object = "none" => groups = <<>>
  /\ object \in {"none", "filling"} => map = <<>> /\ mapped = 0
  /\ object = "mapping" => mapped < Len(groups)
  /\ object = "ready" => mapped = Len(groups)

\* Adapter k leads to an output of a group that is mapped, and the adapters
\* of this group follow on its master.
EntryRight(k) ==
  LET g == map[k].group
      m == map[k].master
  IN /\ g \in 1..mapped /\ m \in 1..k
     /\ k - m < groups[g].noutputs
     /\ m + groups[g].noutputs - 1 <= Len(map)
     /\ \A n \in 0..groups[g].noutputs - 1 : map[m + n] = map[k]

MapSoFar ==
  /\ map \in Seq(MapEntries)
  /\ \A k \in 1..Len(map) : EntryRight(k)
  /\ \A i \in 1..mapped : \A j \in 1..groups[i].noutputs :
       \E k \in 1..Len(map) : map[k].group = i /\ k - map[k].master + 1 = j
  /\ \A k, l \in 1..Len(map) : map[k].group = map[l].group => map[k].master = map[l].master

MapInv == GroupsMade /\ MapPhase /\ MapSoFar

structureVars == <<kind, object, groups, map, mapped>>

\* The steps that concern the object: everything else leaves it alone.
LEMMA StructureStep ==
  ASSUME [Next]_nineVars
  PROVE  UNCHANGED structureVars \/ Destroyed \/ New \/ FillGroup \/ FillEnd \/ MapGroup
<1>1. CASE Object \/ ReleaseObject \/ UNCHANGED nineVars
  BY <1>1 DEF Object, AdapterNext, LoadDriver, FillFails, ReleaseObject, Release, nineVars,
              adapterVars, backendVars, structureVars
<1>2. ASSUME NEW d \in Devices, NEW k \in DOMAIN map, NEW f, CreateDevice(d, k, f)
      PROVE  UNCHANGED structureVars
  BY <1>2 DEF CreateDevice, adapterVars, backendVars, structureVars
<1>3. ASSUME NEW d \in Devices, NEW p \in Presents,
             \/ CreatePresent(d, p) \/ CreateAdditionalPresent(d, p)
             \/ D3DWindowBufferFromDmaBuf(d, p) \/ DestroyD3DWindowBuffer(d, p)
             \/ \E w \in Windows : UseDrawable(d, p, w)
             \/ ReleaseSwapChain(d, p)
      PROVE  UNCHANGED structureVars
  BY <1>3 DEF CreatePresent, CreateAdditionalPresent, present_create, D3DWindowBufferFromDmaBuf,
              DestroyD3DWindowBuffer, UseDrawable, ReleaseSwapChain, DRIPresent_Release,
              adapterVars, backendVars, structureVars
<1>4. ASSUME NEW d \in Devices,
             \/ DriverCreates(d) \/ CloseDevice(d) \/ GroupReleases(d) \/ DeviceGone(d)
             \/ DisplayStep(d)
      PROVE  UNCHANGED structureVars \/ Destroyed
  BY <1>4 DEF DriverCreates, CloseDevice, GroupReleases, DeviceGone, DisplayStep,
              DRIPresent_Release, Release, adapterVars, backendVars, structureVars
<1>5. ASSUME NEW p \in Presents, DrawableCreated(p) PROVE UNCHANGED structureVars
  BY <1>5 DEF DrawableCreated, adapterVars, backendVars, structureVars
<1> QED
  BY <1>1, <1>2, <1>3, <1>4, <1>5 DEF Next

LEMMA MapInvInit == Init => MapInv
  BY DEF Init, BackendInit, AdapterInit, MapInv, GroupsMade, MapPhase, MapSoFar

LEMMA MapInvDestroyed == ASSUME MapInv, Destroyed PROVE MapInv'
  BY DEF Destroyed, backend_destroy, MapInv, GroupsMade, MapPhase, MapSoFar

LEMMA MapInvSame == ASSUME MapInv, UNCHANGED structureVars PROVE MapInv'
  BY DEF structureVars, MapInv, GroupsMade, MapPhase, MapSoFar, EntryRight

LEMMA OutputsCounted ==
  ASSUME NEW m \in Monitors
  PROVE  GoodOutputs(m) \in Nat
<1>1. m \in Seq({"good", "odd"})
  BY AdapterAssumption
<1>2. DOMAIN m = 1..Len(m) /\ Len(m) \in Nat
  BY <1>1, LenProperties
<1>3. IsFiniteSet(1..Len(m))
  BY <1>2, FS_Interval
<1> DEFINE good == {j \in DOMAIN m : m[j] = "good"}
<1>4. good \subseteq 1..Len(m)
  BY <1>2
<1> QED
  BY <1>3, <1>4, FS_Subset, FS_CardinalityType DEF GoodOutputs

LEMMA MapInvFill == ASSUME MapInv, FillGroup PROVE MapInv'
<1> DEFINE b == Len(groups) + 1
<1>1. b \in Backends /\ groups \in Seq(Groups) /\ Len(groups) \in Nat
  BY LenProperties DEF FillGroup, MapInv, GroupsMade
<1>2. PICK g \in Groups, k \in {"none", "dri3", "dri2"} :
        /\ groups' = Append(groups, g) /\ kind' = [kind EXCEPT ![b] = k]
        /\ g.noutputs > 0 => g.adapter /\ g.backend = b /\ k # "none"
  <2>1. CASE backend_create(b, "none") /\ groups' = Append(groups, HalfFilled)
    <3>1. HalfFilled \in Groups /\ HalfFilled.noutputs = 0
      BY DEF HalfFilled, Groups
    <3> QED
      BY <2>1, <3>1 DEF backend_create
  <2>2. ASSUME NEW k \in {"dri3", "dri2"}, NEW m \in Monitors, backend_create(b, k),
               groups' = Append(groups, Group(b, GoodOutputs(m)))
        PROVE  \E g \in Groups : /\ groups' = Append(groups, g) /\ kind' = [kind EXCEPT ![b] = k]
                                 /\ g.noutputs > 0 => g.adapter /\ g.backend = b /\ k # "none"
    <3>1. Group(b, GoodOutputs(m)) \in Groups
      BY <1>1, OutputsCounted DEF Group, Groups
    <3>2. Group(b, GoodOutputs(m)).adapter /\ Group(b, GoodOutputs(m)).backend = b
      BY DEF Group
    <3> QED
      BY <2>2, <3>1, <3>2 DEF backend_create
  <2> QED
    BY <2>1, <2>2 DEF FillGroup
<1>3. /\ groups' \in Seq(Groups) /\ Len(groups') = b
      /\ \A i \in 1..Len(groups) : groups'[i] = groups[i]
      /\ groups'[b] = g
  BY <1>1, <1>2, AppendProperties
<1>4. GroupsMade'
  <2>1. ASSUME NEW i \in 1..b, groups'[i].noutputs > 0
        PROVE  /\ groups'[i].adapter /\ groups'[i].backend = i /\ i \in Backends /\ kind'[i] # "none"
    BY <1>1, <1>2, <1>3, <2>1 DEF MapInv, GroupsMade
  <2> QED
    BY <1>1, <1>2, <1>3, <2>1 DEF MapInv, GroupsMade
<1>5. map = <<>> /\ mapped = 0 /\ UNCHANGED <<map, mapped, object>> /\ object = "filling"
  BY DEF FillGroup, MapInv, MapPhase
<1>6. MapPhase'
  BY <1>1, <1>3, <1>5 DEF MapPhase
<1>7. MapSoFar'
  BY <1>5 DEF MapInv, MapSoFar
<1> QED
  BY <1>4, <1>6, <1>7 DEF MapInv

LEMMA OutputsNumber ==
  ASSUME GroupsMade, NEW i \in 1..Len(groups)
  PROVE  groups[i].noutputs \in Nat
<1>1. groups \in Seq(Groups)
  BY DEF GroupsMade
<1>2. groups[i] \in Groups
  BY <1>1, ElementOfSeq
<1> QED
  BY <1>2 DEF Groups

LEMMA MapInvNew == ASSUME MapInv, New PROVE MapInv'
  BY DEF New, backendVars, MapInv, GroupsMade, MapPhase, MapSoFar

LEMMA MapInvFillEnd == ASSUME MapInv, FillEnd PROVE MapInv'
<1>1. CASE Release
  BY <1>1, MapInvSame, MapInvDestroyed DEF Release, structureVars
<1>2. CASE /\ \E i \in DOMAIN groups : groups[i].noutputs # 0
           /\ object' = "mapping" /\ UNCHANGED <<kind, refs, groups, map, mapped>>
  <2>1. DOMAIN groups = 1..Len(groups) /\ Len(groups) \in Nat
    BY LenProperties DEF MapInv, GroupsMade
  <2>2. MapPhase'
    BY <1>2, <2>1 DEF FillEnd, MapInv, MapPhase
  <2>3. GroupsMade' /\ MapSoFar'
    BY <1>2 DEF MapInv, GroupsMade, MapSoFar, EntryRight
  <2> QED
    BY <2>2, <2>3 DEF MapInv
<1> QED
  BY <1>1, <1>2 DEF FillEnd

\* A turn of the loop: the entries of the next group follow the others.
LEMMA MapInvGroup == ASSUME MapInv, MapGroup PROVE MapInv'
<1> DEFINE g == mapped + 1
           n == groups[g].noutputs
           e == EntriesOf(g)
           L == Len(map)
           r == [group |-> g, master |-> L + 1]
<1>1. /\ groups \in Seq(Groups) /\ Len(groups) \in Nat /\ mapped \in Nat /\ g \in 1..Len(groups)
      /\ map \in Seq(MapEntries) /\ L \in Nat /\ UNCHANGED <<kind, groups>>
  BY LenProperties DEF MapGroup, backendVars, MapInv, GroupsMade, MapPhase, MapSoFar
<1>2. n \in Nat
  BY <1>1, OutputsNumber DEF MapInv
<1>3. e = [j \in 1..n |-> r] /\ r \in MapEntries
  BY <1>1 DEF EntriesOf, MapEntries
<1>4. e \in Seq(MapEntries) /\ Len(e) = n /\ \A j \in 1..n : e[j] = r
  <2> HIDE DEF r, n
  <2>1. [j \in 1..n |-> r] \in Seq(MapEntries) /\ Len([j \in 1..n |-> r]) = n
    BY <1>2, <1>3
  <2> QED
    BY <1>3, <2>1
<1>5. /\ r.group = g /\ r.master = L + 1
      /\ g = mapped + 1 /\ n = groups[g].noutputs /\ L = Len(map) /\ e = EntriesOf(mapped + 1)
  OBVIOUS
<1> HIDE DEF g, n, L, e, r
<1>6. /\ map' = map \o e /\ map' \in Seq(MapEntries) /\ Len(map') = L + n
      /\ \A k \in 1..L : map'[k] = map[k]
      /\ \A k \in L+1..L+n : map'[k] = r
  <2>1. map' = map \o e
    BY <1>5 DEF MapGroup
  <2>2. /\ map \o e \in Seq(MapEntries) /\ Len(map \o e) = Len(map) + Len(e)
        /\ \A k \in 1..Len(map) + Len(e) :
             (map \o e)[k] = IF k <= Len(map) THEN map[k] ELSE e[k - Len(map)]
    BY <1>1, <1>4, ConcatProperties
  <2>3. /\ map' \in Seq(MapEntries) /\ Len(map') = L + n
        /\ \A k \in 1..L + n : map'[k] = IF k <= L THEN map[k] ELSE e[k - L]
    BY <1>4, <1>5, <2>1, <2>2
  <2>4. ASSUME NEW k \in 1..L PROVE map'[k] = map[k]
    BY <1>1, <1>2, <2>3
  <2>5. ASSUME NEW k \in L+1..L+n PROVE map'[k] = r
    <3>1. k \in 1..L+n /\ ~(k <= L) /\ k - L \in 1..n
      BY <1>1, <1>2
    <3> QED
      BY <1>4, <2>3, <3>1
  <2> QED
    BY <2>1, <2>3, <2>4, <2>5
<1>7. mapped' = g /\ object' \in {"mapping", "ready"}
      /\ (object' = "ready" <=> g = Len(groups))
  BY <1>1, <1>5 DEF MapGroup
<1>8. MapPhase'
  BY <1>1, <1>5, <1>7 DEF MapInv, MapPhase
<1>9. ASSUME NEW k \in 1..L+n PROVE EntryRight(k)'
  <2>1. CASE k \in 1..L
    <3> DEFINE h == map[k].group
               m == map[k].master
    <3>1. /\ h \in 1..mapped /\ m \in 1..k /\ k - m < groups[h].noutputs
          /\ m + groups[h].noutputs - 1 <= L
          /\ \A x \in 0..groups[h].noutputs - 1 : map[m + x] = map[k]
      BY <1>5, <2>1 DEF MapInv, MapSoFar, EntryRight
    <3>2. groups[h].noutputs \in Nat
      BY <1>1, <1>5, <3>1, OutputsNumber DEF MapInv
    <3>3. map'[k] = map[k] /\ groups' = groups
      BY <1>1, <1>6, <2>1
    <3>6. h = map'[k].group /\ m = map'[k].master
      BY <3>3
    <3> HIDE DEF h, m
    <3>4. h \in 1..mapped' /\ m + groups[h].noutputs - 1 <= Len(map')
      <4>1. mapped' = mapped + 1 /\ Len(map') = L + n
        BY <1>5, <1>6, <1>7
      <4> QED
        BY <1>1, <1>2, <3>1, <3>2, <4>1
    <3>5. ASSUME NEW x \in 0..groups[h].noutputs - 1 PROVE map'[m + x] = map[k]
      <4>1. m \in Nat /\ 1 <= m /\ x \in Nat /\ x <= groups[h].noutputs - 1
        BY <2>1, <3>1, <3>2, <3>5
      <4>2. m + groups[h].noutputs - 1 <= L
        BY ONLY <3>1
      <4>3. m + x \in 1..L
        BY ONLY <1>1, <3>2, <4>1, <4>2
      <4> QED
        BY <1>6, <3>1, <4>3
    <3> QED
      BY <3>1, <3>3, <3>4, <3>5, <3>6 DEF EntryRight
  <2>2. CASE k \in L+1..L+n
    <3>1. map'[k] = r /\ r.group \in 1..mapped' /\ r.master \in 1..k
      BY <1>1, <1>5, <1>6, <1>7, <2>2
    <3>2. k - r.master < n /\ r.master + n - 1 <= L + n
      BY <1>1, <1>2, <1>5, <2>2
    <3>3. \A x \in 0..n-1 : r.master + x \in L+1..L+n
      BY <1>1, <1>2, <1>5
    <3>4. groups' = groups /\ groups[r.group].noutputs = n /\ map'[k].group = r.group
          /\ map'[k].master = r.master
      BY <1>1, <1>5, <3>1
    <3> QED
      BY <1>6, <3>1, <3>2, <3>3, <3>4 DEF EntryRight
  <2> QED
    BY <1>1, <1>2, <2>1, <2>2
<1>10. ASSUME NEW i \in 1..g, NEW j \in 1..groups[i].noutputs
       PROVE  \E k \in 1..L+n : map'[k].group = i /\ k - map'[k].master + 1 = j
  <2>1. CASE i = g
    <3>1. L + j \in L+1..L+n /\ L + j \in 1..L+n /\ L + j - (L + 1) + 1 = j
      BY <1>1, <1>2, <1>5, <2>1
    <3>2. map'[L + j].group = i /\ map'[L + j].master = L + 1
      BY <1>5, <1>6, <2>1, <3>1
    <3>3. j \in 1..n
      BY <1>5, <2>1
    <3>4. PICK k \in 1..L+n : k = L + j
      BY <3>1
    <3>5. map'[k].group = i /\ map'[k].master = L + 1
      BY <3>2, <3>4
    <3>6. k - map'[k].master + 1 = j
      BY <1>1, <1>2, <3>3, <3>4, <3>5
    <3> QED
      BY <3>5, <3>6
  <2>2. CASE i # g
    <3>1. i \in 1..mapped
      BY <1>1, <1>5, <2>2
    <3>2. PICK k \in 1..L : map[k].group = i /\ k - map[k].master + 1 = j
      BY <1>5, <3>1 DEF MapInv, MapSoFar
    <3>3. k \in 1..L+n /\ map'[k] = map[k]
      BY <1>1, <1>2, <1>6
    <3> QED
      BY <3>2, <3>3
  <2> QED
    BY <2>1, <2>2
<1>11. ASSUME NEW k \in 1..L+n, NEW l \in 1..L+n, map'[k].group = map'[l].group
       PROVE  map'[k].master = map'[l].master
  <2>1. \A x \in 1..L : map[x].group \in 1..mapped
    BY <1>5 DEF MapInv, MapSoFar, EntryRight
  <2>2. \A x \in 1..L : map[x].group # r.group
    BY <1>1, <1>5, <2>1
  <2>3. \A x, y \in 1..L : map[x].group = map[y].group => map[x].master = map[y].master
    BY <1>5 DEF MapInv, MapSoFar
  <2>4. /\ k \in 1..L \/ k \in L+1..L+n
        /\ l \in 1..L \/ l \in L+1..L+n
    BY <1>1, <1>2, <1>11
  <2>5. /\ k \in 1..L => map'[k] = map[k]
        /\ l \in 1..L => map'[l] = map[l]
        /\ k \in L+1..L+n => map'[k] = r
        /\ l \in L+1..L+n => map'[l] = r
    BY ONLY <1>6
  <2>6. CASE k \in 1..L /\ l \in 1..L
    BY ONLY <1>11, <2>3, <2>5, <2>6
  <2>7. CASE k \in 1..L /\ l \in L+1..L+n
    BY ONLY <1>11, <2>2, <2>5, <2>7
  <2>8. CASE k \in L+1..L+n /\ l \in 1..L
    BY ONLY <1>11, <2>2, <2>5, <2>8
  <2>9. CASE k \in L+1..L+n /\ l \in L+1..L+n
    BY ONLY <2>5, <2>9
  <2> QED
    BY <2>4, <2>6, <2>7, <2>8, <2>9
<1>12. MapSoFar'
  <2>1. groups' = groups /\ Len(map') = L + n /\ mapped' = g /\ map' \in Seq(MapEntries)
    BY <1>1, <1>6, <1>7
  <2> QED
    BY <2>1, <1>9, <1>10, <1>11 DEF MapSoFar
<1>13. GroupsMade'
  BY <1>1 DEF MapInv, GroupsMade
<1> QED
  BY <1>8, <1>12, <1>13 DEF MapInv

LEMMA MapInvStep == MapInv /\ [Next]_nineVars => MapInv'
  BY StructureStep, MapInvSame, MapInvDestroyed, MapInvNew, MapInvFill, MapInvFillEnd, MapInvGroup

LEMMA MapInvRight == MapInv => MapRight
<1> SUFFICES ASSUME MapInv, object = "ready" PROVE MapRight
  BY DEF MapRight
<1>1. /\ DOMAIN map = 1..Len(map) /\ Len(map) \in Nat
      /\ DOMAIN groups = 1..Len(groups) /\ Len(groups) \in Nat /\ mapped = Len(groups)
  BY LenProperties DEF MapInv, MapSoFar, GroupsMade, MapPhase
<1>2. ASSUME NEW k \in 1..Len(map)
      PROVE  /\ map[k].group \in 1..Len(groups) /\ AdapterGroup(k).adapter
             /\ AdapterOutput(k) \in 1..AdapterGroup(k).noutputs
             /\ map[k].master \in 1..k
             /\ \A n \in 0..AdapterGroup(k).noutputs - 1 : map[map[k].master + n] = map[k]
  <2>1. EntryRight(k)
    BY DEF MapInv, MapSoFar
  <2>2. groups[map[k].group].noutputs \in Nat
    BY <1>1, <2>1, OutputsNumber DEF EntryRight, MapInv
  <2>3. groups[map[k].group].noutputs > 0
    <3> DEFINE m == map[k].master
               n == groups[map[k].group].noutputs
    <3>1. k \in Nat /\ n \in Nat
      BY <1>1, <2>2
    <3>2. m \in 1..k /\ k - m < n
      BY <2>1 DEF EntryRight
    <3> HIDE DEF m, n
    <3>3. n > 0
      BY ONLY <3>1, <3>2
    <3> QED
      BY <3>3 DEF n
  <2>4. map[k].group \in 1..Len(groups) /\ map[k].master \in 1..k
    BY <1>1, <2>1 DEF EntryRight
  <2>5. groups[map[k].group].adapter
    BY <2>3, <2>4 DEF MapInv, GroupsMade
  <2>6. AdapterOutput(k) \in 1..groups[map[k].group].noutputs
    BY <2>1, <2>2 DEF EntryRight, AdapterOutput
  <2>7. \A n \in 0..groups[map[k].group].noutputs - 1 : map[map[k].master + n] = map[k]
    BY <2>1 DEF EntryRight
  <2> QED
    BY <2>4, <2>5, <2>6, <2>7 DEF AdapterGroup
<1>3. \A i \in 1..Len(groups) : \A j \in 1..groups[i].noutputs :
        \E k \in 1..Len(map) : map[k].group = i /\ AdapterOutput(k) = j
  BY <1>1 DEF MapInv, MapSoFar, AdapterOutput
<1>4. ASSUME NEW k \in 1..Len(map), NEW l \in 1..Len(map), map[k].group = map[l].group,
             AdapterOutput(k) = AdapterOutput(l)
      PROVE  k = l
  <2>1. map[k].master = map[l].master /\ map[k].master \in Int
    BY <1>2, <1>4 DEF MapInv, MapSoFar
  <2> QED
    BY <1>4, <2>1 DEF AdapterOutput
<1>5. ASSUME NEW k \in DOMAIN map
      PROVE  /\ map[k].group \in DOMAIN groups /\ AdapterGroup(k).adapter
             /\ AdapterOutput(k) \in 1..AdapterGroup(k).noutputs
             /\ \A n \in 0..GetDeviceCaps(k).numberOfAdaptersInGroup - 1 :
                  map[GetDeviceCaps(k).masterAdapterOrdinal + n] = map[k]
  BY <1>1, <1>2 DEF GetDeviceCaps
<1>6. \A i \in DOMAIN groups : \A j \in 1..groups[i].noutputs :
        \E k \in DOMAIN map : map[k].group = i /\ AdapterOutput(k) = j
  BY <1>1, <1>3
<1>7. \A k, l \in DOMAIN map :
        map[k].group = map[l].group /\ AdapterOutput(k) = AdapterOutput(l) => k = l
  BY <1>1, <1>4
<1> QED
  BY <1>5, <1>6, <1>7 DEF MapRight

\* However many displays there are, of however many outputs, with failed
\* backends and outputs taken off in between: every adapter number leads to
\* an output of a working group, every output has one number, and a group's
\* adapters follow on its master (d3dadapter9.c:941).
THEOREM AdaptersMapRight == Spec => []MapRight
  BY MapInvInit, MapInvStep, MapInvRight, PTL DEF Spec

---------------------------------------------------------------------------
(* What a device uses outlives it. *)

DeviceRecords == [phase : {"none", "creating", "failed", "live", "closing"}, group : Nat,
                  nparams : Nat, presents : Seq(Presents), swapchains : SUBSET Presents]

OwnerTypes ==
  /\ device \in [Devices -> DeviceRecords]
  /\ backend \in [Presents -> Backends \cup {0}] /\ presRefs \in [Presents -> Int]

\* The presentation objects that device d has references to, and how many.
Held(d) == Range(device[d].presents) \cup device[d].swapchains
References(d, p) == (IF p \in Range(device[d].presents) THEN 1 ELSE 0)
                    + (IF p \in device[d].swapchains THEN 1 ELSE 0)

\* The references of a device are all there are to its objects, which work
\* with the backend of its group; the group has one.
DeviceRight(d) ==
  /\ In(d, {"none"}) => device[d].presents = <<>> /\ device[d].swapchains = {}
  /\ ~In(d, {"none"}) => device[d].group \in 1..Len(groups) /\ groups[device[d].group].noutputs > 0
  /\ In(d, {"creating", "failed"}) => device[d].swapchains = {}
  /\ In(d, {"creating"}) => device[d].nparams > 0
  /\ \A i, j \in 1..Len(device[d].presents) :
       device[d].presents[i] = device[d].presents[j] => i = j
  /\ \A p \in Held(d) : backend[p] = BackendOf(d) /\ presRefs[p] = References(d, p)

\* Devices share no presentation object.
Owners ==
  /\ \A d \in Devices : DeviceRight(d)
  /\ \A d, e \in Devices : d # e => Held(d) \cap Held(e) = {}

Pending == {d \in Devices : In(d, {"creating", "failed"})}

\* The object's references: one of each device the driver has, and the
\* application's, as long as it has it and in any case while it creates a
\* device.
RefsRight ==
  /\ object # "ready" => \A d \in Devices : In(d, {"none"})
  /\ object \in {"filling", "mapping"} => refs = 1
  /\ object = "ready" =>
       /\ refs > 0
       /\ \/ refs = Cardinality(Attached) + 1
          \/ refs = Cardinality(Attached) /\ Pending = {}

OutliveInv == OwnerTypes /\ Owners /\ RefsRight

LEMMA AttachedCounted == IsFiniteSet(Attached) /\ Cardinality(Attached) \in Nat
  BY DevicesFinite, FS_Subset, FS_CardinalityType DEF Attached

LEMMA OutliveInit == Init => OutliveInv
<1> SUFFICES ASSUME Init PROVE OutliveInv
  OBVIOUS
<1>1. NoDevice \in DeviceRecords
  BY DEF NoDevice, DeviceRecords
<1>2. OwnerTypes
  BY <1>1 DEF Init, OwnerTypes
<1>3. \A d \in Devices : In(d, {"none"}) /\ device[d].presents = <<>> /\ device[d].swapchains = {}
  BY DEF Init, NoDevice, In
<1>4. \A d \in Devices : Held(d) = {}
  BY <1>3 DEF Held, Range
<1>5. Owners
  BY <1>3, <1>4 DEF Owners, DeviceRight, In
<1>6. RefsRight
  BY <1>3 DEF RefsRight, Init, AdapterInit
<1> QED
  BY <1>2, <1>5, <1>6 DEF OutliveInv

\* A step of device d that touches presentation object p at most, which is
\* no other device's.
LEMMA OneDevice ==
  ASSUME Owners, UNCHANGED groups, NEW d \in Devices, NEW p \in Presents,
         \A e \in Devices \ {d} : device'[e] = device[e] /\ p \notin Held(e),
         \A q \in Presents \ {p} : backend'[q] = backend[q] /\ presRefs'[q] = presRefs[q],
         \A e \in Devices : Held(e) \subseteq Presents,
         Held(d)' \subseteq Held(d) \cup {p}, DeviceRight(d)'
  PROVE  Owners'
<1>1. ASSUME NEW e \in Devices, e # d PROVE Held(e)' = Held(e) /\ DeviceRight(e)'
  <2>1. device'[e] = device[e] /\ Held(e)' = Held(e) /\ BackendOf(e)' = BackendOf(e)
        /\ \A q : References(e, q)' = References(e, q)
    BY <1>1 DEF Held, BackendOf, References
  <2>2. \A q \in Held(e) : backend'[q] = backend[q] /\ presRefs'[q] = presRefs[q]
    BY <1>1
  <2>3. DeviceRight(e)
    BY DEF Owners
  <2> QED
    BY <2>1, <2>2, <2>3 DEF DeviceRight, In
<1>2. ASSUME NEW x \in Devices, NEW y \in Devices, x # y PROVE Held(x)' \cap Held(y)' = {}
  BY <1>1, <1>2 DEF Owners
<1> QED
  BY <1>1, <1>2 DEF Owners

LEMMA OutliveSame ==
  ASSUME OutliveInv, UNCHANGED <<device, backend, presRefs, object, refs, groups>>
  PROVE  OutliveInv'
  BY DEF OutliveInv, OwnerTypes, Owners, RefsRight, DeviceRight, In, Held, References, BackendOf,
         Attached, Pending

\* While no device exists the object may do as it likes.
LEMMA OutliveAlone ==
  ASSUME OutliveInv, \A d \in Devices : In(d, {"none"}), UNCHANGED <<device, backend, presRefs>>,
         object' \in {"filling", "mapping", "ready"} => refs' = 1
  PROVE  OutliveInv'
<1>1. \A d \in Devices : /\ In(d, {"none"})' /\ device'[d].presents = <<>> /\ device'[d].swapchains = {}
  BY DEF OutliveInv, Owners, DeviceRight, In
<1>2. \A d \in Devices : Held(d)' = {}
  BY <1>1 DEF Held, Range
<1>3. Owners'
  BY <1>1, <1>2 DEF Owners, DeviceRight, In
<1>4. Attached' = {} /\ Pending' = {}
  BY <1>1 DEF Attached, Pending, In
<1>5. Cardinality(Attached') = 0
  BY <1>4, FS_EmptySet
<1>6. RefsRight'
  BY <1>1, <1>4, <1>5 DEF RefsRight
<1> QED
  BY <1>3, <1>6 DEF OutliveInv, OwnerTypes

LEMMA RecordTypes ==
  ASSUME OwnerTypes, NEW d \in Devices
  PROVE  /\ device[d] \in DeviceRecords
         /\ device[d].presents \in Seq(Presents) /\ Len(device[d].presents) \in Nat
         /\ DOMAIN device[d].presents = 1..Len(device[d].presents)
         /\ Range(device[d].presents) \subseteq Presents
         /\ device[d].swapchains \subseteq Presents /\ Held(d) \subseteq Presents
<1>1. device[d] \in DeviceRecords
  BY DEF OwnerTypes
<1>2. device[d].presents \in Seq(Presents) /\ device[d].swapchains \subseteq Presents
  BY <1>1 DEF DeviceRecords
<1>3. Len(device[d].presents) \in Nat /\ DOMAIN device[d].presents = 1..Len(device[d].presents)
  BY <1>2, LenProperties
<1>4. \A i \in 1..Len(device[d].presents) : device[d].presents[i] \in Presents
  BY <1>2, ElementOfSeq
<1>5. Range(device[d].presents) \subseteq Presents
  BY <1>3, <1>4 DEF Range
<1> QED
  BY <1>1, <1>2, <1>3, <1>5 DEF Held

LEMMA OutliveObject == ASSUME OutliveInv, Object PROVE OutliveInv'
<1>0. UNCHANGED <<device, backend, presRefs>>
  BY DEF Object, groupVars
<1>1. CASE LoadDriver
  BY <1>0, <1>1, OutliveSame DEF LoadDriver
<1>2. CASE New \/ FillGroup \/ FillFails \/ FillEnd \/ MapGroup
  <2>1. object # "ready" /\ \A d \in Devices : In(d, {"none"})
    BY <1>2 DEF New, FillGroup, FillFails, FillEnd, MapGroup, OutliveInv, RefsRight
  <2>2. CASE New
    BY <1>0, <2>1, <2>2, OutliveAlone DEF New
  <2>3. CASE FillGroup \/ MapGroup
    <3>1. refs' = 1
      BY <2>3 DEF FillGroup, MapGroup, OutliveInv, RefsRight
    <3> QED
      BY <1>0, <2>1, <3>1, OutliveAlone
  <2>4. CASE FillFails \/ FillEnd
    <3>1. refs = 1
      BY <2>4 DEF FillFails, FillEnd, OutliveInv, RefsRight
    <3>2. object' = "none" \/ refs' = 1
      BY <2>4, <3>1 DEF FillFails, FillEnd, Release, Destroyed
    <3> QED
      BY <1>0, <2>1, <3>2, OutliveAlone
  <2> QED
    BY <1>2, <2>2, <2>3, <2>4
<1> QED
  BY <1>1, <1>2 DEF Object, AdapterNext

LEMMA OutliveReleaseObject == ASSUME OutliveInv, ReleaseObject PROVE OutliveInv'
<1>0. UNCHANGED <<device, backend, presRefs>>
  BY DEF ReleaseObject, groupVars
<1>1. /\ object = "ready" /\ refs = Cardinality(Attached) + 1 /\ refs' = refs - 1
      /\ \A d \in Devices : ~In(d, {"creating", "failed"})
  BY AttachedCounted DEF ReleaseObject, ApplicationHolds, OutliveInv, RefsRight, Release
<1>2. CASE refs = 1
  <2>1. Attached = {}
    BY <1>1, <1>2, AttachedCounted, FS_EmptySet
  <2>2. \A d \in Devices : In(d, {"none"})
    BY <1>1, <2>1, RecordTypes DEF Attached, In, DeviceRecords, OutliveInv
  <2>3. object' = "none"
    BY <1>2 DEF ReleaseObject, Release, Destroyed
  <2> QED
    BY <1>0, <2>2, <2>3, OutliveAlone
<1>3. CASE refs # 1
  <2>1. UNCHANGED <<object, groups>>
    BY <1>3 DEF ReleaseObject, Release
  <2>2. OwnerTypes' /\ Owners'
    BY <1>0, <2>1 DEF OutliveInv, OwnerTypes, Owners, DeviceRight, In, Held, References, BackendOf
  <2>3. RefsRight'
    <3>1. Attached' = Attached /\ Pending' = {}
      BY <1>0, <1>1 DEF Attached, Pending, In
    <3>2. refs' = Cardinality(Attached') /\ refs' > 0
      BY <1>1, <1>3, <3>1, AttachedCounted
    <3> QED
      BY <1>1, <2>1, <3>1, <3>2 DEF RefsRight
  <2> QED
    BY <2>2, <2>3 DEF OutliveInv
<1> QED
  BY <1>2, <1>3

\* A step of device d that keeps the object and the number of its users.
LEMMA RefsStay ==
  ASSUME RefsRight, UNCHANGED <<object, refs>>, object = "ready",
         NEW d \in Devices, \A e \in Devices \ {d} : device'[e] = device[e],
         In(d, {"live", "closing"})' <=> In(d, {"live", "closing"}),
         In(d, {"creating", "failed"})' => In(d, {"creating", "failed"})
  PROVE  RefsRight'
<1>1. Attached' = Attached
  BY DEF Attached, In
<1>2. Pending = {} => Pending' = {}
  BY DEF Pending, In
<1> QED
  BY <1>1, <1>2 DEF RefsRight

\* A device there is says that there is the object.
LEMMA DeviceReady ==
  ASSUME OutliveInv, NEW d \in Devices, ~In(d, {"none"})
  PROVE  object = "ready"
  BY DEF OutliveInv, RefsRight

LEMMA CreateOutlives ==
  ASSUME MapInv, OutliveInv, NEW d \in Devices, NEW k \in DOMAIN map, NEW f, CreateDevice(d, k, f)
  PROVE  OutliveInv'
<1> DEFINE v == device'[d]
<1>1. /\ object = "ready" /\ refs > Cardinality(Attached) /\ In(d, {"none"})
      /\ UNCHANGED <<object, refs, groups, backend, presRefs>>
  BY DEF CreateDevice, ApplicationHolds, adapterVars
<1>2. /\ map[k].group \in 1..Len(groups) /\ AdapterGroup(k).noutputs \in Nat
      /\ AdapterGroup(k).noutputs > 0 /\ Len(groups) \in Nat
  <2>1. k \in 1..Len(map) /\ mapped = Len(groups) /\ Len(groups) \in Nat
    BY <1>1, LenProperties DEF MapInv, MapSoFar, MapPhase, GroupsMade
  <2>2. EntryRight(k)
    BY <2>1 DEF MapInv, MapSoFar
  <2>3. map[k].group \in 1..Len(groups) /\ groups[map[k].group].noutputs \in Nat
    BY <2>1, <2>2, OutputsNumber DEF EntryRight, MapInv
  <2> QED
    BY <2>1, <2>2, <2>3 DEF EntryRight, AdapterGroup
<1>3. PICK w \in DeviceRecords :
        /\ device' = [device EXCEPT ![d] = w]
        /\ w.phase = "creating" /\ w.group = map[k].group /\ w.nparams > 0
        /\ w.presents = <<>> /\ w.swapchains = {}
  <2> DEFINE m == IF f = "ADAPTERGROUP" THEN AdapterGroup(k).noutputs ELSE 1
             w == [NoDevice EXCEPT !.phase = "creating", !.group = map[k].group, !.nparams = m]
  <2>1. device' = [device EXCEPT ![d] = w]
    BY DEF CreateDevice
  <2>2. m \in Nat /\ m > 0 /\ map[k].group \in Nat
    BY <1>2
  <2> HIDE DEF m
  <2>3. NoDevice \in DeviceRecords
    BY DEF NoDevice, DeviceRecords
  <2>4. /\ w \in DeviceRecords
        /\ w.phase = "creating" /\ w.group = map[k].group /\ w.nparams = m
        /\ w.presents = <<>> /\ w.swapchains = {}
    BY <2>2, <2>3 DEF NoDevice, DeviceRecords
  <2> QED
    BY <2>1, <2>2, <2>4
<1>4. v = w /\ \A e \in Devices \ {d} : device'[e] = device[e]
  BY <1>3 DEF OutliveInv, OwnerTypes
<1>5. /\ v.phase = "creating" /\ v.group = map[k].group /\ v.nparams > 0
      /\ v.presents = <<>> /\ v.swapchains = {}
  BY <1>3, <1>4
<1> HIDE DEF v
<1>6. OwnerTypes'
  BY <1>1, <1>3, <1>4 DEF OutliveInv, OwnerTypes, v
<1>7. Held(d)' = {} /\ Held(d) = {}
  BY <1>1, <1>5 DEF Held, Range, v, OutliveInv, Owners, DeviceRight
<1>8. DeviceRight(d)'
  <2>1. /\ device'[d].phase = "creating" /\ device'[d].group = map[k].group
        /\ device'[d].nparams > 0 /\ device'[d].presents = <<>> /\ device'[d].swapchains = {}
    BY <1>3, <1>5 DEF v
  <2>2. 1..Len(device'[d].presents) = {}
    BY <2>1
  <2>3. device'[d].group \in 1..Len(groups') /\ groups'[device'[d].group].noutputs > 0
    BY <1>1, <1>2, <2>1 DEF AdapterGroup
  <2> QED
    BY <1>7, <2>1, <2>2, <2>3 DEF DeviceRight, In
<1>9. Owners'
  <2>1. ASSUME NEW e \in Devices, e # d PROVE Held(e)' = Held(e) /\ DeviceRight(e)'
    BY <1>1, <1>4, <2>1 DEF Held, DeviceRight, In, References, BackendOf, OutliveInv, Owners
  <2> QED
    BY <1>7, <1>8, <2>1 DEF OutliveInv, Owners
<1>10. RefsRight'
  <2>1. Attached' = Attached
    BY <1>1, <1>4, <1>5 DEF Attached, In, v
  <2>2. refs = Cardinality(Attached) + 1
    BY <1>1, AttachedCounted DEF OutliveInv, RefsRight
  <2> QED
    BY <1>1, <2>1, <2>2 DEF RefsRight, OutliveInv
<1> QED
  BY <1>6, <1>9, <1>10 DEF OutliveInv

\* A new object of device d, in its group or as a swap chain.
LEMMA PresentOutlives ==
  ASSUME MapInv, OutliveInv, NEW d \in Devices, NEW p \in Presents, backend[p] = 0,
         ~In(d, {"none"}), Initialized(p, BackendOf(d)), UNCHANGED <<object, refs, groups>>,
         NEW v \in DeviceRecords, device' = [device EXCEPT ![d] = v],
         v.phase = device[d].phase, v.group = device[d].group, v.nparams = device[d].nparams,
         \/ /\ v.presents = Append(device[d].presents, p) /\ v.swapchains = device[d].swapchains
            /\ In(d, {"creating"})
         \/ /\ v.presents = device[d].presents /\ v.swapchains = device[d].swapchains \cup {p}
            /\ In(d, {"live"})
  PROVE  OutliveInv'
<1> DEFINE s == device[d].presents
<1>0. OwnerTypes /\ Owners /\ RefsRight /\ GroupsMade
  BY DEF OutliveInv, MapInv
<1>1. /\ s \in Seq(Presents) /\ Len(s) \in Nat /\ DOMAIN s = 1..Len(s)
      /\ device'[d] = v /\ \A e \in Devices \ {d} : device'[e] = device[e]
  BY <1>0, RecordTypes DEF OwnerTypes
<1>2. DeviceRight(d) /\ device[d].group \in 1..Len(groups) /\ BackendOf(d) \in Backends
  BY <1>0 DEF Owners, DeviceRight, GroupsMade, BackendOf
<1>3. \A e \in Devices : p \notin Held(e)
  <2>1. ASSUME NEW e \in Devices, p \in Held(e) PROVE FALSE
    <3>1. ~In(e, {"none"})
      BY <1>0, <2>1 DEF Owners, DeviceRight, Held, Range
    <3>2. backend[p] = BackendOf(e) /\ BackendOf(e) \in Backends
      BY <1>0, <2>1, <3>1 DEF Owners, DeviceRight, GroupsMade, BackendOf
    <3> QED
      BY <3>2, AdapterAssumption
  <2> QED
    BY <2>1
<1>4. /\ backend' = [backend EXCEPT ![p] = BackendOf(d)] /\ presRefs' = [presRefs EXCEPT ![p] = 1]
      /\ BackendOf(d)' = BackendOf(d)
  BY <1>1 DEF Initialized, BackendOf
<1>5. OwnerTypes'
  BY <1>0, <1>2, <1>4 DEF OwnerTypes
<1>6. /\ Range(v.presents) = Range(s) \cup (IF In(d, {"creating"}) THEN {p} ELSE {})
      /\ v.swapchains = device[d].swapchains \cup (IF In(d, {"creating"}) THEN {} ELSE {p})
      /\ \A i, j \in 1..Len(v.presents) : v.presents[i] = v.presents[j] => i = j
  <2>1. CASE v.presents = s
    BY <1>1, <1>2, <2>1 DEF DeviceRight, In
  <2>2. CASE v.presents = Append(s, p) /\ In(d, {"creating"}) /\ v.swapchains = device[d].swapchains
    <3>1. /\ Append(s, p) \in Seq(Presents) /\ Len(Append(s, p)) = Len(s) + 1
          /\ \A i \in 1..Len(s) : Append(s, p)[i] = s[i]
          /\ Append(s, p)[Len(s) + 1] = p
      BY <1>1, AppendProperties
    <3>2. DOMAIN Append(s, p) = 1..Len(s) + 1
      BY <3>1, LenProperties
    <3>3. Range(Append(s, p)) = Range(s) \cup {p}
      <4>1. Len(s) \in Nat /\ DOMAIN s = 1..Len(s)
        BY <1>1, LenProperties
      <4>2. Range(Append(s, p)) \subseteq Range(s) \cup {p}
        BY <3>1, <3>2, <4>1 DEF Range
      <4>3. Range(s) \subseteq Range(Append(s, p)) /\ p \in Range(Append(s, p))
        BY <3>1, <3>2, <4>1 DEF Range
      <4> QED
        BY <4>2, <4>3
    <3>4. \A i \in 1..Len(s) : s[i] # p
      BY <1>1, <1>3 DEF Held, Range
    <3>5. \A i, j \in 1..Len(s) : s[i] = s[j] => i = j
      BY <1>2 DEF DeviceRight
    <3> QED
      BY <1>1, <2>2, <3>1, <3>3, <3>4, <3>5
  <2> QED
    BY <2>1, <2>2 DEF In
<1>7. Held(d)' = Held(d) \cup {p}
  BY <1>1, <1>6 DEF Held
<1>8. \A q \in Held(d)' : backend'[q] = BackendOf(d) /\ presRefs'[q] = References(d, q)'
  <2>1. p \notin Range(s) /\ p \notin device[d].swapchains
    BY <1>3 DEF Held
  <2>2. References(d, p)' = 1
    BY <1>1, <1>6, <2>1 DEF References
  <2>3. \A q \in Held(d) : References(d, q)' = References(d, q) /\ q \in Presents
    BY <1>0, <1>1, <1>3, <1>6, RecordTypes DEF References
  <2>4. \A q \in Held(d) : backend[q] = BackendOf(d) /\ presRefs[q] = References(d, q)
    BY <1>2 DEF DeviceRight
  <2> QED
    BY <1>0, <1>3, <1>4, <1>7, <2>2, <2>3, <2>4 DEF OwnerTypes
<1>9. DeviceRight(d)'
  <2>1. /\ device'[d].phase = device[d].phase /\ device'[d].group = device[d].group
        /\ device'[d].nparams = device[d].nparams /\ device'[d].phase \in {"creating", "live"}
        /\ device'[d].phase = "creating" => device'[d].swapchains = {}
    BY <1>1, <1>2, <1>6 DEF DeviceRight, In
  <2>2. \A i, j \in 1..Len(device'[d].presents) :
          device'[d].presents[i] = device'[d].presents[j] => i = j
    BY <1>1, <1>6
  <2>3. /\ device'[d].group \in 1..Len(groups') /\ groups'[device'[d].group].noutputs > 0
        /\ device'[d].phase = "creating" => device'[d].nparams > 0
    BY <1>2, <2>1 DEF DeviceRight, In
  <2>4. \A q \in Held(d)' : backend'[q] = BackendOf(d)' /\ presRefs'[q] = References(d, q)'
    BY <1>4, <1>8
  <2> QED
    BY <2>1, <2>2, <2>3, <2>4 DEF DeviceRight, In
<1>10. Owners'
  <2>1. \A q \in Presents \ {p} : backend'[q] = backend[q] /\ presRefs'[q] = presRefs[q]
    BY <1>0, <1>4 DEF OwnerTypes
  <2> QED
    BY <1>0, <1>1, <1>3, <1>7, <1>9, <2>1, RecordTypes, OneDevice
<1>11. RefsRight'
  BY <1>0, <1>1, DeviceReady, RefsStay DEF In
<1> QED
  BY <1>5, <1>10, <1>11 DEF OutliveInv

\* A device goes from one phase to the next.
LEMMA PhaseOutlives ==
  ASSUME OutliveInv, NEW d \in Devices, NEW x, device' = [device EXCEPT ![d].phase = x],
         \/ In(d, {"creating"}) /\ x = "failed"
         \/ In(d, {"live"}) /\ x = "closing",
         UNCHANGED <<object, refs, groups, backend, presRefs>>
  PROVE  OutliveInv'
<1>0. OwnerTypes /\ Owners /\ RefsRight /\ device[d] \in DeviceRecords
  BY RecordTypes DEF OutliveInv
<1>1. /\ device'[d] \in DeviceRecords /\ device'[d].phase = x
      /\ device'[d].group = device[d].group /\ device'[d].presents = device[d].presents
      /\ device'[d].swapchains = device[d].swapchains
      /\ \A e \in Devices \ {d} : device'[e] = device[e]
      /\ device' = [device EXCEPT ![d] = device'[d]]
  BY <1>0 DEF OwnerTypes, DeviceRecords, In
<1>2. OwnerTypes'
  BY <1>0, <1>1 DEF OwnerTypes
<1>3. \A e \in Devices : Held(e)' = Held(e)
  BY <1>1 DEF Held
<1>4. DeviceRight(d)'
  <2>1. DeviceRight(d) /\ ~In(d, {"none"})
    BY <1>0 DEF Owners, In
  <2>2. \A q \in Held(d)' : backend'[q] = BackendOf(d)' /\ presRefs'[q] = References(d, q)'
    BY <1>1, <1>3, <2>1 DEF DeviceRight, BackendOf, References
  <2>3. \A i, j \in 1..Len(device'[d].presents) :
          device'[d].presents[i] = device'[d].presents[j] => i = j
    BY <1>1, <2>1 DEF DeviceRight
  <2>4. /\ device'[d].phase \in {"failed", "closing"}
        /\ device'[d].phase = "failed" => device'[d].swapchains = {}
        /\ device'[d].group \in 1..Len(groups') /\ groups'[device'[d].group].noutputs > 0
    BY <1>1, <2>1 DEF DeviceRight, In
  <2> QED
    BY <2>2, <2>3, <2>4 DEF DeviceRight, In
<1>5. \A e \in Devices : e # d => DeviceRight(e)'
  BY <1>0, <1>1, <1>3 DEF Owners, DeviceRight, In, BackendOf, References
<1>6. RefsRight'
  BY <1>0, <1>1, DeviceReady, RefsStay DEF In
<1> QED
  BY <1>0, <1>2, <1>3, <1>4, <1>5, <1>6 DEF OutliveInv, Owners

LEMMA CreatePresentOutlives ==
  ASSUME MapInv, OutliveInv, NEW d \in Devices, NEW p \in Presents, CreatePresent(d, p)
  PROVE  OutliveInv'
<1> DEFINE v == [device[d] EXCEPT !.presents = Append(@, p)]
<1>0. device[d] \in DeviceRecords /\ device[d].presents \in Seq(Presents) /\ OwnerTypes
  BY RecordTypes DEF OutliveInv
<1>1. In(d, {"creating"}) /\ backend[p] = 0 /\ UNCHANGED <<object, refs, groups>>
  BY DEF CreatePresent, present_create, adapterVars
<1>2. CASE Initialized(p, BackendOf(d)) /\ device' = [device EXCEPT ![d].presents = Append(@, p)]
  <2>1. device' = [device EXCEPT ![d] = v]
    BY <1>0, <1>2 DEF OwnerTypes
  <2>2. Append(device[d].presents, p) \in Seq(Presents)
    BY <1>0, AppendProperties
  <2>3. /\ v \in DeviceRecords /\ v.phase = device[d].phase /\ v.group = device[d].group
        /\ v.nparams = device[d].nparams /\ v.presents = Append(device[d].presents, p)
        /\ v.swapchains = device[d].swapchains
    BY <1>0, <2>2 DEF DeviceRecords
  <2>4. ~In(d, {"none"})
    BY <1>1 DEF In
  <2> HIDE DEF v
  <2> QED
    BY <1>1, <1>2, <2>1, <2>3, <2>4, PresentOutlives
<1>3. CASE device' = [device EXCEPT ![d].phase = "failed"] /\ UNCHANGED <<backend, presRefs>>
  BY <1>1, <1>3, PhaseOutlives
<1>4. CASE UNCHANGED <<device, backend, presRefs>>
  BY <1>1, <1>4, OutliveSame
<1> QED
  BY <1>2, <1>3, <1>4 DEF CreatePresent, present_create

LEMMA AdditionalOutlives ==
  ASSUME MapInv, OutliveInv, NEW d \in Devices, NEW p \in Presents, CreateAdditionalPresent(d, p)
  PROVE  OutliveInv'
<1> DEFINE v == [device[d] EXCEPT !.swapchains = @ \cup {p}]
<1>0. device[d] \in DeviceRecords /\ OwnerTypes
  BY RecordTypes DEF OutliveInv
<1>1. In(d, {"live"}) /\ backend[p] = 0 /\ UNCHANGED <<object, refs, groups>>
  BY DEF CreateAdditionalPresent, present_create, adapterVars
<1>2. CASE Initialized(p, BackendOf(d)) /\ device' = [device EXCEPT ![d].swapchains = @ \cup {p}]
  <2>1. device' = [device EXCEPT ![d] = v]
    BY <1>0, <1>2 DEF OwnerTypes
  <2>2. /\ v \in DeviceRecords /\ v.phase = device[d].phase /\ v.group = device[d].group
        /\ v.nparams = device[d].nparams /\ v.presents = device[d].presents
        /\ v.swapchains = device[d].swapchains \cup {p}
    BY <1>0 DEF DeviceRecords
  <2>3. ~In(d, {"none"})
    BY <1>1 DEF In
  <2> HIDE DEF v
  <2> QED
    BY <1>1, <1>2, <2>1, <2>2, <2>3, PresentOutlives
<1>3. CASE UNCHANGED <<device, backend, presRefs>>
  BY <1>1, <1>3, OutliveSame
<1> QED
  BY <1>2, <1>3 DEF CreateAdditionalPresent, present_create

LEMMA DriverOutlives ==
  ASSUME OutliveInv, NEW d \in Devices, DriverCreates(d)
  PROVE  OutliveInv'
<1> DEFINE p == device[d].presents[1]
           v == [device[d] EXCEPT !.phase = "live", !.swapchains = {p}]
<1>0. OwnerTypes /\ Owners /\ RefsRight /\ device[d] \in DeviceRecords /\ DeviceRight(d)
  BY RecordTypes DEF OutliveInv, Owners
<1>1. In(d, {"creating"}) /\ UNCHANGED <<object, groups, backend>>
  BY DEF DriverCreates, Ready
<1>2. CASE device' = [device EXCEPT ![d].phase = "failed"] /\ UNCHANGED <<refs, presRefs>>
  BY <1>1, <1>2, PhaseOutlives
<1>3. CASE /\ refs' = refs + 1 /\ presRefs' = GetPresent(p)
           /\ device' = [device EXCEPT ![d].phase = "live", ![d].swapchains = {p}]
  <2>1. /\ DOMAIN device[d].presents = 1..Len(device[d].presents) /\ device[d].nparams > 0
        /\ Len(device[d].presents) = device[d].nparams /\ device[d].nparams \in Nat
    BY <1>0, <1>1, RecordTypes DEF DeviceRight, DriverCreates, DeviceRecords
  <2>2. p \in Range(device[d].presents) /\ p \in Presents /\ device[d].swapchains = {}
    BY <1>0, <1>1, <2>1, RecordTypes DEF Range, DeviceRight, In
  <2> HIDE DEF p
  <2>3. device' = [device EXCEPT ![d] = v]
    BY <1>0, <1>3 DEF OwnerTypes
  <2>4. /\ v \in DeviceRecords /\ v.phase = "live" /\ v.group = device[d].group
        /\ v.presents = device[d].presents /\ v.swapchains = {p}
    BY <1>0, <2>2 DEF DeviceRecords
  <2> HIDE DEF v
  <2>5. device'[d] = v /\ \A e \in Devices \ {d} : device'[e] = device[e]
    BY <1>0, <2>3 DEF OwnerTypes
  <2>6. presRefs' = [presRefs EXCEPT ![p] = @ + 1]
    BY <1>3 DEF GetPresent
  <2>7. OwnerTypes'
    BY <1>0, <1>1, <2>2, <2>3, <2>4, <2>6 DEF OwnerTypes
  <2>8. Held(d)' = Held(d) /\ p \in Held(d) /\ Held(d) \subseteq Presents
    BY <1>0, <2>2, <2>4, <2>5, RecordTypes DEF Held
  <2>9. ASSUME NEW q \in Held(d)'
        PROVE  backend'[q] = BackendOf(d)' /\ presRefs'[q] = References(d, q)'
    <3>1. backend[q] = BackendOf(d) /\ presRefs[q] = References(d, q)
      BY <1>0, <2>8 DEF DeviceRight
    <3>2. BackendOf(d)' = BackendOf(d)
      BY <1>1, <2>4, <2>5 DEF BackendOf
    <3>3. References(d, q)' = References(d, q) + (IF q = p THEN 1 ELSE 0)
      BY <2>2, <2>4, <2>5 DEF References
    <3>4. presRefs'[q] = presRefs[q] + (IF q = p THEN 1 ELSE 0)
      BY <1>0, <2>6, <2>8 DEF OwnerTypes
    <3> QED
      BY <1>1, <3>1, <3>2, <3>3, <3>4
  <2>10. DeviceRight(d)'
    <3>1. /\ device'[d].group \in 1..Len(groups') /\ groups'[device'[d].group].noutputs > 0
          /\ \A i, j \in 1..Len(device'[d].presents) :
               device'[d].presents[i] = device'[d].presents[j] => i = j
      BY <1>0, <1>1, <2>4, <2>5 DEF DeviceRight, In
    <3> QED
      BY <2>4, <2>5, <2>9, <3>1 DEF DeviceRight, In
  <2>11. Owners'
    <3>1. \A q \in Presents \ {p} : backend'[q] = backend[q] /\ presRefs'[q] = presRefs[q]
      BY <1>0, <1>1, <2>6 DEF OwnerTypes
    <3>2. \A e \in Devices \ {d} : p \notin Held(e)
      BY <1>0, <2>8 DEF Owners
    <3> QED
      BY <1>0, <1>1, <2>2, <2>5, <2>8, <2>10, <3>1, <3>2, RecordTypes, OneDevice
  <2>12. RefsRight'
    <3>1. Attached' = Attached \cup {d} /\ d \notin Attached
      BY <1>1, <2>4, <2>5 DEF Attached, In
    <3>2. Cardinality(Attached') = Cardinality(Attached) + 1
      BY <3>1, AttachedCounted, FS_AddElement
    <3>3. object = "ready" /\ refs = Cardinality(Attached) + 1
      BY <1>0, <1>1 DEF RefsRight, In, Pending
    <3> QED
      BY <1>1, <1>3, <3>2, <3>3, AttachedCounted DEF RefsRight
  <2> QED
    BY <2>7, <2>11, <2>12 DEF OutliveInv
<1> QED
  BY <1>2, <1>3 DEF DriverCreates

\* v is the record of device d without one of its references to p.
Drops(d, p, v) ==
  /\ v \in DeviceRecords /\ v.phase = device[d].phase /\ v.group = device[d].group
  /\ \A q \in Presents \ {p} :
       /\ q \in Range(v.presents) <=> q \in Range(device[d].presents)
       /\ q \in v.swapchains <=> q \in device[d].swapchains
  /\ \/ /\ p \in device[d].swapchains /\ p \notin v.swapchains
        /\ p \in Range(v.presents) <=> p \in Range(device[d].presents)
     \/ /\ p \in Range(device[d].presents) /\ p \notin Range(v.presents)
        /\ p \in v.swapchains <=> p \in device[d].swapchains
  /\ \A i, j \in 1..Len(v.presents) : v.presents[i] = v.presents[j] => i = j

\* A reference of device d to p goes, the last one with the object.
LEMMA ReleaseOutlives ==
  ASSUME OutliveInv, NEW d \in Devices, ~In(d, {"none", "creating"}), NEW p \in Held(d),
         DRIPresent_Release(d, p), NEW v, Drops(d, p, v), device' = [device EXCEPT ![d] = v]
  PROVE  OutliveInv'
<1> USE DEF Drops
<1>0. OwnerTypes /\ Owners /\ RefsRight /\ DeviceRight(d) /\ p \in Presents
  BY RecordTypes DEF OutliveInv, Owners
<1>1. /\ device'[d] = v /\ \A e \in Devices \ {d} : device'[e] = device[e]
      /\ UNCHANGED <<object, refs, groups>>
  BY <1>0 DEF OwnerTypes, DRIPresent_Release, adapterVars
<1>2. presRefs[p] = References(d, p) /\ presRefs' = [presRefs EXCEPT ![p] = @ - 1]
  BY <1>0 DEF DeviceRight, DRIPresent_Release
<1>3. backend' = IF presRefs[p] = 1 THEN [backend EXCEPT ![p] = 0] ELSE backend
  BY DEF DRIPresent_Release
<1>4. OwnerTypes'
  BY <1>0, <1>2, <1>3 DEF OwnerTypes
<1>5. References(d, p)' = References(d, p) - 1
  BY <1>1 DEF References
<1>6. /\ Held(d)' \subseteq Held(d) /\ Held(d) \subseteq Presents
      /\ \A q \in Presents \ {p} : References(d, q)' = References(d, q)
  <2>1. Range(v.presents) \subseteq Presents /\ v.swapchains \subseteq Presents
    <3>1. v.presents \in Seq(Presents) /\ v.swapchains \subseteq Presents
      BY DEF DeviceRecords
    <3>2. DOMAIN v.presents = 1..Len(v.presents) /\ \A i \in 1..Len(v.presents) : v.presents[i] \in Presents
      BY <3>1, LenProperties, ElementOfSeq
    <3> QED
      BY <3>1, <3>2 DEF Range
  <2>2. Held(d) \subseteq Presents
    BY <1>0, RecordTypes
  <2> QED
    BY <1>1, <2>1, <2>2 DEF Held, References
<1>7. p \in Held(d)' => presRefs[p] # 1
  BY <1>1, <1>2, <1>5 DEF Held, References
<1>8. ASSUME NEW q \in Held(d)'
      PROVE  backend'[q] = BackendOf(d)' /\ presRefs'[q] = References(d, q)'
  <2>1. q \in Held(d) /\ q \in Presents /\ backend[q] = BackendOf(d) /\ presRefs[q] = References(d, q)
    BY <1>0, <1>6 DEF DeviceRight
  <2>2. BackendOf(d)' = BackendOf(d)
    BY <1>1 DEF BackendOf
  <2>3. CASE q = p
    BY <1>0, <1>2, <1>3, <1>5, <1>7, <2>1, <2>2, <2>3 DEF OwnerTypes
  <2>4. CASE q # p
    BY <1>0, <1>2, <1>3, <1>6, <2>1, <2>2, <2>4 DEF OwnerTypes
  <2> QED
    BY <2>3, <2>4
<1>9. DeviceRight(d)'
  <2>1. /\ device'[d].phase = device[d].phase /\ device'[d].group \in 1..Len(groups')
        /\ groups'[device'[d].group].noutputs > 0
    BY <1>0, <1>1 DEF DeviceRight, In
  <2>2. In(d, {"creating", "failed"})' => device'[d].swapchains = {}
    <3>1. ASSUME In(d, {"failed"}) PROVE v.swapchains = {}
      <4>1. device[d].swapchains = {} /\ p \notin v.swapchains
        BY <1>0, <3>1 DEF DeviceRight, In
      <4> QED
        BY <4>1 DEF DeviceRecords
    <3> QED
      BY <1>1, <3>1 DEF In
  <2> QED
    BY <1>1, <1>8, <2>1, <2>2 DEF DeviceRight, In
<1>10. Owners'
  <2>1. \A q \in Presents \ {p} : backend'[q] = backend[q] /\ presRefs'[q] = presRefs[q]
    BY <1>0, <1>2, <1>3 DEF OwnerTypes
  <2>2. \A e \in Devices \ {d} : p \notin Held(e)
    BY <1>0 DEF Owners
  <2> QED
    BY <1>0, <1>1, <1>6, <1>9, <2>1, <2>2, RecordTypes, OneDevice
<1>11. RefsRight'
  <2>1. object = "ready"
    BY DeviceReady DEF In
  <2> QED
    BY <1>0, <1>1, <2>1, RefsStay DEF In
<1> QED
  BY <1>4, <1>10, <1>11 DEF OutliveInv

\* The two ways in which a device gives up a reference.
LEMMA SwapChainDrops ==
  ASSUME OutliveInv, NEW d \in Devices, NEW p \in Presents, ReleaseSwapChain(d, p)
  PROVE  /\ ~In(d, {"none", "creating"}) /\ p \in Held(d) /\ DRIPresent_Release(d, p)
         /\ \E v : Drops(d, p, v) /\ device' = [device EXCEPT ![d] = v]
<1> DEFINE v == [device[d] EXCEPT !.swapchains = @ \ {p}]
<1>0. device[d] \in DeviceRecords /\ OwnerTypes /\ DeviceRight(d)
  BY RecordTypes DEF OutliveInv, Owners
<1>1. /\ ~In(d, {"none", "creating"}) /\ p \in device[d].swapchains /\ p \in Held(d)
      /\ DRIPresent_Release(d, p)
  BY DEF ReleaseSwapChain, In, Held
<1>2. device' = [device EXCEPT ![d] = v]
  BY <1>0 DEF ReleaseSwapChain, OwnerTypes
<1>3. /\ v \in DeviceRecords /\ v.phase = device[d].phase /\ v.group = device[d].group
      /\ v.presents = device[d].presents /\ v.swapchains = device[d].swapchains \ {p}
  BY <1>0 DEF DeviceRecords
<1>4. \A i, j \in 1..Len(v.presents) : v.presents[i] = v.presents[j] => i = j
  BY <1>0, <1>3 DEF DeviceRight
<1> HIDE DEF v
<1>5. Drops(d, p, v)
  BY <1>1, <1>3, <1>4 DEF Drops
<1> QED
  BY <1>1, <1>2, <1>5

LEMMA GroupDrops ==
  ASSUME OutliveInv, NEW d \in Devices, GroupReleases(d)
  PROVE  LET p == device[d].presents[1]
         IN /\ ~In(d, {"none", "creating"}) /\ p \in Held(d) /\ DRIPresent_Release(d, p)
            /\ \E v : Drops(d, p, v) /\ device' = [device EXCEPT ![d] = v]
<1> DEFINE s == device[d].presents
           p == s[1]
           v == [device[d] EXCEPT !.presents = Tail(@)]
<1>0. device[d] \in DeviceRecords /\ OwnerTypes /\ DeviceRight(d)
  BY RecordTypes DEF OutliveInv, Owners
<1>1. /\ s \in Seq(Presents) /\ s # <<>> /\ Len(s) \in Nat /\ Len(s) > 0 /\ DOMAIN s = 1..Len(s)
      /\ device[d].swapchains = {} /\ ~In(d, {"none", "creating"}) /\ DRIPresent_Release(d, p)
  <2>1. s \in Seq(Presents) /\ s # <<>>
    BY <1>0, RecordTypes DEF GroupReleases
  <2>2. Len(s) \in Nat \ {0} /\ DOMAIN s = 1..Len(s)
    BY <2>1, EmptySeq, LenProperties
  <2> QED
    BY <2>1, <2>2 DEF GroupReleases, Ready, In
<1>2. /\ Tail(s) \in Seq(Presents) /\ Len(Tail(s)) = Len(s) - 1
      /\ \A i \in 1..Len(Tail(s)) : Tail(s)[i] = s[i + 1]
      /\ DOMAIN Tail(s) = 1..Len(Tail(s))
  BY <1>1, HeadTailProperties, LenProperties
<1>3. \A i, j \in 1..Len(s) : s[i] = s[j] => i = j
  BY <1>0 DEF DeviceRight
<1>4. \A i \in 1..Len(Tail(s)) : i + 1 \in 1..Len(s) /\ i + 1 # 1
  BY <1>1, <1>2
<1>5. p \in Range(s) /\ p \notin Range(Tail(s)) /\ 1 \in 1..Len(s)
  BY <1>1, <1>2, <1>3, <1>4 DEF Range
<1>6. ASSUME NEW q \in Presents, q # p PROVE q \in Range(Tail(s)) <=> q \in Range(s)
  <2>1. ASSUME NEW i \in 1..Len(s), s[i] = q PROVE \E j \in 1..Len(Tail(s)) : Tail(s)[j] = q
    <3>1. i - 1 \in 1..Len(Tail(s)) /\ (i - 1) + 1 = i
      BY <1>1, <1>2, <1>6, <2>1
    <3> QED
      BY <1>2, <2>1, <3>1
  <2> QED
    BY <1>1, <1>2, <1>4, <2>1 DEF Range
<1>7. \A i, j \in 1..Len(Tail(s)) : Tail(s)[i] = Tail(s)[j] => i = j
  <2>1. ASSUME NEW i \in 1..Len(Tail(s)), NEW j \in 1..Len(Tail(s)), Tail(s)[i] = Tail(s)[j]
        PROVE  i = j
    <3>1. s[i + 1] = s[j + 1] /\ i + 1 \in 1..Len(s) /\ j + 1 \in 1..Len(s)
      BY <1>2, <1>4, <2>1
    <3>2. i + 1 = j + 1
      BY <1>3, <3>1
    <3> QED
      BY <1>1, <1>2, <3>2
  <2> QED
    BY <2>1
<1>8. device' = [device EXCEPT ![d] = v]
  BY <1>0 DEF GroupReleases, OwnerTypes
<1>9. /\ v \in DeviceRecords /\ v.phase = device[d].phase /\ v.group = device[d].group
      /\ v.presents = Tail(s) /\ v.swapchains = device[d].swapchains
  BY <1>0, <1>2 DEF DeviceRecords
<1>10. p \in Held(d)
  BY <1>5 DEF Held
<1>11. \A q \in Presents \ {p} :
         /\ q \in Range(v.presents) <=> q \in Range(device[d].presents)
         /\ q \in v.swapchains <=> q \in device[d].swapchains
  BY <1>6, <1>9
<1>12. /\ p \in Range(device[d].presents) /\ p \notin Range(v.presents)
       /\ p \in v.swapchains <=> p \in device[d].swapchains
       /\ \A i, j \in 1..Len(v.presents) : v.presents[i] = v.presents[j] => i = j
  BY <1>5, <1>7, <1>9
<1>13. Drops(d, p, v)
  BY <1>9, <1>11, <1>12 DEF Drops
<1>14. ~In(d, {"none", "creating"}) /\ DRIPresent_Release(d, p)
  BY <1>1
<1> HIDE DEF v
<1>15. \E u : Drops(d, p, u) /\ device' = [device EXCEPT ![d] = u]
  BY <1>8, <1>13
<1> QED
  BY <1>10, <1>14, <1>15

LEMMA SwapChainOutlives ==
  ASSUME OutliveInv, NEW d \in Devices, NEW p \in Presents, ReleaseSwapChain(d, p)
  PROVE  OutliveInv'
  BY SwapChainDrops, ReleaseOutlives

LEMMA GroupOutlives ==
  ASSUME OutliveInv, NEW d \in Devices, GroupReleases(d)
  PROVE  OutliveInv'
  BY GroupDrops, ReleaseOutlives

LEMMA GoneOutlives ==
  ASSUME OutliveInv, NEW d \in Devices, DeviceGone(d)
  PROVE  OutliveInv'
<1>0. /\ OwnerTypes /\ Owners /\ RefsRight
      /\ device[d].presents = <<>> /\ device[d].swapchains = {} /\ UNCHANGED <<backend, presRefs>>
      /\ device' = [device EXCEPT ![d] = NoDevice]
  BY DEF OutliveInv, DeviceGone
<1>1. /\ device'[d].phase = "none" /\ device'[d].presents = <<>> /\ device'[d].swapchains = {}
      /\ \A e \in Devices \ {d} : device'[e] = device[e]
  BY <1>0 DEF OwnerTypes, NoDevice
<1>2. OwnerTypes'
  <2>1. NoDevice \in DeviceRecords
    BY DEF NoDevice, DeviceRecords
  <2> QED
    BY <1>0, <2>1 DEF OwnerTypes
<1>3. Held(d)' = {}
  BY <1>1 DEF Held, Range
<1>4. ASSUME UNCHANGED groups PROVE Owners'
  <2>1. ASSUME NEW e \in Devices, e # d PROVE Held(e)' = Held(e) /\ DeviceRight(e)'
    BY <1>0, <1>1, <1>4, <2>1 DEF Held, DeviceRight, In, References, BackendOf, Owners
  <2>2. DeviceRight(d)'
    BY <1>1, <1>3 DEF DeviceRight, In
  <2> QED
    BY <1>0, <1>3, <2>1, <2>2 DEF Owners
<1>5. CASE In(d, {"failed"}) /\ UNCHANGED <<refs, kind, object, groups, map, mapped>>
  <2>1. Attached' = Attached /\ (Pending = {} => Pending' = {})
    BY <1>1, <1>5 DEF Attached, Pending, In
  <2>2. object = "ready"
    BY <1>5, DeviceReady DEF In
  <2>3. RefsRight'
    BY <1>0, <1>5, <2>1, <2>2 DEF RefsRight
  <2> QED
    BY <1>2, <1>4, <1>5, <2>3 DEF OutliveInv
<1>6. CASE In(d, {"closing"}) /\ Release
  <2>1. Attached' = Attached \ {d} /\ d \in Attached /\ Pending' = Pending
    BY <1>1, <1>6 DEF Attached, Pending, In
  <2>2. Cardinality(Attached') = Cardinality(Attached) - 1
    BY <2>1, AttachedCounted, FS_RemoveElement
  <2>3. object = "ready" /\ refs' = refs - 1
    BY <1>6, DeviceReady DEF In, Release
  <2>4. CASE refs = 1
    <3>1. Cardinality(Attached') = 0 /\ Pending = {}
      BY <1>0, <2>2, <2>3, <2>4, AttachedCounted, FS_EmptySet, <2>1 DEF RefsRight
    <3>2. IsFiniteSet(Attached')
      BY <2>1, AttachedCounted, FS_Subset
    <3>3. Attached' = {}
      BY <3>1, <3>2, FS_EmptySet
    <3>4. \A e \in Devices : In(e, {"none"})'
      BY <1>2, <2>1, <3>1, <3>3 DEF Attached, Pending, In, OwnerTypes, DeviceRecords
    <3>5. \A e \in Devices : device'[e].presents = <<>> /\ device'[e].swapchains = {}
      BY <1>0, <1>1, <3>4 DEF Owners, DeviceRight, In
    <3>6. \A e \in Devices : Held(e)' = {}
      BY <3>5 DEF Held, Range
    <3>7. Owners'
      BY <3>4, <3>5, <3>6 DEF Owners, DeviceRight, In
    <3>8. object' = "none"
      BY <1>6, <2>4 DEF Release, Destroyed
    <3> QED
      BY <1>2, <3>4, <3>7, <3>8 DEF OutliveInv, RefsRight
  <2>5. CASE refs # 1
    <3>1. UNCHANGED <<object, groups>>
      BY <1>6, <2>5 DEF Release
    <3>2. RefsRight'
      BY <1>0, <2>1, <2>2, <2>3, <2>5, <3>1, AttachedCounted DEF RefsRight
    <3> QED
      BY <1>2, <1>4, <3>1, <3>2 DEF OutliveInv
  <2> QED
    BY <2>4, <2>5
<1> QED
  BY <1>5, <1>6 DEF DeviceGone

LEMMA OutliveStep ==
  ASSUME MapInv, OutliveInv, [Next]_nineVars
  PROVE  OutliveInv'
<1>1. CASE Object \/ ReleaseObject
  BY <1>1, OutliveObject, OutliveReleaseObject
<1>2. CASE UNCHANGED nineVars
  BY <1>2, OutliveSame DEF nineVars, adapterVars, groupVars
<1>3. ASSUME NEW d \in Devices, NEW k \in DOMAIN map, NEW f, CreateDevice(d, k, f)
      PROVE  OutliveInv'
  BY <1>3, CreateOutlives
<1>4. ASSUME NEW d \in Devices, NEW p \in Presents,
             CreatePresent(d, p) \/ CreateAdditionalPresent(d, p) \/ ReleaseSwapChain(d, p)
      PROVE  OutliveInv'
  BY <1>4, CreatePresentOutlives, AdditionalOutlives, SwapChainOutlives
<1>5. ASSUME NEW d \in Devices, NEW p \in Presents,
             \/ D3DWindowBufferFromDmaBuf(d, p) \/ DestroyD3DWindowBuffer(d, p)
             \/ \E w \in Windows : UseDrawable(d, p, w)
      PROVE  OutliveInv'
  BY <1>5, OutliveSame DEF D3DWindowBufferFromDmaBuf, DestroyD3DWindowBuffer, UseDrawable,
                           adapterVars, groupVars
<1>6. ASSUME NEW d \in Devices, DriverCreates(d) \/ GroupReleases(d) \/ DeviceGone(d)
      PROVE  OutliveInv'
  BY <1>6, DriverOutlives, GroupOutlives, GoneOutlives
<1>7. ASSUME NEW d \in Devices, CloseDevice(d) PROVE OutliveInv'
  BY <1>7, PhaseOutlives DEF CloseDevice, Ready, adapterVars
<1>9. ASSUME NEW d \in Devices, DisplayStep(d) PROVE OutliveInv'
  BY <1>9, OutliveSame DEF DisplayStep, adapterVars, groupVars
<1>8. ASSUME NEW p \in Presents, DrawableCreated(p) PROVE OutliveInv'
  BY <1>8, OutliveSame DEF DrawableCreated, adapterVars, groupVars
<1> QED
  BY <1>1, <1>2, <1>3, <1>4, <1>5, <1>6, <1>7, <1>8, <1>9 DEF Next

LEMMA InvOutlives == ASSUME MapInv, OutliveInv PROVE PresentsOutlive
<1>1. ASSUME NEW d \in Devices, NEW p \in Held(d)
      PROVE  presRefs[p] >= 1 /\ backend[p] # 0 /\ kind[backend[p]] # "none"
  <2>1. DeviceRight(d)
    BY DEF OutliveInv, Owners
  <2>2. ~In(d, {"none"})
    BY <2>1 DEF DeviceRight, Held, Range
  <2>3. /\ presRefs[p] = References(d, p) /\ backend[p] = groups[device[d].group].backend
        /\ device[d].group \in 1..Len(groups) /\ groups[device[d].group].noutputs > 0
    BY <2>1, <2>2 DEF DeviceRight, BackendOf
  <2>4. References(d, p) >= 1
    BY DEF References, Held
  <2> QED
    BY <2>3, <2>4, AdapterAssumption DEF MapInv, GroupsMade
<1> QED
  BY <1>1 DEF PresentsOutlive, Held

\* Whatever is created, fails, and is released, in any order and by any
\* number of devices in threads of their own: a presentation object that a
\* device can reach is allocated, with the backend of its group, and both
\* go once the last reference is gone (d3dadapter9.c:150, present.c:1544).
THEOREM ObjectsOutlive == Spec => []PresentsOutlive
<1>1. Init => MapInv /\ OutliveInv
  BY MapInvInit, OutliveInit
<1>2. MapInv /\ OutliveInv /\ [Next]_nineVars => MapInv' /\ OutliveInv'
  BY MapInvStep, OutliveStep
<1>3. MapInv /\ OutliveInv => PresentsOutlive
  BY InvOutlives
<1> QED
  BY <1>1, <1>2, <1>3, PTL DEF Spec

---------------------------------------------------------------------------
(* Freed drawables. *)

Pointer == [wnd : Windows, freed : {FALSE}] \cup {NoDrawable, Freed}

\* As long as no window has been shared, no two presentation objects have
\* a window in common, and what each keeps is there.
Apart ==
  ~shared =>
    /\ \A p \in Presents : ~d3d[p].freed
    /\ \A p, q \in Presents : p # q /\ d3d[p].wnd = d3d[q].wnd => d3d[p].wnd = NoWindow

DrawTypes ==
  /\ table \subseteq Windows /\ shared \in BOOLEAN
  /\ d3d \in [Presents -> Pointer]
  /\ getting \in [Presents -> [wnd : Windows, from : Callers] \cup {NoCall}]

DrawInv == DrawTypes /\ Apart

\* Giving up windows ws leaves pointers pointers.
LEMMA PointersTyped ==
  ASSUME NEW c \in [Presents -> Pointer], NEW t, NEW ws, NoWindow \notin ws
  PROVE  /\ Pointers(c, t, ws) \in [Presents -> Pointer]
         /\ \A q \in Presents : c[q].wnd \notin ws => Pointers(c, t, ws)[q] = c[q]
<1>1. Freed \in Pointer
  BY DEF Pointer
<1>2. \A q \in Presents : c[q] \in Pointer
  OBVIOUS
<1> QED
  BY <1>1, <1>2 DEF Pointers

LEMMA PresentOnDraws ==
  ASSUME DrawInv, NEW p \in Presents, NEW w \in Windows, NEW t \in SUBSET Windows, NEW a,
         PresentOn(p, w, t, a)
  PROVE  /\ table' \subseteq Windows /\ shared' \in BOOLEAN /\ d3d' \in [Presents -> Pointer]
         /\ Apart'
<1>1. PICK v \in Told(p) :
        /\ table' = t \ Replaced(v, w)
        /\ d3d' = [Pointers(d3d, t, Replaced(v, w)) EXCEPT ![p] =
                     IF w \in Replaced(v, w) THEN Freed ELSE [wnd |-> w, freed |-> FALSE]]
        /\ shared' = (shared \/ \E q \in Presents \ {p} : d3d[q].wnd = w)
  BY DEF PresentOn
<1>2. NoWindow \notin Replaced(v, w) /\ w \notin Replaced(v, w) /\ Replaced(v, w) \subseteq {v}
  BY DEF Replaced
<1>3. /\ Pointers(d3d, t, Replaced(v, w)) \in [Presents -> Pointer]
      /\ \A q \in Presents : d3d[q].wnd \notin Replaced(v, w) =>
           Pointers(d3d, t, Replaced(v, w))[q] = d3d[q]
  BY <1>2, PointersTyped DEF DrawInv, DrawTypes
<1>4. d3d' = [Pointers(d3d, t, Replaced(v, w)) EXCEPT ![p] = [wnd |-> w, freed |-> FALSE]]
  BY <1>1, <1>2
<1>5. [wnd |-> w, freed |-> FALSE] \in Pointer
  BY DEF Pointer
<1>6. d3d' \in [Presents -> Pointer] /\ d3d'[p] = [wnd |-> w, freed |-> FALSE]
      /\ \A q \in Presents \ {p} : d3d'[q] = Pointers(d3d, t, Replaced(v, w))[q]
  BY <1>3, <1>4, <1>5
<1>7. Apart'
  <2> SUFFICES ASSUME ~shared'
               PROVE  /\ \A q \in Presents : ~d3d'[q].freed
                      /\ \A q, r \in Presents : q # r /\ d3d'[q].wnd = d3d'[r].wnd
                                                  => d3d'[q].wnd = NoWindow
    BY DEF Apart
  <2>1. ~shared /\ \A q \in Presents \ {p} : d3d[q].wnd # w
    BY <1>1
  <2>2. /\ \A q \in Presents : ~d3d[q].freed
        /\ \A q, r \in Presents : q # r /\ d3d[q].wnd = d3d[r].wnd => d3d[q].wnd = NoWindow
    BY <2>1 DEF DrawInv, Apart
  <2>3. v = d3d[p].wnd
    BY <2>2 DEF Told
  <2>4. \A q \in Presents \ {p} : d3d[q].wnd \notin Replaced(v, w)
    BY <1>2, <2>2, <2>3
  <2>5. \A q \in Presents \ {p} : d3d'[q] = d3d[q]
    BY <1>3, <1>6, <2>4
  <2> QED
    BY <1>6, <2>1, <2>2, <2>5
<1> QED
  BY <1>1, <1>6, <1>7 DEF DrawInv, DrawTypes

LEMMA UseDraws ==
  ASSUME DrawInv, NEW p \in Presents, NEW w \in Windows, NEW from, NEW t \in SUBSET Windows, NEW a,
         Use(p, w, from, t, a)
  PROVE  /\ table' \subseteq Windows /\ shared' \in BOOLEAN /\ d3d' \in [Presents -> Pointer]
         /\ Apart'
<1>1. CASE from = "PresentBuffer"
  BY <1>1, PresentOnDraws DEF Use
<1>2. CASE from # "PresentBuffer"
  BY <1>2 DEF Use, DrawInv, DrawTypes, Apart
<1> QED
  BY <1>1, <1>2

LEMMA ReleaseDraws ==
  ASSUME DrawInv, NEW d, NEW p \in Presents, DRIPresent_Release(d, p)
  PROVE  DrawInv'
<1>1. CASE UNCHANGED drawableVars
  BY <1>1 DEF drawableVars, DrawInv, DrawTypes, Apart
<1>2. CASE ReleaseDrawable(p)
  <2>1. PICK v \in Told(p) :
          /\ table' = table \ ({v} \ {NoWindow})
          /\ d3d' = [Pointers(d3d, table, {v} \ {NoWindow}) EXCEPT ![p] = NoDrawable]
    BY <1>2 DEF ReleaseDrawable
  <2>2. /\ shared' = (shared /\ \E q \in Presents : d3d'[q] # NoDrawable)
        /\ getting' = getting
    BY <1>2 DEF ReleaseDrawable
  <2>3. /\ Pointers(d3d, table, {v} \ {NoWindow}) \in [Presents -> Pointer]
        /\ \A q \in Presents : d3d[q].wnd \notin {v} \ {NoWindow} =>
             Pointers(d3d, table, {v} \ {NoWindow})[q] = d3d[q]
    BY PointersTyped DEF DrawInv, DrawTypes
  <2>4. d3d' \in [Presents -> Pointer] /\ d3d'[p] = NoDrawable
        /\ \A q \in Presents \ {p} : d3d'[q] = Pointers(d3d, table, {v} \ {NoWindow})[q]
    BY <2>1, <2>3 DEF Pointer
  <2>5. DrawTypes'
    BY <2>1, <2>2, <2>4 DEF DrawInv, DrawTypes
  <2>6. CASE ~shared
    <3>1. /\ \A q \in Presents : ~d3d[q].freed
          /\ \A q, r \in Presents : q # r /\ d3d[q].wnd = d3d[r].wnd => d3d[q].wnd = NoWindow
      BY <2>6 DEF DrawInv, Apart
    <3>2. v = d3d[p].wnd
      BY <3>1 DEF Told
    <3>3. \A q \in Presents \ {p} : d3d'[q] = d3d[q]
      BY <2>3, <2>4, <3>1, <3>2
    <3> QED
      BY <2>4, <2>5, <3>1, <3>3 DEF DrawInv, Apart, NoDrawable
  <2>7. CASE shared
    <3>1. ~shared' => \A q \in Presents : d3d'[q] = NoDrawable
      BY <2>2, <2>7
    <3> QED
      BY <2>5, <3>1 DEF DrawInv, Apart, NoDrawable
  <2> QED
    BY <2>6, <2>7
<1> QED
  BY <1>1, <1>2 DEF DRIPresent_Release

LEMMA FirstPresent ==
  ASSUME OutliveInv, NEW d \in Devices, device[d].presents # <<>>
  PROVE  device[d].presents[1] \in Presents /\ device[d].presents[1] \in Held(d)
<1>1. device[d].presents \in Seq(Presents)
  BY RecordTypes DEF OutliveInv
<1>2. 1 \in 1..Len(device[d].presents)
  BY <1>1, EmptySeq, LenProperties
<1> QED
  BY <1>1, <1>2, RecordTypes, ElementOfSeq DEF OutliveInv, Range, Held

LEMMA DrawStep ==
  ASSUME OutliveInv, DrawInv, [Next]_nineVars
  PROVE  DrawInv'
<1>1. ASSUME NEW d \in Devices, NEW p \in Presents, NEW w \in Windows, UseDrawable(d, p, w)
      PROVE  DrawInv'
  <2>1. PICK from \in Callers : Get(p, w, from)
    BY <1>1 DEF UseDrawable, Callers
  <2>2. CASE w \in table
    <3>1. Use(p, w, from, table, allocated) /\ getting' = getting
      BY <2>1, <2>2 DEF Get
    <3>2. table \in SUBSET Windows
      BY DEF DrawInv, DrawTypes
    <3>3. /\ table' \subseteq Windows /\ shared' \in BOOLEAN /\ d3d' \in [Presents -> Pointer]
          /\ Apart'
      BY <3>1, <3>2, UseDraws
    <3> QED
      BY <3>1, <3>3 DEF DrawInv, DrawTypes
  <2>3. CASE w \notin table
    <3>1. /\ getting' = [getting EXCEPT ![p] = [wnd |-> w, from |-> from]]
          /\ UNCHANGED <<table, d3d, shared>>
      BY <2>1, <2>3 DEF Get
    <3> QED
      BY <3>1 DEF DrawInv, DrawTypes, Apart
  <2> QED
    BY <2>2, <2>3
<1>2. ASSUME NEW p \in Presents, DrawableCreated(p)
      PROVE  DrawInv'
  <2> DEFINE g == getting[p]
             t == Added(g.wnd)[1]
  <2>1. CASE Created(p)
    <3>1. g \in [wnd : Windows, from : Callers] /\ getting' = [getting EXCEPT ![p] = NoCall]
      BY <2>1 DEF Created, DrawInv, DrawTypes
    <3>2. g.wnd \in Windows /\ t \in SUBSET Windows
      BY <3>1 DEF Added, DrawInv, DrawTypes
    <3>3. Use(p, g.wnd, g.from, t, Added(g.wnd)[2])
      BY <2>1 DEF Created
    <3> HIDE DEF g, t
    <3>4. /\ table' \subseteq Windows /\ shared' \in BOOLEAN /\ d3d' \in [Presents -> Pointer]
          /\ Apart'
      BY <3>2, <3>3, UseDraws
    <3> QED
      BY <3>1, <3>4 DEF DrawInv, DrawTypes
  <2>2. CASE CreateFails(p)
    BY <2>2 DEF CreateFails, DrawInv, DrawTypes, Apart
  <2> QED
    BY <1>2, <2>1, <2>2 DEF DrawableCreated
<1>4. CASE UNCHANGED drawableVars
  BY <1>4 DEF drawableVars, DrawInv, DrawTypes, Apart
<1>5. CASE Object \/ ReleaseObject \/ UNCHANGED nineVars
  BY <1>4, <1>5 DEF Object, ReleaseObject, nineVars
<1>6. ASSUME NEW d \in Devices, NEW k \in DOMAIN map, NEW f, CreateDevice(d, k, f)
      PROVE  DrawInv'
  BY <1>4, <1>6 DEF CreateDevice
<1>7. ASSUME NEW d \in Devices, NEW p \in Presents,
             \/ CreatePresent(d, p) \/ CreateAdditionalPresent(d, p)
             \/ D3DWindowBufferFromDmaBuf(d, p) \/ DestroyD3DWindowBuffer(d, p)
      PROVE  DrawInv'
  BY <1>4, <1>7 DEF CreatePresent, CreateAdditionalPresent, present_create,
                    D3DWindowBufferFromDmaBuf, DestroyD3DWindowBuffer
<1>8. ASSUME NEW d \in Devices, NEW p \in Presents, ReleaseSwapChain(d, p)
      PROVE  DrawInv'
  BY <1>8, ReleaseDraws DEF ReleaseSwapChain
<1>9. ASSUME NEW d \in Devices, GroupReleases(d) PROVE DrawInv'
  BY <1>9, FirstPresent, ReleaseDraws DEF GroupReleases
<1>10. ASSUME NEW d \in Devices,
              DriverCreates(d) \/ CloseDevice(d) \/ DeviceGone(d) \/ DisplayStep(d)
       PROVE  DrawInv'
  BY <1>4, <1>10 DEF DriverCreates, CloseDevice, DeviceGone, DisplayStep
<1> QED
  BY <1>1, <1>2, <1>5, <1>6, <1>7, <1>8, <1>9, <1>10 DEF Next

LEMMA DrawInit == Init => DrawInv
<1> SUFFICES ASSUME Init PROVE DrawInv
  OBVIOUS
<1>1. \A p \in Presents : d3d[p].wnd = NoWindow /\ ~d3d[p].freed
  BY DEF Init, DrawableInit, NoDrawable
<1>2. DrawTypes
  BY DEF Init, DrawableInit, DrawTypes, Pointer
<1> QED
  BY <1>1, <1>2 DEF DrawInv, Apart

\* However many threads look for, create, present to and release drawables,
\* also while the lock is free in get_d3d_drawable: a drawable is freed
\* under somebody only after two presentation objects shared a window, which
\* is what replacing it in PresentBuffer relies on (present.c:1049).
THEOREM FreedOnlyWhenShared == Spec => []NoFreedDrawable
<1>1. Init => MapInv /\ OutliveInv /\ DrawInv
  BY MapInvInit, OutliveInit, DrawInit
<1>2. MapInv /\ OutliveInv /\ DrawInv /\ [Next]_nineVars => MapInv' /\ OutliveInv' /\ DrawInv'
  BY MapInvStep, OutliveStep, DrawStep
<1>3. DrawInv => NoFreedDrawable
  BY DEF DrawInv, Apart, NoFreedDrawable
<1> QED
  BY <1>1, <1>2, <1>3, PTL DEF Spec

---------------------------------------------------------------------------
(* The backends and what uses them. *)

DisplayTypes ==
  /\ display \in {"none", "down", "up"} /\ displayRef \in Int
  /\ call \in [Devices -> {"none"} \cup InitSteps \cup DeinitSteps]
  /\ context \subseteq Backends /\ doubled \subseteq Backends /\ spoiled \subseteq Backends
  /\ overlapped \in BOOLEAN
  /\ pixmaps \in [Backends -> SUBSET Presents]

\* The driver's code is asked for before an object is made.
LoadRight ==
  /\ loaded \in {"no", "yes", "failed"}
  /\ loaded # "yes" => object = "none"

\* What is allocated belongs to a device, and so does a call on its way.
Owned ==
  /\ \A p \in Presents : backend[p] # 0 => \E d \in Devices : p \in Held(d)
  /\ buffers \subseteq Presents
  /\ \A p \in buffers : \E d \in Devices : p \in device[d].swapchains
  /\ \A d \in Devices : In(d, {"none"}) => Idle(d)

UsesDri2(p) == backend[p] # 0 /\ kind[backend[p]] = "dri2"
Dri2Users == {p \in Presents : UsesDri2(p)}

OneCall == \A d, e \in Devices : ~Idle(d) /\ ~Idle(e) => d = e

\* Without a display there is nothing to count.
RefRight == displayRef \in Nat /\ (display = "none" => displayRef = 0)

\* The steps of a call that the count knows of, and the users do not.
Counting == {"initialize", "context", "uncount"}

\* A failed dri2_init leaves a user too many, never one too few.
UsersCounted ==
  /\ displayRef >= Cardinality(Dri2Users)
  /\ \A d \in Devices :
       /\ call[d] \in Counting => displayRef >= Cardinality(Dri2Users) + 1
       /\ call[d] = "terminate" => displayRef = 0
       /\ call[d] = "count" => display # "none"

\* What the only user of a backend finds on its list.
Listed(p) ==
  backend[p] \notin doubled =>
    /\ p \in buffers => p \in pixmaps[backend[p]]
    /\ \A q \in Presents \ {p} : backend[q] # backend[p]

\* What it has of the display, which no init that failed has terminated.
Kept(p) ==
  ~overlapped /\ backend[p] \notin doubled \cup spoiled =>
    backend[p] \in context /\ display = "up"

BackendInv ==
  /\ DisplayTypes /\ IsFiniteSet(Dri2Users)
  /\ ~overlapped => OneCall /\ RefRight /\ UsersCounted
  /\ \A p \in Presents : UsesDri2(p) => Listed(p) /\ Kept(p)

UseInv == BackendInv /\ LoadRight /\ Owned

LEMMA UseInit == Init => UseInv
<1> SUFFICES ASSUME Init PROVE UseInv
  OBVIOUS
<1>1. DisplayTypes /\ RefRight /\ \A d \in Devices : Idle(d)
  <2>1. display = "none" /\ displayRef = 0 /\ context = {} /\ doubled = {} /\ spoiled = {}
    BY DEF Init, BackendInit
  <2>2. overlapped = FALSE /\ overlapped \in BOOLEAN
    BY DEF Init, BackendInit
  <2>3. call \in [Devices -> {"none"} \cup InitSteps \cup DeinitSteps]
        /\ \A d \in Devices : call[d] = "none"
    BY DEF Init, BackendInit
  <2>4. pixmaps = [b \in Backends |-> {}]
    BY DEF Init, BackendInit
  <2>5. pixmaps \in [Backends -> SUBSET Presents]
    BY <2>4
  <2> QED
    BY <2>1, <2>2, <2>3, <2>5 DEF DisplayTypes, RefRight, Idle
<1>2. \A p \in Presents : ~UsesDri2(p)
  BY DEF Init, UsesDri2
<1>3. Dri2Users = {}
  BY <1>2 DEF Dri2Users
<1>4. IsFiniteSet(Dri2Users) /\ UsersCounted
  BY <1>1, <1>3, FS_EmptySet DEF UsersCounted, RefRight, Idle, Counting
<1>5. LoadRight
  BY DEF Init, AdapterInit, LoadRight
<1>6. Owned
  BY <1>1 DEF Init, Owned
<1> QED
  BY <1>1, <1>2, <1>4, <1>5, <1>6 DEF UseInv, BackendInv, OneCall

\* What a device holds works with a backend that there is.
LEMMA HeldBackend ==
  ASSUME MapInv, OutliveInv, NEW d \in Devices, NEW p \in Held(d)
  PROVE  /\ p \in Presents /\ ~In(d, {"none"}) /\ presRefs[p] = References(d, p)
         /\ backend[p] \in Backends /\ backend[p] # 0 /\ kind[backend[p]] \in {"dri3", "dri2"}
<1>1. DeviceRight(d) /\ p \in Presents
  BY RecordTypes DEF OutliveInv, Owners
<1>2. ~In(d, {"none"})
  BY <1>1 DEF DeviceRight, Held, Range
<1>3. /\ presRefs[p] = References(d, p) /\ backend[p] = groups[device[d].group].backend
      /\ device[d].group \in 1..Len(groups) /\ groups[device[d].group].noutputs > 0
  BY <1>1, <1>2 DEF DeviceRight, BackendOf
<1>4. backend[p] \in Backends /\ kind[backend[p]] # "none"
  BY <1>3 DEF MapInv, GroupsMade
<1>5. kind[backend[p]] \in {"none", "dri3", "dri2"}
  BY <1>4 DEF MapInv, GroupsMade
<1> QED
  BY <1>1, <1>2, <1>3, <1>4, <1>5, AdapterAssumption

LEMMA BufferHeld ==
  ASSUME MapInv, OutliveInv, Owned, NEW p \in buffers
  PROVE  p \in Presents /\ backend[p] # 0 /\ \E d \in Devices : p \in device[d].swapchains /\ p \in Held(d)
  BY HeldBackend DEF Owned, Held

LEMMA BackendSame ==
  ASSUME BackendInv, UNCHANGED <<eglVars, kind, pixmaps, pastVars, backend, buffers>>
  PROVE  BackendInv'
<1>1. DisplayTypes' /\ (RefRight' <=> RefRight) /\ (OneCall' <=> OneCall)
  BY DEF BackendInv, DisplayTypes, RefRight, OneCall, Idle, eglVars, pastVars
<1>2. \A p : (UsesDri2(p)' <=> UsesDri2(p)) /\ (Listed(p)' <=> Listed(p)) /\ (Kept(p)' <=> Kept(p))
  BY DEF UsesDri2, Listed, Kept, eglVars, pastVars
<1>3. Dri2Users' = Dri2Users
  BY <1>2 DEF Dri2Users
<1>4. UsersCounted' <=> UsersCounted
  BY <1>3 DEF UsersCounted, eglVars
<1> QED
  BY <1>1, <1>2, <1>3, <1>4 DEF BackendInv, pastVars

LEMMA OwnedSame ==
  ASSUME Owned, UNCHANGED <<device, backend, buffers, call>>
  PROVE  Owned'
  BY DEF Owned, Held, In, Idle

\* Without the object there are no users.
LEMMA BackendAlone ==
  ASSUME OutliveInv', Owned', DisplayTypes', ~overlapped' => RefRight', object' # "ready"
  PROVE  BackendInv'
<1>1. \A d \in Devices : In(d, {"none"})'
  BY DEF OutliveInv, RefsRight
<1>2. \A d \in Devices : device'[d].presents = <<>> /\ device'[d].swapchains = {}
  BY <1>1 DEF OutliveInv, Owners, DeviceRight
<1>3. \A d \in Devices : Held(d)' = {} /\ Idle(d)'
  BY <1>1, <1>2 DEF Held, Range, Owned
<1>4. \A p \in Presents : ~UsesDri2(p)'
  BY <1>3 DEF Owned, UsesDri2
<1>5. Dri2Users' = {}
  BY <1>4 DEF Dri2Users
<1>6. IsFiniteSet(Dri2Users') /\ (~overlapped' => UsersCounted')
  BY <1>3, <1>5, FS_EmptySet DEF UsersCounted, RefRight, Idle, Counting
<1>7. OneCall'
  BY <1>3 DEF OneCall
<1> QED
  BY <1>4, <1>6, <1>7 DEF BackendInv

\* backend_probe comes before there is an object.
LEMMA ProbeUses ==
  ASSUME DisplayTypes, ~overlapped => RefRight, NEW found \in BOOLEAN, backend_probe(found),
         UNCHANGED <<pixmaps, pastVars>>
  PROVE  DisplayTypes' /\ (~overlapped' => RefRight') /\ UNCHANGED <<call, overlapped>>
<1>1. \/ UNCHANGED eglVars
      \/ /\ display' \in {"down", "up"} /\ displayRef' = displayRef + 1 /\ UNCHANGED <<context, call>>
  <2>1. PICK k \in Creatable :
          CASE k = "none" -> ~found /\ UNCHANGED eglVars
            [] k = "dri3" -> found /\ UNCHANGED eglVars
            [] k = "dri2" ->
                 /\ \/ /\ found \/ "init" \in Failures
                       /\ displayRef' = displayRef + 1
                       /\ display' = IF found THEN "up" ELSE "down"
                    \/ ~found /\ "display" \in Failures /\ UNCHANGED <<display, displayRef>>
                 /\ UNCHANGED <<context, call>>
    BY DEF backend_probe
  <2>2. k \in {"none", "dri3", "dri2"}
    BY UsableAssumption DEF Creatable, Preferred
  <2>3. CASE k \in {"none", "dri3"}
    BY <2>1, <2>3
  <2>4. CASE k = "dri2"
    BY <2>1, <2>4 DEF eglVars
  <2> QED
    BY <2>2, <2>3, <2>4
<1> QED
  BY <1>1 DEF DisplayTypes, RefRight, eglVars, pastVars

\* The object: while its groups are made there is no user.
LEMMA ObjectUses ==
  ASSUME MapInv, OutliveInv, OutliveInv', UseInv, Object
  PROVE  UseInv'
<1>0. /\ UNCHANGED <<device, backend, buffers>>
      /\ DisplayTypes /\ (~overlapped => RefRight) /\ LoadRight /\ Owned
  BY DEF Object, groupVars, UseInv, BackendInv
<1>1. CASE LoadDriver
  <2>1. /\ loaded = "no" /\ UNCHANGED <<kind, pixmaps, pastVars, object>>
        /\ loaded' \in {"yes", "failed"}
    BY <1>1 DEF LoadDriver
  <2>2. object = "none" /\ LoadRight'
    BY <1>0, <2>1 DEF LoadRight
  <2>3. UNCHANGED eglVars \/ \E found \in BOOLEAN : backend_probe(found)
    BY <1>1 DEF LoadDriver
  <2>4. DisplayTypes' /\ (~overlapped' => RefRight') /\ UNCHANGED call
    <3>1. CASE UNCHANGED eglVars
      BY <1>0, <2>1, <3>1 DEF DisplayTypes, RefRight, eglVars, pastVars
    <3>2. ASSUME NEW found \in BOOLEAN, backend_probe(found)
          PROVE  DisplayTypes' /\ (~overlapped' => RefRight') /\ UNCHANGED call
      BY <1>0, <2>1, <3>2, ProbeUses
    <3> QED
      BY <2>3, <3>1, <3>2
  <2>5. Owned'
    BY <1>0, <2>4, OwnedSame
  <2> QED
    BY <2>1, <2>2, <2>4, <2>5, BackendAlone DEF UseInv
<1>2. CASE New \/ MapGroup
  <2>1. /\ UNCHANGED <<eglVars, kind, pixmaps, pastVars, loaded>>
        /\ object' \in {"filling", "mapping", "ready"}
    BY <1>2 DEF New, MapGroup, backendVars
  <2>2. LoadRight'
    BY <1>0, <1>2, <2>1 DEF LoadRight, New, MapGroup
  <2>3. Owned'
    BY <1>0, <2>1, OwnedSame DEF eglVars
  <2> QED
    BY <1>0, <2>1, <2>2, <2>3, BackendSame DEF UseInv
<1>3. CASE FillGroup
  <2>1. /\ UNCHANGED <<display, displayRef, call, pastVars, loaded, object>>
        /\ object = "filling"
    BY <1>3 DEF FillGroup
  <2>2. PICK b \in Backends : /\ context' = context \ {b}
                              /\ pixmaps' = [pixmaps EXCEPT ![b] = {}]
    BY <1>3 DEF FillGroup, backend_create
  <2>3. DisplayTypes' /\ (~overlapped' => RefRight')
    BY <1>0, <2>1, <2>2 DEF DisplayTypes, RefRight, pastVars
  <2>4. LoadRight' /\ Owned'
    BY <1>0, <2>1, OwnedSame DEF LoadRight
  <2> QED
    BY <2>1, <2>3, <2>4, BackendAlone DEF UseInv
<1>4. CASE FillFails \/ FillEnd
  <2>1. UNCHANGED <<eglVars, pixmaps, pastVars, loaded>> /\ object = "filling"
    BY <1>4 DEF FillFails, FillEnd
  <2>2. object' \in {"none", "filling", "mapping"}
    BY <1>4, <2>1 DEF FillFails, FillEnd, Release, Destroyed
  <2>3. DisplayTypes' /\ (~overlapped' => RefRight') /\ LoadRight'
    BY <1>0, <2>1 DEF DisplayTypes, RefRight, LoadRight, eglVars, pastVars
  <2>4. Owned'
    BY <1>0, <2>1, OwnedSame DEF eglVars
  <2> QED
    BY <2>2, <2>3, <2>4, BackendAlone DEF UseInv
<1> QED
  BY <1>1, <1>2, <1>3, <1>4 DEF Object, AdapterNext

\* The object goes, or one of the references to it.
LEMMA ReleaseUses ==
  ASSUME OutliveInv', UseInv, Owned', UNCHANGED <<eglVars, pixmaps, pastVars, loaded, backend, buffers>>,
         UNCHANGED <<kind, object>> \/ Destroyed
  PROVE  UseInv'
<1>1. DisplayTypes' /\ (~overlapped' => RefRight') /\ LoadRight'
  BY DEF UseInv, BackendInv, DisplayTypes, RefRight, LoadRight, eglVars, pastVars, Destroyed
<1>2. CASE UNCHANGED <<kind, object>>
  BY <1>1, <1>2, BackendSame DEF UseInv
<1>3. CASE Destroyed
  BY <1>1, <1>3, BackendAlone DEF UseInv, Destroyed
<1> QED
  BY <1>2, <1>3

---------------------------------------------------------------------------
(* The steps of dri2_init and dri2_deinit. *)

\* A device that goes on alone is the only one that is in such a call.
LEMMA GoesAlone ==
  ASSUME DisplayTypes, NEW d \in Devices, NEW x, Goes(d, x)
  PROVE  /\ call'[d] = x /\ \A e \in Devices \ {d} : call'[e] = call[e]
         /\ OneCall /\ ~Idle(d) => OneCall' /\ \A e \in Devices \ {d} : Idle(e) /\ Idle(e)'
<1>1. call'[d] = x /\ \A e \in Devices \ {d} : call'[e] = call[e]
  BY DEF DisplayTypes, Goes
<1>2. ASSUME OneCall, ~Idle(d) PROVE OneCall' /\ \A e \in Devices \ {d} : Idle(e) /\ Idle(e)'
  <2>1. \A e \in Devices \ {d} : Idle(e) /\ Idle(e)'
    BY <1>1, <1>2 DEF OneCall, Idle
  <2> QED
    BY <2>1 DEF OneCall
<1> QED
  BY <1>1, <1>2

LEMMA EntersAlone ==
  ASSUME DisplayTypes, NEW d \in Devices, NEW x \in InitSteps \cup DeinitSteps, Enters(d, x)
  PROVE  /\ call' \in [Devices -> {"none"} \cup InitSteps \cup DeinitSteps]
         /\ overlapped' \in BOOLEAN
         /\ Idle(d) /\ call'[d] = x /\ \A e \in Devices \ {d} : call'[e] = call[e]
         /\ ~overlapped' => /\ ~overlapped /\ OneCall'
                            /\ \A e \in Devices \ {d} : Idle(e) /\ Idle(e)'
<1>1. /\ Goes(d, x) /\ Idle(d)
      /\ overlapped' = (overlapped \/ \E e \in Devices \ {d} : ~Idle(e))
  BY DEF Enters
<1>2. call'[d] = x /\ \A e \in Devices \ {d} : call'[e] = call[e]
  BY <1>1, GoesAlone
<1>3. overlapped' \in BOOLEAN
  BY <1>1 DEF DisplayTypes
<1>4. call' \in [Devices -> {"none"} \cup InitSteps \cup DeinitSteps]
  BY <1>1 DEF DisplayTypes, Goes
<1>5. ASSUME ~overlapped'
      PROVE  /\ ~overlapped /\ OneCall'
             /\ \A e \in Devices \ {d} : Idle(e) /\ Idle(e)'
  <2>1. ~overlapped /\ \A e \in Devices \ {d} : Idle(e)
    BY <1>1, <1>5
  <2>2. \A e \in Devices \ {d} : Idle(e)'
    BY <1>2, <2>1 DEF Idle
  <2> QED
    BY <2>1, <2>2 DEF OneCall
<1> QED
  BY <1>1, <1>2, <1>3, <1>4, <1>5

\* What one thread stores is not lost when no other is at the count.
LEMMA CountsAlone ==
  ASSUME NEW d \in Devices, NEW n, Counts(d, n), \A e \in Devices \ {d} : Idle(e)
  PROVE  displayRef' = displayRef + n
  BY DEF Counts, Idle

LEMMA UsersNumber ==
  ASSUME BackendInv
  PROVE  IsFiniteSet(Dri2Users) /\ Cardinality(Dri2Users) \in Nat
  BY FS_CardinalityType DEF BackendInv

\* A step between the first and the last of a call leaves the users and what
\* they have alone; the last of dri2_deinit has none to leave.
LEMMA DisplayStepUses ==
  ASSUME BackendInv, NEW d \in Devices, DisplayStep(d)
  PROVE  BackendInv'
<1>0. /\ UNCHANGED <<kind, pixmaps, pastVars, buffers, backend>>
      /\ CountDisplay(d) \/ InitializeDisplay(d) \/ Uncount(d) \/ TerminateDisplay(d)
      /\ DisplayTypes /\ IsFiniteSet(Dri2Users) /\ Cardinality(Dri2Users) \in Nat
  BY UsersNumber DEF DisplayStep, groupVars, BackendInv
<1>1. /\ Dri2Users' = Dri2Users /\ overlapped' = overlapped
      /\ \A p : (UsesDri2(p)' <=> UsesDri2(p)) /\ (Listed(p)' <=> Listed(p))
  BY <1>0 DEF Dri2Users, UsesDri2, Listed, pastVars
<1>2. PICK x \in {"none"} \cup InitSteps \cup DeinitSteps : Goes(d, x) /\ ~Idle(d)
  BY <1>0 DEF CountDisplay, InitializeDisplay, Uncount, TerminateDisplay, InitSteps, DeinitSteps, Idle
<1>3. DisplayTypes'
  <2>1. call' \in [Devices -> {"none"} \cup InitSteps \cup DeinitSteps]
    BY <1>0, <1>2 DEF DisplayTypes, Goes
  <2>2. displayRef' \in Int
    BY <1>0 DEF DisplayTypes, CountDisplay, InitializeDisplay, Uncount, TerminateDisplay, Counts
  <2>3. display' \in {"none", "down", "up"} /\ context' \subseteq Backends
    BY <1>0 DEF DisplayTypes, CountDisplay, InitializeDisplay, Uncount, TerminateDisplay
  <2> QED
    BY <1>0, <2>1, <2>2, <2>3 DEF DisplayTypes, pastVars
<1>4. ASSUME ~overlapped'
      PROVE  /\ OneCall' /\ RefRight' /\ UsersCounted'
             /\ \A p \in Presents : UsesDri2(p) => (Kept(p) => Kept(p)')
  <2>0. ~overlapped /\ OneCall /\ RefRight /\ UsersCounted
    BY <1>1, <1>4 DEF BackendInv
  <2>1. OneCall' /\ \A e \in Devices \ {d} : Idle(e) /\ Idle(e)'
    BY <1>0, <1>2, <2>0, GoesAlone
  <2>2. \A e \in Devices \ {d} : call'[e] = "none"
    BY <2>1 DEF Idle
  <2>3. /\ displayRef >= Cardinality(Dri2Users)
        /\ call[d] \in Counting => displayRef >= Cardinality(Dri2Users) + 1
        /\ call[d] = "terminate" => displayRef = 0
        /\ call[d] = "count" => display # "none"
    BY <2>0 DEF UsersCounted
  <2>4. ASSUME displayRef' >= Cardinality(Dri2Users),
               call'[d] \in Counting => displayRef' >= Cardinality(Dri2Users) + 1,
               call'[d] = "terminate" => displayRef' = 0, call'[d] # "count"
        PROVE  UsersCounted'
    BY <1>1, <2>2, <2>4 DEF UsersCounted, Counting
  <2>5. ASSUME UNCHANGED context, display' = display \/ display' = "up"
        PROVE  \A p \in Presents : Kept(p) => Kept(p)'
    BY <1>0, <2>5 DEF Kept, pastVars
  <2>6. CASE CountDisplay(d)
    <3>1. displayRef' = displayRef + 1 /\ call'[d] = "initialize" /\ UNCHANGED <<display, context>>
      <4>1. Counts(d, 1) /\ Goes(d, "initialize") /\ UNCHANGED <<display, context>>
        BY <2>6 DEF CountDisplay
      <4>2. displayRef' = displayRef + 1
        BY <2>1, <4>1, CountsAlone
      <4>3. call'[d] = "initialize"
        BY <1>0, <4>1 DEF Goes, DisplayTypes
      <4> QED
        BY <4>1, <4>2, <4>3
    <3>2. display # "none"
      BY <2>3, <2>6 DEF CountDisplay
    <3>3. RefRight'
      BY <2>0, <3>1, <3>2 DEF RefRight
    <3>4. UsersCounted'
      BY <1>0, <2>0, <2>3, <2>4, <3>1 DEF RefRight
    <3> QED
      BY <2>1, <2>5, <3>1, <3>3, <3>4
  <2>7. CASE InitializeDisplay(d)
    <3>1. /\ call'[d] = "context" /\ UNCHANGED <<displayRef, context>> /\ display' = "up"
          /\ call[d] \in Counting
      BY <1>0, <2>7, GoesAlone DEF InitializeDisplay, Counting
    <3>2. RefRight' /\ UsersCounted'
      BY <2>0, <2>3, <2>4, <3>1 DEF RefRight
    <3> QED
      BY <2>1, <2>5, <3>1, <3>2
  <2>8. CASE Uncount(d)
    <3>1. displayRef >= Cardinality(Dri2Users) + 1 /\ displayRef \in Nat /\ display # "none"
      BY <1>0, <2>0, <2>3, <2>8 DEF Uncount, Counting, RefRight
    <3>2. /\ displayRef' = displayRef - 1 /\ UNCHANGED <<display, context>>
          /\ call'[d] = IF displayRef = 1 THEN "terminate" ELSE "none"
      <4>1. /\ Counts(d, -1) /\ UNCHANGED <<display, context>>
            /\ Goes(d, IF displayRef = 1 THEN "terminate" ELSE "none")
        BY <2>8, <3>1 DEF Uncount
      <4>2. displayRef' = displayRef + (-1)
        BY <2>1, <4>1, CountsAlone
      <4>3. call'[d] = IF displayRef = 1 THEN "terminate" ELSE "none"
        BY <1>0, <4>1 DEF Goes, DisplayTypes
      <4>4. displayRef' = displayRef - 1
        BY ONLY <3>1, <4>2
      <4> QED
        BY <4>1, <4>3, <4>4
    <3>3. RefRight'
      BY <1>0, <3>1, <3>2 DEF RefRight
    <3>4. UsersCounted'
      BY <1>0, <2>4, <3>1, <3>2 DEF Counting
    <3> QED
      BY <2>1, <2>5, <3>2, <3>3, <3>4
  <2>9. CASE TerminateDisplay(d)
    <3>1. /\ displayRef = 0 /\ display' = "none" /\ call'[d] = "none" /\ UNCHANGED displayRef
      BY <1>0, <2>3, <2>9, GoesAlone DEF TerminateDisplay
    <3>2. Cardinality(Dri2Users) = 0
      BY <1>0, <2>3, <3>1
    <3>3. Dri2Users = {}
      BY <1>0, <3>2, FS_EmptySet
    <3>4. RefRight' /\ UsersCounted'
      BY <2>4, <3>1, <3>2 DEF RefRight, Counting
    <3> QED
      BY <2>1, <3>3, <3>4 DEF Dri2Users
  <2> QED
    BY <1>0, <2>6, <2>7, <2>8, <2>9
<1>5. ASSUME NEW p \in Presents, UsesDri2(p)' PROVE Listed(p)' /\ Kept(p)'
  <2>1. UsesDri2(p) /\ Listed(p) /\ Kept(p)
    BY <1>1, <1>5 DEF BackendInv
  <2>2. CASE overlapped'
    BY <1>1, <2>1, <2>2 DEF Kept
  <2>3. CASE ~overlapped'
    BY <1>1, <1>4, <2>1, <2>3
  <2> QED
    BY <2>2, <2>3
<1> QED
  BY <1>0, <1>1, <1>3, <1>4, <1>5 DEF BackendInv

\* dri2_init begins: what the users have stays.
LEMMA GetDisplayUses ==
  ASSUME BackendInv, NEW d \in Devices, GetDisplay(d),
         UNCHANGED <<kind, pixmaps, doubled, spoiled, backend, buffers>>
  PROVE  BackendInv'
<1>0. /\ Enters(d, "count") /\ display' = (IF display = "none" THEN "down" ELSE display)
      /\ UNCHANGED <<displayRef, context>> /\ DisplayTypes
      /\ "count" \in InitSteps /\ "count" \notin Counting
  BY DEF GetDisplay, BackendInv, InitSteps, Counting
<1>1. /\ call' \in [Devices -> {"none"} \cup InitSteps \cup DeinitSteps] /\ overlapped' \in BOOLEAN
      /\ call'[d] = "count" /\ \A e \in Devices \ {d} : call'[e] = call[e]
      /\ ~overlapped' => ~overlapped /\ OneCall' /\ \A e \in Devices \ {d} : Idle(e) /\ Idle(e)'
  BY <1>0, EntersAlone
<1>2. DisplayTypes'
  BY <1>0, <1>1 DEF DisplayTypes
<1>3. /\ Dri2Users' = Dri2Users
      /\ \A p : (UsesDri2(p)' <=> UsesDri2(p)) /\ (Listed(p)' <=> Listed(p))
  BY DEF Dri2Users, UsesDri2, Listed
<1>4. ASSUME ~overlapped' PROVE RefRight' /\ UsersCounted'
  <2>1. RefRight /\ UsersCounted
    BY <1>1, <1>4 DEF BackendInv
  <2>2. \A e \in Devices : call'[e] \in {"count", "none"}
    BY <1>1, <1>4 DEF Idle
  <2> QED
    BY <1>0, <1>3, <2>1, <2>2 DEF RefRight, UsersCounted, Counting
<1>5. ASSUME NEW p \in Presents, UsesDri2(p)' PROVE Listed(p)' /\ Kept(p)'
  <2>1. Listed(p) /\ Kept(p)
    BY <1>3, <1>5 DEF BackendInv
  <2>2. Kept(p)'
    BY <1>0, <1>1, <2>1 DEF Kept
  <2> QED
    BY <1>3, <2>1, <2>2
<1>6. IsFiniteSet(Dri2Users')
  BY <1>3 DEF BackendInv
<1> QED
  BY <1>1, <1>2, <1>4, <1>5, <1>6 DEF BackendInv

\* The end of present_create: one more user, which has its backend for
\* itself or makes it one that is shared.
LEMMA ContextUses ==
  ASSUME BackendInv, Owned, MapInv, OutliveInv, NEW d \in Devices, NEW p \in Presents,
         backend[p] = 0, NEW b \in Backends, kind[b] = "dri2",
         CreateContext(d, b, UsedBeside(p)), Initialized(p, b), UNCHANGED <<kind, pixmaps, buffers>>
  PROVE  BackendInv'
<1>0. /\ call[d] = "context" /\ display = "up" /\ display' = "up" /\ context' = context \cup {b}
      /\ Goes(d, "none") /\ doubled' = doubled \cup ({b} \cap UsedBeside(p))
      /\ UNCHANGED <<displayRef, spoiled, overlapped>> /\ DisplayTypes
  BY DEF CreateContext, BackendInv
<1>1. b # 0 /\ p \notin buffers /\ backend \in [Presents -> Backends \cup {0}]
  BY AdapterAssumption, BufferHeld DEF OutliveInv, OwnerTypes
<1>2. /\ backend'[p] = b /\ \A q \in Presents \ {p} : backend'[q] = backend[q]
      /\ \A q \in Presents \ {p} : backend[q] = b => b \in UsedBeside(p)
  BY <1>1 DEF Initialized, UsedBeside
<1>3. UsesDri2(p)' /\ ~UsesDri2(p) /\ \A q \in Presents \ {p} : UsesDri2(q)' <=> UsesDri2(q)
  BY <1>1, <1>2 DEF UsesDri2
<1>4. /\ Dri2Users' = Dri2Users \cup {p} /\ p \notin Dri2Users
      /\ IsFiniteSet(Dri2Users) /\ Cardinality(Dri2Users) \in Nat
  BY <1>3, UsersNumber DEF Dri2Users
<1>5. IsFiniteSet(Dri2Users') /\ Cardinality(Dri2Users') = Cardinality(Dri2Users) + 1
  BY <1>4, FS_AddElement
<1>6. /\ call'[d] = "none" /\ \A e \in Devices \ {d} : call'[e] = call[e]
      /\ OneCall => OneCall' /\ \A e \in Devices \ {d} : Idle(e)'
  BY <1>0, GoesAlone DEF Idle
<1>7. DisplayTypes'
  <2>1. call' \in [Devices -> {"none"} \cup InitSteps \cup DeinitSteps]
    BY <1>0 DEF DisplayTypes, Goes
  <2> QED
    BY <1>0, <2>1 DEF DisplayTypes
<1>8. ASSUME ~overlapped' PROVE OneCall' /\ RefRight' /\ UsersCounted'
  <2>1. OneCall /\ RefRight /\ UsersCounted
    BY <1>0, <1>8 DEF BackendInv
  <2>2. displayRef >= Cardinality(Dri2Users) + 1
    BY <1>0, <2>1 DEF UsersCounted, Counting
  <2>3. \A e \in Devices : call'[e] = "none"
    BY <1>6, <2>1 DEF Idle
  <2>4. UsersCounted'
    BY <1>0, <1>5, <2>2, <2>3 DEF UsersCounted, Counting
  <2> QED
    BY <1>0, <1>6, <2>1, <2>4 DEF RefRight
<1>9. ASSUME NEW q \in Presents, UsesDri2(q)' PROVE Listed(q)' /\ Kept(q)'
  <2>1. CASE q = p
    BY <1>0, <1>1, <1>2, <2>1 DEF Listed, Kept
  <2>2. CASE q # p
    <3>1. Listed(q) /\ Kept(q) /\ backend'[q] = backend[q]
      BY <1>2, <1>3, <1>9, <2>2 DEF BackendInv
    <3>2. backend[q] \notin doubled' => backend[q] \notin doubled /\ backend[q] # b
      BY <1>0, <1>2, <2>2
    <3>3. Listed(q)'
      BY <1>2, <2>2, <3>1, <3>2 DEF Listed
    <3>4. Kept(q)'
      BY <1>0, <3>1, <3>2 DEF Kept
    <3> QED
      BY <3>3, <3>4
  <2> QED
    BY <2>1, <2>2
<1> QED
  BY <1>5, <1>7, <1>8, <1>9 DEF BackendInv

\* An object on a backend of DRI3 concerns none of DRI2.
LEMMA Dri3Uses ==
  ASSUME BackendInv, OutliveInv, NEW p \in Presents, backend[p] = 0,
         NEW b \in Backends, kind[b] = "dri3", Initialized(p, b),
         UNCHANGED <<eglVars, pastVars, kind, pixmaps, buffers>>
  PROVE  BackendInv'
<1>1. /\ backend'[p] = b /\ \A q \in Presents \ {p} : backend'[q] = backend[q]
  BY DEF Initialized, OutliveInv, OwnerTypes
<1>2. ~UsesDri2(p)' /\ ~UsesDri2(p) /\ \A q \in Presents \ {p} : UsesDri2(q)' <=> UsesDri2(q)
  BY <1>1 DEF UsesDri2
<1>3. Dri2Users' = Dri2Users
  BY <1>2 DEF Dri2Users
<1>4. DisplayTypes' /\ (RefRight' <=> RefRight) /\ (OneCall' <=> OneCall)
  BY DEF BackendInv, DisplayTypes, RefRight, OneCall, Idle, eglVars, pastVars
<1>5. UsersCounted' <=> UsersCounted
  BY <1>3 DEF UsersCounted, eglVars
<1>6. ASSUME NEW q \in Presents, UsesDri2(q)' PROVE Listed(q)' /\ Kept(q)'
  <2>1. q # p /\ backend'[q] = backend[q] /\ backend[q] # b /\ Listed(q) /\ Kept(q)
    BY <1>1, <1>2, <1>6 DEF UsesDri2, BackendInv
  <2> QED
    BY <1>1, <2>1 DEF Listed, Kept, eglVars, pastVars
<1> QED
  BY <1>3, <1>4, <1>5, <1>6 DEF BackendInv, pastVars

\* A failed init spoils the backends in use.
LEMMA InitFailsUses ==
  ASSUME BackendInv, OutliveInv, NEW d \in Devices, NEW p \in Presents, backend[p] = 0,
         InitFails(d, UsedBeside(p)), UNCHANGED <<kind, pixmaps, backend, buffers>>
  PROVE  BackendInv'
<1>0. /\ call[d] \in {"initialize", "context"}
      /\ display' = (IF display = "none" THEN "none" ELSE "down") /\ context' = {}
      /\ Goes(d, "none") /\ spoiled' = {c \in UsedBeside(p) : kind[c] = "dri2"}
      /\ UNCHANGED <<displayRef, doubled, overlapped>> /\ DisplayTypes
  BY DEF InitFails, BackendInv
<1>1. /\ Dri2Users' = Dri2Users
      /\ \A q : (UsesDri2(q)' <=> UsesDri2(q)) /\ (Listed(q)' <=> Listed(q))
  BY <1>0 DEF Dri2Users, UsesDri2, Listed
<1>2. /\ call'[d] = "none" /\ \A e \in Devices \ {d} : call'[e] = call[e]
      /\ OneCall => OneCall' /\ \A e \in Devices \ {d} : Idle(e)'
  BY <1>0, GoesAlone DEF Idle
<1>3. DisplayTypes'
  <2>1. call' \in [Devices -> {"none"} \cup InitSteps \cup DeinitSteps]
    BY <1>0 DEF DisplayTypes, Goes
  <2>2. UsedBeside(p) \subseteq Backends
    BY DEF UsedBeside, OutliveInv, OwnerTypes
  <2> QED
    BY <1>0, <2>1, <2>2 DEF DisplayTypes
<1>4. ASSUME ~overlapped' PROVE OneCall' /\ RefRight' /\ UsersCounted'
  <2>1. OneCall /\ RefRight /\ UsersCounted
    BY <1>0, <1>4 DEF BackendInv
  <2>2. \A e \in Devices : call'[e] = "none"
    BY <1>2, <2>1 DEF Idle
  <2>3. UsersCounted'
    BY <1>0, <1>1, <2>1, <2>2 DEF UsersCounted, Counting
  <2> QED
    BY <1>0, <1>2, <2>1, <2>3 DEF RefRight
<1>5. ASSUME NEW q \in Presents, UsesDri2(q)' PROVE Listed(q)' /\ Kept(q)'
  <2>1. UsesDri2(q) /\ Listed(q)
    BY <1>1, <1>5 DEF BackendInv
  <2>2. backend'[q] \in spoiled'
    BY <1>0, <2>1 DEF UsesDri2, UsedBeside
  <2> QED
    BY <1>1, <2>1, <2>2 DEF Kept
<1>6. IsFiniteSet(Dri2Users')
  BY <1>1 DEF BackendInv
<1> QED
  BY <1>3, <1>4, <1>5, <1>6 DEF BackendInv

LEMMA present_createUses ==
  ASSUME BackendInv, Owned, MapInv, OutliveInv, NEW d \in Devices, NEW p \in Presents,
         NEW b \in Backends, kind[b] # "none", NEW ok, NEW failed,
         present_create(d, p, b, ok, failed)
  PROVE  BackendInv'
<1>1. backend[p] = 0 /\ UNCHANGED <<kind, pixmaps, buffers>>
  BY DEF present_create
<1>2. CASE kind[b] = "dri3" /\ UNCHANGED <<eglVars, pastVars>> /\ Initialized(p, b)
  BY <1>1, <1>2, Dri3Uses
<1>3. CASE UNCHANGED <<eglVars, pastVars, backend>>
  BY <1>1, <1>3, BackendSame
<1>4. CASE GetDisplay(d) /\ UNCHANGED <<doubled, spoiled, backend>>
  BY <1>1, <1>4, GetDisplayUses
<1>5. CASE kind[b] = "dri2" /\ CreateContext(d, b, UsedBeside(p)) /\ Initialized(p, b)
  BY <1>1, <1>5, ContextUses
<1>6. CASE InitFails(d, UsedBeside(p)) /\ UNCHANGED backend
  BY <1>1, <1>6, InitFailsUses
<1> QED
  BY <1>2, <1>3, <1>4, <1>5, <1>6 DEF present_create

\* The last reference to an object: what its backend has goes, and nothing
\* of a backend with another user that is not shared.
LEMMA DeinitUses ==
  ASSUME BackendInv, Owned, MapInv, OutliveInv, NEW d \in Devices, NEW p \in Held(d),
         p \notin buffers, DRIPresent_Release(d, p)
  PROVE  BackendInv'
<1> DEFINE b == backend[p]
<1>0. /\ p \in Presents /\ b \in Backends /\ b # 0 /\ kind[b] \in {"dri3", "dri2"}
      /\ backend \in [Presents -> Backends \cup {0}] /\ UNCHANGED <<kind, buffers>>
  BY HeldBackend DEF OutliveInv, OwnerTypes, DRIPresent_Release
<1>1. CASE presRefs[p] # 1
  BY <1>0, <1>1, BackendSame DEF DRIPresent_Release
<1>2. CASE presRefs[p] = 1
  <2>1. backend' = [backend EXCEPT ![p] = 0]
    BY <1>2 DEF DRIPresent_Release
  <2>2. backend'[p] = 0 /\ \A q \in Presents \ {p} : backend'[q] = backend[q]
    BY <1>0, <2>1
  <2>3. ~UsesDri2(p)' /\ \A q \in Presents \ {p} : UsesDri2(q)' <=> UsesDri2(q)
    BY <1>0, <2>2 DEF UsesDri2
  <2>4. Dri2Users' = Dri2Users \ {p}
    BY <2>3 DEF Dri2Users
  <2>5. IsFiniteSet(Dri2Users) /\ Cardinality(Dri2Users) \in Nat /\ DisplayTypes
    BY UsersNumber DEF BackendInv
  <2>6. \A q \in Presents \ {p} : backend[q] # 0 => backend[q] \in UsedBeside(p)
    BY DEF UsedBeside
  <2>8. CASE kind[b] = "dri3"
    <3>1. UNCHANGED <<eglVars, pixmaps, pastVars>>
      BY <1>2, <2>8 DEF DRIPresent_Release
    <3>2. Dri2Users' = Dri2Users
      BY <2>4, <2>8 DEF Dri2Users, UsesDri2
    <3>3. DisplayTypes' /\ (RefRight' <=> RefRight) /\ (OneCall' <=> OneCall)
      BY <3>1 DEF BackendInv, DisplayTypes, RefRight, OneCall, Idle, eglVars, pastVars
    <3>4. UsersCounted' <=> UsersCounted
      BY <3>1, <3>2 DEF UsersCounted, eglVars
    <3>5. ASSUME NEW q \in Presents, UsesDri2(q)' PROVE Listed(q)' /\ Kept(q)'
      <4>1. q # p /\ backend'[q] = backend[q] /\ backend[q] # b /\ Listed(q) /\ Kept(q)
        BY <2>2, <2>3, <2>8, <3>5 DEF UsesDri2, BackendInv
      <4>2. b # 0 /\ backend[q] # 0 /\ \A r \in Presents \ {q} : backend'[r] = backend[r] \/ backend'[r] = 0
        BY <1>0, <2>2, <2>3, <3>5, <4>1 DEF UsesDri2
      <4> QED
        BY <1>0, <3>1, <4>1, <4>2 DEF Listed, Kept, eglVars, pastVars
    <3> QED
      BY <3>1, <3>2, <3>3, <3>4, <3>5 DEF BackendInv, pastVars
  <2>9. CASE kind[b] = "dri2"
    <3>0. /\ Enters(d, "uncount") /\ pixmaps' = [pixmaps EXCEPT ![b] = {}]
          /\ context' = context \ {b}
          /\ doubled' = doubled \cap UsedBeside(p) /\ spoiled' = spoiled \cap UsedBeside(p)
          /\ UNCHANGED <<display, displayRef>> /\ "uncount" \in DeinitSteps
      BY <1>2, <2>9 DEF DRIPresent_Release, DestroyContext, DeinitSteps
    <3>1. p \in Dri2Users
      BY <1>0, <2>9 DEF Dri2Users, UsesDri2
    <3>2. IsFiniteSet(Dri2Users') /\ Cardinality(Dri2Users') = Cardinality(Dri2Users) - 1
      BY <2>4, <2>5, <3>1, FS_RemoveElement
    <3>3. /\ call' \in [Devices -> {"none"} \cup InitSteps \cup DeinitSteps] /\ overlapped' \in BOOLEAN
          /\ call'[d] = "uncount" /\ \A e \in Devices \ {d} : call'[e] = call[e]
          /\ ~overlapped' => ~overlapped /\ OneCall' /\ \A e \in Devices \ {d} : Idle(e) /\ Idle(e)'
      BY <2>5, <3>0, EntersAlone
    <3>4. DisplayTypes'
      BY <1>0, <2>5, <3>0, <3>3 DEF DisplayTypes
    <3>5. ASSUME ~overlapped' PROVE RefRight' /\ UsersCounted'
      <4>1. RefRight /\ displayRef >= Cardinality(Dri2Users)
        BY <3>3, <3>5 DEF BackendInv, UsersCounted
      <4>2. \A e \in Devices : call'[e] \in {"uncount", "none"}
        BY <3>3, <3>5 DEF Idle
      <4>3. displayRef' >= Cardinality(Dri2Users') /\ displayRef' >= Cardinality(Dri2Users') + 1
        BY <2>5, <3>0, <3>2, <4>1 DEF RefRight
      <4>4. UsersCounted'
        BY <4>2, <4>3 DEF UsersCounted
      <4> QED
        BY <3>0, <4>1, <4>4 DEF RefRight
    <3>6. ASSUME NEW q \in Presents, UsesDri2(q)' PROVE Listed(q)' /\ Kept(q)'
      <4>1. q # p /\ UsesDri2(q) /\ backend'[q] = backend[q] /\ Listed(q) /\ Kept(q)
        BY <2>2, <2>3, <3>6 DEF BackendInv
      <4>2. /\ backend[q] \notin doubled' => backend[q] \notin doubled
            /\ backend[q] \notin spoiled' => backend[q] \notin spoiled
        BY <2>6, <3>0, <4>1 DEF UsesDri2
      <4>3. backend[q] \notin doubled => backend[q] # b
        BY <1>0, <4>1 DEF Listed
      <4>4. backend[q] # b => pixmaps'[backend[q]] = pixmaps[backend[q]]
        BY <1>0, <2>5, <3>0, <4>1 DEF UsesDri2, DisplayTypes, OutliveInv, OwnerTypes
      <4>5. Listed(q)'
        <5>1. \A r \in Presents \ {q} : backend'[r] = backend[r] \/ backend'[r] = 0
          BY <2>2
        <5> QED
          BY <1>0, <4>1, <4>2, <4>3, <4>4, <5>1 DEF Listed, UsesDri2
      <4>6. Kept(q)'
        BY <3>0, <3>3, <4>1, <4>2, <4>3 DEF Kept
      <4> QED
        BY <4>5, <4>6
    <3> QED
      BY <3>2, <3>3, <3>4, <3>5, <3>6 DEF BackendInv
  <2> QED
    BY <1>0, <2>8, <2>9
<1> QED
  BY <1>1, <1>2

\* A device's calls are no one else's.
LEMMA OthersCalls ==
  ASSUME DisplayTypes, NEW d \in Devices,
         \/ \E p, b, ok, failed : present_create(d, p, b, ok, failed)
         \/ \E p : DRIPresent_Release(d, p)
         \/ DisplayStep(d)
  PROVE  \A e \in Devices \ {d} : call'[e] = call[e]
<1>1. UNCHANGED call \/ \E x : Goes(d, x)
  BY DEF present_create, GetDisplay, CreateContext, InitFails, DRIPresent_Release, DestroyContext,
         Enters, DisplayStep, CountDisplay, InitializeDisplay, Uncount, TerminateDisplay, eglVars
<1> QED
  BY <1>1, GoesAlone

\* A backend of a device's group.
LEMMA GroupBackend ==
  ASSUME MapInv, OutliveInv, NEW d \in Devices, ~In(d, {"none"})
  PROVE  BackendOf(d) \in Backends /\ kind[BackendOf(d)] # "none"
<1>1. device[d].group \in 1..Len(groups) /\ groups[device[d].group].noutputs > 0
  BY DEF OutliveInv, Owners, DeviceRight
<1> QED
  BY <1>1 DEF MapInv, GroupsMade, BackendOf

LEMMA CreatedUses ==
  ASSUME MapInv, OutliveInv, UseInv, NEW d \in Devices, NEW p \in Presents,
         CreatePresent(d, p) \/ CreateAdditionalPresent(d, p)
  PROVE  UseInv'
<1>0. /\ device \in [Devices -> DeviceRecords] /\ device[d].presents \in Seq(Presents)
      /\ backend \in [Presents -> Backends \cup {0}] /\ ~In(d, {"none"})
  BY RecordTypes DEF OutliveInv, OwnerTypes, CreatePresent, CreateAdditionalPresent, In
<1>1. PICK ok, failed : present_create(d, p, BackendOf(d), ok, failed)
  BY DEF CreatePresent, CreateAdditionalPresent
<1>2. BackendInv'
  BY <1>0, <1>1, GroupBackend, present_createUses DEF UseInv
<1>3. UNCHANGED <<loaded, object, buffers>>
  BY <1>1 DEF present_create, adapterVars
<1>4. \A e \in Devices : /\ Held(e) \subseteq Held(e)' /\ device[e].swapchains \subseteq device'[e].swapchains
                         /\ e = d /\ backend' # backend => p \in Held(e)'
  <2>1. CASE device' = device /\ backend' = backend
    BY <2>1 DEF Held
  <2>2. CASE device' = [device EXCEPT ![d].phase = "failed"] /\ backend' = backend
    BY <1>0, <2>2 DEF Held, DeviceRecords
  <2>3. CASE device' = [device EXCEPT ![d].swapchains = @ \cup {p}]
    BY <1>0, <2>3 DEF Held, DeviceRecords
  <2>4. CASE device' = [device EXCEPT ![d].presents = Append(@, p)]
    <3> DEFINE s == device[d].presents
    <3>1. device'[d].presents = Append(s, p) /\ device'[d].swapchains = device[d].swapchains
          /\ \A e \in Devices \ {d} : device'[e] = device[e]
      BY <1>0, <2>4 DEF DeviceRecords
    <3>2. /\ DOMAIN s = 1..Len(s) /\ Len(s) \in Nat
          /\ Append(s, p) \in Seq(Presents) /\ Len(Append(s, p)) = Len(s) + 1
          /\ \A i \in 1..Len(s) : Append(s, p)[i] = s[i]
          /\ Append(s, p)[Len(s) + 1] = p
          /\ DOMAIN Append(s, p) = 1..Len(Append(s, p))
      BY <1>0, AppendProperties, LenProperties
    <3>3. Range(s) \cup {p} \subseteq Range(Append(s, p))
      BY <3>2 DEF Range
    <3> QED
      BY <3>1, <3>3 DEF Held
  <2> QED
    BY <2>1, <2>2, <2>3, <2>4 DEF CreatePresent, CreateAdditionalPresent, present_create
<1>5. \A q \in Presents : backend'[q] # 0 => backend[q] # 0 \/ (q = p /\ backend' # backend)
  BY <1>0, <1>1 DEF present_create, Initialized
<1>6. ASSUME NEW e \in Devices, In(e, {"none"})' PROVE Idle(e)'
  <2>1. /\ device'[e].phase # device[e].phase => device'[e].phase = "failed"
        /\ e # d => device'[e] = device[e]
    BY <1>0 DEF CreatePresent, CreateAdditionalPresent, present_create, DeviceRecords
  <2>2. e # d /\ In(e, {"none"})
    BY <1>0, <1>6, <2>1 DEF In
  <2>3. call'[e] = call[e]
    BY <1>1, <2>2, OthersCalls DEF UseInv, BackendInv
  <2> QED
    BY <2>2, <2>3 DEF UseInv, Owned, Idle
<1>7. Owned'
  BY <1>3, <1>4, <1>5, <1>6 DEF UseInv, Owned
<1> QED
  BY <1>2, <1>3, <1>7 DEF UseInv, LoadRight

\* A reference of device d to p goes.
LEMMA DropsUse ==
  ASSUME MapInv, OutliveInv, UseInv, NEW d \in Devices, NEW p \in Held(d), p \notin buffers,
         DRIPresent_Release(d, p), NEW v, Drops(d, p, v), device' = [device EXCEPT ![d] = v]
  PROVE  UseInv'
<1>0. /\ p \in Presents /\ presRefs[p] = References(d, p) /\ UNCHANGED <<loaded, object, buffers>>
      /\ device \in [Devices -> DeviceRecords] /\ backend \in [Presents -> Backends \cup {0}]
  BY HeldBackend DEF OutliveInv, OwnerTypes, DRIPresent_Release, adapterVars
<1>1. BackendInv' /\ LoadRight'
  BY <1>0, DeinitUses DEF UseInv, LoadRight
<1>2. device'[d] = v /\ \A e \in Devices \ {d} : device'[e] = device[e]
  BY <1>0
<1>3. \A q \in Presents \ {p}, e \in Devices :
        /\ q \in Held(e) => q \in Held(e)'
        /\ q \in device[e].swapchains => q \in device'[e].swapchains
  BY <1>2 DEF Held, Drops
<1>4. backend'[p] # 0 => p \in Held(d)'
  <2>1. CASE presRefs[p] = 1
    BY <1>0, <2>1 DEF DRIPresent_Release
  <2>2. CASE presRefs[p] # 1
    <3>1. p \in Range(device[d].presents) /\ p \in device[d].swapchains
      BY <1>0, <2>2 DEF References, Held
    <3> QED
      BY <1>2, <3>1 DEF Drops, Held
  <2> QED
    BY <2>1, <2>2
<1>5. \A q \in Presents \ {p} : backend'[q] = backend[q]
  BY <1>0 DEF DRIPresent_Release
<1>6. Owned'
  <2>1. ASSUME NEW q \in Presents, backend'[q] # 0 PROVE \E e \in Devices : q \in Held(e)'
    BY <1>3, <1>4, <1>5, <2>1 DEF UseInv, Owned
  <2>2. ASSUME NEW q \in buffers PROVE \E e \in Devices : q \in device'[e].swapchains
    BY <1>3, <2>2 DEF UseInv, Owned
  <2>3. ASSUME NEW e \in Devices, In(e, {"none"})' PROVE Idle(e)'
    <3>1. e # d /\ In(e, {"none"})
      BY <1>2, <2>3, HeldBackend DEF Drops, In
    <3>2. call'[e] = call[e]
      BY <3>1, OthersCalls DEF UseInv, BackendInv
    <3> QED
      BY <3>1, <3>2 DEF UseInv, Owned, Idle
  <2> QED
    BY <1>0, <2>1, <2>2, <2>3 DEF UseInv, Owned
<1> QED
  BY <1>1, <1>6 DEF UseInv

LEMMA SwapChainUses ==
  ASSUME MapInv, OutliveInv, UseInv, NEW d \in Devices, NEW p \in Presents, ReleaseSwapChain(d, p)
  PROVE  UseInv'
<1>1. p \notin buffers
  BY DEF ReleaseSwapChain
<1> QED
  BY <1>1, SwapChainDrops, DropsUse

LEMMA GroupUses ==
  ASSUME MapInv, OutliveInv, UseInv, NEW d \in Devices, GroupReleases(d)
  PROVE  UseInv'
<1> DEFINE p == device[d].presents[1]
<1>1. p \in Held(d) /\ DRIPresent_Release(d, p) /\ \E v : Drops(d, p, v) /\ device' = [device EXCEPT ![d] = v]
  BY GroupDrops
<1>2. device[d].swapchains = {}
  BY DEF GroupReleases
<1> HIDE DEF p
<1>3. ASSUME p \in buffers PROVE FALSE
  <2>1. PICK e \in Devices : p \in device[e].swapchains /\ p \in Held(e)
    BY <1>3, BufferHeld DEF UseInv
  <2>2. e = d
    BY <1>1, <2>1 DEF OutliveInv, Owners
  <2> QED
    BY <1>2, <2>1, <2>2
<1> QED
  BY <1>1, <1>3, DropsUse

\* A buffer is put on the list of the backend, or taken off.
LEMMA BufferUses ==
  ASSUME MapInv, OutliveInv, UseInv, NEW d \in Devices, NEW p \in Presents,
         D3DWindowBufferFromDmaBuf(d, p) \/ DestroyD3DWindowBuffer(d, p)
  PROVE  UseInv'
<1> DEFINE b == backend[p]
<1>0. /\ p \in device[d].swapchains /\ p \in Held(d) /\ b \in Backends
      /\ UNCHANGED <<eglVars, kind, pastVars, device, backend, loaded, object>>
  BY HeldBackend DEF D3DWindowBufferFromDmaBuf, DestroyD3DWindowBuffer, MayUse, Held, adapterVars
<1>1. /\ pixmaps \in [Backends -> SUBSET Presents]
      /\ \A c \in Backends \ {b} : pixmaps'[c] = pixmaps[c]
      /\ pixmaps' \in [Backends -> SUBSET Presents]
      /\ \A q \in Presents \ {p} : q \in pixmaps[b] => q \in pixmaps'[b]
      /\ \A q \in Presents \ {p} : q \in buffers' <=> q \in buffers
      /\ buffers' \subseteq buffers \cup {p}
      /\ p \in buffers' /\ kind[b] = "dri2" => p \in pixmaps'[b]
  <2>1. pixmaps \in [Backends -> SUBSET Presents]
    BY DEF UseInv, BackendInv, DisplayTypes
  <2>2. CASE D3DWindowBufferFromDmaBuf(d, p)
    BY <1>0, <2>1, <2>2 DEF D3DWindowBufferFromDmaBuf, window_buffer_from_dmabuf
  <2>3. CASE DestroyD3DWindowBuffer(d, p)
    BY <1>0, <2>1, <2>3 DEF DestroyD3DWindowBuffer, destroy_pixmap
  <2> QED
    BY <2>1, <2>2, <2>3
<1>2. Dri2Users' = Dri2Users /\ \A q : UsesDri2(q)' <=> UsesDri2(q)
  BY <1>0 DEF Dri2Users, UsesDri2
<1>3. /\ DisplayTypes' /\ (RefRight' <=> RefRight) /\ (OneCall' <=> OneCall)
      /\ UsersCounted' <=> UsersCounted
  BY <1>0, <1>1, <1>2
     DEF UseInv, BackendInv, DisplayTypes, RefRight, OneCall, Idle, UsersCounted, eglVars, pastVars
<1>4. ASSUME NEW q \in Presents, UsesDri2(q)' PROVE Listed(q)' /\ Kept(q)'
  <2>1. Listed(q) /\ Kept(q) /\ UsesDri2(q)
    BY <1>2, <1>4 DEF UseInv, BackendInv
  <2>2. ASSUME backend[q] \notin doubled, q \in buffers' PROVE q \in pixmaps'[backend[q]]
    <3>1. CASE q = p
      BY <1>1, <2>1, <2>2, <3>1 DEF UsesDri2
    <3>2. CASE q # p
      <4>1. backend[q] # b /\ backend[q] \in Backends
        BY <2>1, <2>2, <3>2 DEF Listed, UsesDri2, OutliveInv, OwnerTypes
      <4> QED
        BY <1>1, <2>1, <2>2, <3>2, <4>1 DEF Listed
    <3> QED
      BY <3>1, <3>2
  <2>3. Listed(q)'
    BY <1>0, <2>1, <2>2 DEF Listed, pastVars
  <2>4. Kept(q)'
    BY <1>0, <2>1 DEF Kept, eglVars, pastVars
  <2> QED
    BY <2>3, <2>4
<1>5. Owned'
  BY <1>0, <1>1 DEF UseInv, Owned, Held, In, Idle, eglVars
<1> QED
  BY <1>0, <1>2, <1>3, <1>4, <1>5 DEF UseInv, BackendInv, LoadRight, pastVars

LEMMA UseStep ==
  ASSUME MapInv, OutliveInv, OutliveInv', UseInv, [Next]_nineVars
  PROVE  UseInv'
<1>0. ASSUME UNCHANGED <<backendVars, loaded, object, backend, buffers>>, Owned' PROVE UseInv'
  BY <1>0, BackendSame DEF UseInv, LoadRight, backendVars
<1>1. CASE Object
  BY <1>1, ObjectUses
<1>2. CASE ReleaseObject
  <2>1. UNCHANGED <<eglVars, pixmaps, pastVars, loaded, device, backend, buffers>>
        /\ (UNCHANGED <<kind, object>> \/ Destroyed)
    BY <1>2 DEF ReleaseObject, Release, groupVars
  <2> QED
    BY <2>1, ReleaseUses, OwnedSame DEF UseInv, eglVars
<1>3. CASE UNCHANGED nineVars
  BY <1>0, <1>3, OwnedSame DEF nineVars, adapterVars, groupVars, backendVars, eglVars, UseInv
<1>4. ASSUME NEW d \in Devices, NEW p \in Presents,
             CreatePresent(d, p) \/ CreateAdditionalPresent(d, p)
      PROVE  UseInv'
  BY <1>4, CreatedUses
<1>5. ASSUME NEW d \in Devices, NEW p \in Presents,
             D3DWindowBufferFromDmaBuf(d, p) \/ DestroyD3DWindowBuffer(d, p)
      PROVE  UseInv'
  BY <1>5, BufferUses
<1>6. ASSUME NEW d \in Devices, NEW p \in Presents, ReleaseSwapChain(d, p) PROVE UseInv'
  BY <1>6, SwapChainUses
<1>7. ASSUME NEW d \in Devices, GroupReleases(d) PROVE UseInv'
  BY <1>7, GroupUses
<1>8. ASSUME NEW d \in Devices, NEW p \in Presents, NEW w \in Windows,
             UseDrawable(d, p, w) \/ DrawableCreated(p)
      PROVE  UseInv'
  BY <1>0, <1>8, OwnedSame
     DEF UseDrawable, DrawableCreated, adapterVars, groupVars, backendVars, eglVars, UseInv
<1>9. ASSUME NEW p \in Presents, DrawableCreated(p) PROVE UseInv'
  BY <1>0, <1>9, OwnedSame DEF DrawableCreated, adapterVars, groupVars, backendVars, eglVars, UseInv
<1>10. ASSUME NEW d \in Devices,
              \/ \E k \in DOMAIN map, f \in {"ADAPTERGROUP", "none"} : CreateDevice(d, k, f)
              \/ DriverCreates(d) \/ CloseDevice(d)
       PROVE  UseInv'
  <2>0. /\ device \in [Devices -> DeviceRecords] /\ DeviceRight(d)
        /\ UNCHANGED <<backendVars, loaded, object, backend, buffers>>
    BY <1>10 DEF OutliveInv, OwnerTypes, Owners, CreateDevice, DriverCreates, CloseDevice, adapterVars
  <2>1. /\ \A e \in Devices \ {d} : device'[e] = device[e]
        /\ device[d].swapchains \subseteq device'[d].swapchains
        /\ Range(device[d].presents) \subseteq Range(device'[d].presents)
        /\ ~In(d, {"none"})'
    <3>1. ASSUME NEW k, NEW f, CreateDevice(d, k, f) PROVE <2>1!:
      <4>1. device[d].swapchains = {} /\ Range(device[d].presents) = {}
        BY <2>0, <3>1 DEF CreateDevice, DeviceRight, Range
      <4> QED
        BY <2>0, <3>1, <4>1 DEF CreateDevice, In
    <3>2. CASE CloseDevice(d)
      BY <2>0, <3>2 DEF CloseDevice, DeviceRecords, In
    <3>3. CASE DriverCreates(d)
      <4>1. device[d].swapchains = {}
        BY <2>0, <3>3 DEF DriverCreates, Ready, DeviceRight, In
      <4>2. /\ \A e \in Devices \ {d} : device'[e] = device[e]
            /\ device'[d].presents = device[d].presents /\ ~In(d, {"none"})'
        BY <2>0, <3>3 DEF DriverCreates, DeviceRecords, In
      <4> QED
        BY <4>1, <4>2
    <3> QED
      BY <1>10, <3>1, <3>2, <3>3
  <2>2. \A e \in Devices : Held(e) \subseteq Held(e)' /\ device[e].swapchains \subseteq device'[e].swapchains
    BY <2>1 DEF Held
  <2>3. Owned'
    BY <2>0, <2>1, <2>2 DEF UseInv, Owned, In, Idle, backendVars, eglVars
  <2> QED
    BY <1>0, <2>0, <2>3
<1>11. ASSUME NEW d \in Devices, DeviceGone(d) PROVE UseInv'
  <2>1. /\ UNCHANGED <<eglVars, pixmaps, pastVars, loaded, backend, buffers>>
        /\ UNCHANGED <<kind, object>> \/ Destroyed
        /\ device[d].presents = <<>> /\ device[d].swapchains = {}
        /\ device' = [device EXCEPT ![d] = NoDevice] /\ Idle(d)
    BY <1>11 DEF DeviceGone, Release
  <2>2. Held(d) = {} /\ device[d].swapchains = {} /\ \A e \in Devices \ {d} : device'[e] = device[e]
    BY <2>1 DEF Held, Range, OutliveInv, OwnerTypes
  <2>3. \A e \in Devices : Held(e) \subseteq Held(e)' /\ device[e].swapchains \subseteq device'[e].swapchains
    BY <2>2 DEF Held
  <2>4. Owned'
    BY <2>1, <2>2, <2>3 DEF UseInv, Owned, In, Idle, eglVars
  <2> QED
    BY <2>1, <2>4, ReleaseUses
<1>12. ASSUME NEW d \in Devices, DisplayStep(d) PROVE UseInv'
  <2>1. BackendInv' /\ UNCHANGED <<device, backend, buffers, loaded, object>>
    BY <1>12, DisplayStepUses DEF DisplayStep, adapterVars, groupVars, UseInv
  <2>2. \A e \in Devices : In(e, {"none"}) => Idle(e)'
    <3>1. ~Idle(d) /\ \A e \in Devices \ {d} : call'[e] = call[e]
      BY <1>12, OthersCalls DEF UseInv, BackendInv, DisplayStep, CountDisplay, InitializeDisplay,
                                Uncount, TerminateDisplay, Idle
    <3> QED
      BY <3>1 DEF UseInv, Owned, Idle
  <2>3. Owned'
    BY <2>1, <2>2 DEF UseInv, Owned, Held, In
  <2> QED
    BY <2>1, <2>3 DEF UseInv, LoadRight
<1> QED
  BY <1>1, <1>2, <1>3, <1>4, <1>5, <1>6, <1>7, <1>8, <1>9, <1>10, <1>11, <1>12 DEF Next

LEMMA InvUsable == ASSUME UseInv PROVE BuffersUsable
<1>1. ASSUME NEW p \in Presents, UsesDri2(p), ~overlapped PROVE display # "none"
  <2>1. p \in Dri2Users /\ IsFiniteSet(Dri2Users) /\ Cardinality(Dri2Users) \in Nat
    BY <1>1, UsersNumber DEF Dri2Users, UseInv
  <2>2. Cardinality(Dri2Users) # 0
    BY <2>1, FS_EmptySet
  <2>3. RefRight /\ displayRef >= Cardinality(Dri2Users)
    BY <1>1 DEF UseInv, BackendInv, UsersCounted
  <2> QED
    BY <2>1, <2>2, <2>3 DEF RefRight
<1>2. ASSUME NEW p \in Presents, UsesDri2(p)
      PROVE  /\ p \in buffers /\ backend[p] \notin doubled => p \in pixmaps[backend[p]]
             /\ ~overlapped /\ backend[p] \notin doubled \cup spoiled =>
                  backend[p] \in context /\ display = "up"
  BY <1>2 DEF UseInv, BackendInv, Listed, Kept
<1> QED
  BY <1>1, <1>2 DEF UsesDri2, BuffersUsable

\* However the steps of dri2_init and dri2_deinit (dri2.c:278, 581) of any
\* number of devices interleave, a buffer of a backend with one user is on
\* its list.  Without the lock that is missing the rest holds up to the first
\* overlap of two such calls: until then the count of the users, which a
\* failed init leaves too high and never too low, keeps the display for all
\* of them, and those that no init has failed beside (dri2.c:318) have it up
\* with their context.
THEOREM BuffersStayUsable == Spec => []BuffersUsable
<1>1. Init => MapInv /\ OutliveInv /\ UseInv
  BY MapInvInit, OutliveInit, UseInit
<1>2. MapInv /\ OutliveInv /\ UseInv /\ [Next]_nineVars => MapInv' /\ OutliveInv' /\ UseInv'
  <2> SUFFICES ASSUME MapInv, OutliveInv, UseInv, [Next]_nineVars
               PROVE  MapInv' /\ OutliveInv' /\ UseInv'
    OBVIOUS
  <2>1. MapInv' /\ OutliveInv'
    BY MapInvStep, OutliveStep
  <2> QED
    BY <2>1, UseStep
<1>3. UseInv => BuffersUsable
  BY InvUsable
<1> QED
  BY <1>1, <1>2, <1>3, PTL DEF Spec

---------------------------------------------------------------------------
(* Types: no count falls below zero. *)

SizeInv ==
  /\ refs \in Nat /\ (object = "none" => refs = 0)
  /\ presRefs \in [Presents -> Nat]
  /\ \A d \in Devices : /\ In(d, {"none"}) => device[d].group = 0
                        /\ Len(device[d].presents) <= device[d].nparams

LEMMA SizeInit == Init => SizeInv
<1> SUFFICES ASSUME Init PROVE SizeInv
  OBVIOUS
<1>1. \A d \in Devices : device[d].group = 0 /\ Len(device[d].presents) <= device[d].nparams
  BY DEF Init, NoDevice
<1> QED
  BY <1>1 DEF Init, AdapterInit, SizeInv

LEMMA SizeSame ==
  ASSUME SizeInv, UNCHANGED <<refs, object, presRefs, device>>
  PROVE  SizeInv'
  BY DEF SizeInv, In

\* Without a device that changes.
LEMMA SizeObject ==
  ASSUME MapInv, OutliveInv, SizeInv, Object \/ ReleaseObject
  PROVE  SizeInv'
<1>0. UNCHANGED <<device, presRefs>>
  BY DEF Object, ReleaseObject, groupVars
<1>1. refs' \in Nat /\ (object' = "none" => refs' = 0)
  <2>1. CASE LoadDriver \/ FillGroup \/ MapGroup
    BY <2>1 DEF LoadDriver, FillGroup, MapGroup, SizeInv
  <2>2. CASE New
    BY <2>2 DEF New
  <2>3. ASSUME Release, object # "none" PROVE refs' \in Nat /\ (object' = "none" => refs' = 0)
    <3>1. object = "ready" => refs > 0
      BY DEF OutliveInv, RefsRight
    <3>2. object \in {"filling", "mapping"} => refs = 1
      BY DEF OutliveInv, RefsRight
    <3>3. object \in {"filling", "mapping", "ready"}
      BY <2>3 DEF MapInv, MapPhase
    <3>4. refs \in Nat /\ refs > 0
      BY <3>1, <3>2, <3>3 DEF SizeInv
    <3> QED
      BY <2>3, <3>4 DEF Release, Destroyed
  <2>4. CASE FillFails \/ FillEnd
    BY <2>3, <2>4 DEF FillFails, FillEnd, SizeInv
  <2>5. CASE ReleaseObject
    BY <2>3, <2>5 DEF ReleaseObject, ApplicationHolds
  <2> QED
    BY <2>1, <2>2, <2>4, <2>5 DEF Object, AdapterNext
<1> QED
  BY <1>0, <1>1 DEF SizeInv, In

\* The device d that changes is v now.
LEMMA SizeDevice ==
  ASSUME OutliveInv, SizeInv, NEW d \in Devices, NEW v, device' = [device EXCEPT ![d] = v],
         v.phase = "none" => v.group = 0, Len(v.presents) <= v.nparams,
         refs' \in Nat, object' = "none" => refs' = 0, presRefs' \in [Presents -> Nat]
  PROVE  SizeInv'
<1>1. device'[d] = v /\ \A e \in Devices \ {d} : device'[e] = device[e]
  BY DEF OutliveInv, OwnerTypes
<1> QED
  BY <1>1 DEF SizeInv, In

LEMMA DropsSize ==
  ASSUME OutliveInv, SizeInv, NEW d \in Devices, ~In(d, {"none"}), NEW p \in Held(d),
         DRIPresent_Release(d, p), NEW v, device' = [device EXCEPT ![d] = v],
         v.phase = device[d].phase, Len(v.presents) <= v.nparams
  PROVE  SizeInv'
<1>1. p \in Presents /\ presRefs[p] = References(d, p)
  BY RecordTypes DEF OutliveInv, Owners, DeviceRight
<1>2. presRefs[p] \in Nat /\ presRefs[p] >= 1
  BY <1>1 DEF References, Held
<1>3. presRefs' \in [Presents -> Nat] /\ UNCHANGED <<refs, object>>
  BY <1>1, <1>2 DEF DRIPresent_Release, SizeInv, adapterVars
<1>4. v.phase # "none" /\ refs' \in Nat /\ (object' = "none" => refs' = 0)
  BY <1>3 DEF SizeInv, In
<1> QED
  BY <1>3, <1>4, SizeDevice

LEMMA SizeStep ==
  ASSUME MapInv, OutliveInv, SizeInv, [Next]_nineVars
  PROVE  SizeInv'
<1>0. /\ device \in [Devices -> DeviceRecords] /\ refs \in Nat /\ (object = "none" => refs = 0)
      /\ presRefs \in [Presents -> Nat]
      /\ \A d \in Devices : Len(device[d].presents) <= device[d].nparams
  BY DEF OutliveInv, OwnerTypes, SizeInv
<1>1. CASE Object \/ ReleaseObject
  BY <1>1, SizeObject
<1>2. CASE UNCHANGED nineVars
  BY <1>2, SizeSame DEF nineVars, adapterVars, groupVars
<1>3. ASSUME NEW d \in Devices, NEW k \in DOMAIN map, NEW f, CreateDevice(d, k, f)
      PROVE  SizeInv'
  <2> DEFINE m == IF f = "ADAPTERGROUP" THEN AdapterGroup(k).noutputs ELSE 1
             v == [NoDevice EXCEPT !.phase = "creating", !.group = map[k].group, !.nparams = m]
  <2>1. /\ object = "ready" /\ device' = [device EXCEPT ![d] = v]
        /\ UNCHANGED <<refs, object, presRefs>>
    BY <1>3 DEF CreateDevice, ApplicationHolds, adapterVars
  <2>2. m \in Nat
    <3>1. k \in 1..Len(map) /\ EntryRight(k) /\ mapped = Len(groups) /\ Len(groups) \in Nat
      BY <2>1, LenProperties DEF MapInv, MapSoFar, MapPhase, GroupsMade
    <3>2. map[k].group \in 1..Len(groups)
      BY <3>1 DEF EntryRight
    <3> QED
      BY <3>2, OutputsNumber DEF AdapterGroup, MapInv
  <2> HIDE DEF m
  <2>3. v.phase = "creating" /\ v.nparams = m /\ v.presents = <<>>
    BY DEF NoDevice
  <2>4. Len(v.presents) <= v.nparams
    BY <2>2, <2>3
  <2> HIDE DEF v
  <2>5. v.phase # "none" /\ refs' \in Nat /\ (object' = "none" => refs' = 0)
        /\ presRefs' \in [Presents -> Nat]
    BY <1>0, <2>1, <2>3
  <2> QED
    BY <2>1, <2>4, <2>5, SizeDevice
<1>4. ASSUME NEW d \in Devices, NEW p \in Presents, CreatePresent(d, p)
      PROVE  SizeInv'
  <2> DEFINE s == device[d].presents
  <2>0. /\ UNCHANGED <<refs, object>> /\ presRefs' \in [Presents -> Nat]
        /\ s \in Seq(Presents) /\ Len(s) \in Nat /\ device[d].nparams \in Nat
        /\ Len(s) < device[d].nparams /\ device[d].phase = "creating"
    <3>1. UNCHANGED <<refs, object>> /\ presRefs' \in [Presents -> Nat]
      BY <1>0, <1>4 DEF CreatePresent, present_create, Initialized, adapterVars
    <3>2. Len(s) < device[d].nparams /\ device[d].phase = "creating"
      BY <1>4 DEF CreatePresent, In
    <3>3. s \in Seq(Presents) /\ Len(s) \in Nat /\ device[d].nparams \in Nat
      BY <1>0, RecordTypes DEF OutliveInv, DeviceRecords
    <3> QED
      BY <3>1, <3>2, <3>3
  <2>1. CASE device' = [device EXCEPT ![d].presents = Append(@, p)]
    <3> DEFINE v == [device[d] EXCEPT !.presents = Append(@, p)]
    <3>1. device' = [device EXCEPT ![d] = v] /\ v.phase = "creating" /\ v.presents = Append(s, p)
          /\ v.nparams = device[d].nparams
      BY <1>0, <2>0, <2>1 DEF DeviceRecords
    <3>2. Len(Append(s, p)) = Len(s) + 1
      BY <2>0, AppendProperties
    <3> HIDE DEF v
    <3>3. Len(v.presents) <= v.nparams /\ v.phase # "none"
      BY <2>0, <3>1, <3>2
    <3> QED
      BY <1>0, <2>0, <3>1, <3>3, SizeDevice
  <2>2. CASE device' = [device EXCEPT ![d].phase = "failed"]
    <3> DEFINE v == [device[d] EXCEPT !.phase = "failed"]
    <3>1. device' = [device EXCEPT ![d] = v] /\ v.phase # "none" /\ Len(v.presents) <= v.nparams
      BY <1>0, <2>0, <2>2 DEF DeviceRecords
    <3> QED
      BY <1>0, <2>0, <3>1, SizeDevice
  <2>3. CASE device' = device
    BY <1>0, <2>0, <2>3 DEF SizeInv, In
  <2> QED
    BY <1>4, <2>1, <2>2, <2>3 DEF CreatePresent, present_create
<1>5. ASSUME NEW d \in Devices, NEW p \in Presents, CreateAdditionalPresent(d, p)
      PROVE  SizeInv'
  <2>0. UNCHANGED <<refs, object>> /\ presRefs' \in [Presents -> Nat] /\ device[d].phase = "live"
    BY <1>0, <1>5 DEF CreateAdditionalPresent, present_create, Initialized, adapterVars, In
  <2>1. CASE device' = [device EXCEPT ![d].swapchains = @ \cup {p}]
    <3> DEFINE v == [device[d] EXCEPT !.swapchains = @ \cup {p}]
    <3>1. device' = [device EXCEPT ![d] = v] /\ v.phase # "none" /\ Len(v.presents) <= v.nparams
      BY <1>0, <2>0, <2>1 DEF DeviceRecords
    <3> QED
      BY <1>0, <2>0, <3>1, SizeDevice
  <2>2. CASE device' = device
    BY <1>0, <2>0, <2>2 DEF SizeInv, In
  <2> QED
    BY <1>5, <2>1, <2>2 DEF CreateAdditionalPresent, present_create
<1>6. ASSUME NEW d \in Devices, NEW p \in Presents,
             \/ D3DWindowBufferFromDmaBuf(d, p) \/ DestroyD3DWindowBuffer(d, p)
             \/ \E w \in Windows : UseDrawable(d, p, w)
      PROVE  SizeInv'
  BY <1>6, SizeSame DEF D3DWindowBufferFromDmaBuf, DestroyD3DWindowBuffer, UseDrawable,
                        adapterVars, groupVars
<1>7. ASSUME NEW p \in Presents, DrawableCreated(p) PROVE SizeInv'
  BY <1>7, SizeSame DEF DrawableCreated, adapterVars, groupVars
<1>8. ASSUME NEW d \in Devices, NEW p \in Presents, ReleaseSwapChain(d, p) PROVE SizeInv'
  <2> DEFINE v == [device[d] EXCEPT !.swapchains = @ \ {p}]
  <2>1. device' = [device EXCEPT ![d] = v] /\ v.phase = device[d].phase /\ Len(v.presents) <= v.nparams
    BY <1>0, <1>8 DEF ReleaseSwapChain, DeviceRecords
  <2>2. ~In(d, {"none"}) /\ p \in Held(d) /\ DRIPresent_Release(d, p)
    BY <1>8, SwapChainDrops DEF In
  <2> HIDE DEF v
  <2> QED
    BY <2>1, <2>2, DropsSize
<1>9. ASSUME NEW d \in Devices, GroupReleases(d) PROVE SizeInv'
  <2> DEFINE s == device[d].presents
             v == [device[d] EXCEPT !.presents = Tail(@)]
  <2>1. /\ s \in Seq(Presents) /\ s # <<>> /\ Len(s) \in Nat
        /\ device[d] \in DeviceRecords
    BY <1>9, RecordTypes DEF GroupReleases, OutliveInv
  <2>2. Len(Tail(s)) = Len(s) - 1
    BY <2>1, HeadTailProperties
  <2>3. device' = [device EXCEPT ![d] = v] /\ v.phase = device[d].phase
        /\ v.presents = Tail(s) /\ v.nparams = device[d].nparams /\ v.nparams \in Nat
    BY <1>0, <1>9, <2>1 DEF GroupReleases, DeviceRecords
  <2>4. Len(v.presents) <= v.nparams
    BY <1>0, <2>1, <2>2, <2>3
  <2>5. ~In(d, {"none"}) /\ s[1] \in Held(d) /\ DRIPresent_Release(d, s[1])
    BY <1>9, GroupDrops DEF In
  <2> HIDE DEF v
  <2> QED
    BY <2>3, <2>4, <2>5, DropsSize
<1>10. ASSUME NEW d \in Devices, DriverCreates(d) PROVE SizeInv'
  <2> DEFINE p == device[d].presents[1]
             v == [device[d] EXCEPT !.phase = "live", !.swapchains = {p}]
             u == [device[d] EXCEPT !.phase = "failed"]
  <2>1. presRefs' \in [Presents -> Nat] /\ refs' \in Nat /\ object' # "none"
    <3>1. object = "ready"
      BY <1>10, DeviceReady DEF DriverCreates, Ready, In
    <3> QED
      BY <1>0, <1>10, <3>1 DEF DriverCreates, GetPresent
  <2>2. \/ device' = [device EXCEPT ![d] = v] /\ v.phase # "none" /\ Len(v.presents) <= v.nparams
        \/ device' = [device EXCEPT ![d] = u] /\ u.phase # "none" /\ Len(u.presents) <= u.nparams
    <3>1. /\ v.phase # "none" /\ Len(v.presents) <= v.nparams
          /\ u.phase # "none" /\ Len(u.presents) <= u.nparams
          /\ device \in [Devices -> DeviceRecords] /\ device[d] \in DeviceRecords
      BY <1>0 DEF DeviceRecords
    <3>2. CASE device' = [device EXCEPT ![d].phase = "live", ![d].swapchains = {p}]
      <4>1. device' = [device EXCEPT ![d] = v]
        BY <3>1, <3>2
      <4> QED
        BY <3>1, <4>1
    <3>3. CASE device' = [device EXCEPT ![d].phase = "failed"]
      <4>1. device' = [device EXCEPT ![d] = u]
        BY <3>1, <3>3
      <4> QED
        BY <3>1, <4>1
    <3> QED
      BY <1>10, <3>2, <3>3 DEF DriverCreates
  <2> HIDE DEF v, u
  <2> QED
    BY <2>1, <2>2, SizeDevice
<1>11. ASSUME NEW d \in Devices, CloseDevice(d) PROVE SizeInv'
  <2> DEFINE v == [device[d] EXCEPT !.phase = "closing"]
  <2>1. /\ device' = [device EXCEPT ![d] = v] /\ v.phase # "none" /\ Len(v.presents) <= v.nparams
        /\ UNCHANGED <<refs, object, presRefs>>
    BY <1>0, <1>11 DEF CloseDevice, DeviceRecords, adapterVars
  <2> QED
    BY <1>0, <2>1, SizeDevice
<1>12. ASSUME NEW d \in Devices, DeviceGone(d) PROVE SizeInv'
  <2>1. refs > 0 /\ object = "ready"
    BY <1>12, DeviceReady DEF DeviceGone, In, OutliveInv, RefsRight
  <2>2. refs' \in Nat /\ (object' = "none" => refs' = 0) /\ presRefs' = presRefs
    BY <1>0, <1>12, <2>1 DEF DeviceGone, Release, Destroyed
  <2>3. NoDevice.group = 0 /\ Len(NoDevice.presents) <= NoDevice.nparams
    BY DEF NoDevice
  <2>4. device' = [device EXCEPT ![d] = NoDevice]
    BY <1>12 DEF DeviceGone
  <2> QED
    BY <1>0, <2>2, <2>3, <2>4, SizeDevice
<1>13. ASSUME NEW d \in Devices, DisplayStep(d) PROVE SizeInv'
  BY <1>13, SizeSame DEF DisplayStep, adapterVars, groupVars
<1> QED
  BY <1>1, <1>2, <1>3, <1>4, <1>5, <1>6, <1>7, <1>8, <1>9, <1>10, <1>11, <1>12, <1>13 DEF Next

LEMMA InvTypes ==
  ASSUME MapInv, OutliveInv, DrawInv, UseInv, SizeInv, Accounted
  PROVE  TypeOK
<1>1. BackendTypeOK
  <2>1. ~overlapped => displayRef >= 0
    BY DEF UseInv, BackendInv, RefRight
  <2> QED
    BY <2>1, BufferPerPresent
       DEF UseInv, BackendInv, DisplayTypes, MapInv, GroupsMade, BackendTypeOK
<1>2. AdapterTypeOK
  <2>1. /\ DOMAIN groups = 1..Len(groups) /\ \A i \in 1..Len(groups) : groups[i] \in Groups
        /\ DOMAIN map = 1..Len(map) /\ Len(groups) \in Nat
    BY LenProperties, ElementOfSeq DEF MapInv, GroupsMade, MapSoFar
  <2>2. \A i \in DOMAIN groups : groups[i].backend \in Backends \cup {0}
    BY <2>1 DEF Groups
  <2>3. \A k \in DOMAIN map : map[k].group \in DOMAIN groups
    <3>1. \A k \in 1..Len(map) : map[k].group \in 1..mapped
      BY DEF MapInv, MapSoFar, EntryRight
    <3>2. mapped \in 0..Len(groups)
      BY DEF MapInv, MapPhase
    <3>3. 1..mapped \subseteq 1..Len(groups)
      BY <2>1, <3>2
    <3> QED
      BY <2>1, <3>1, <3>3
  <2> QED
    BY <2>2, <2>3 DEF AdapterTypeOK, UseInv, LoadRight, MapInv, MapPhase, SizeInv
<1>3. DrawableTypeOK
  <2>1. allocated \in [Windows -> Nat]
    BY DEF Accounted, AccountOf
  <2> QED
    BY <2>1 DEF DrawableTypeOK, DrawInv, DrawTypes, Pointer
<1>4. PresentGroupTypeOK
  <2>1. ASSUME NEW d \in Devices
        PROVE  /\ device[d].phase \in {"none", "creating", "failed", "live", "closing"}
               /\ device[d].group \in 0..Len(groups)
               /\ Len(device[d].presents) <= device[d].nparams
               /\ device[d].swapchains \subseteq Presents
    <3>1. device[d] \in DeviceRecords /\ device[d].swapchains \subseteq Presents
      BY RecordTypes DEF OutliveInv
    <3>2. Len(groups) \in Nat
      BY LenProperties DEF MapInv, GroupsMade
    <3>3. device[d].group = 0 \/ device[d].group \in 1..Len(groups)
      BY DEF SizeInv, OutliveInv, Owners, DeviceRight
    <3> QED
      BY <3>1, <3>2, <3>3 DEF DeviceRecords, SizeInv
  <2>2. backend \in [Presents -> Backends \cup {0}] /\ presRefs \in [Presents -> Nat]
        /\ buffers \subseteq Presents
    BY DEF OutliveInv, OwnerTypes, SizeInv, UseInv, Owned
  <2> QED
    BY <2>1, <2>2 DEF PresentGroupTypeOK
<1> QED
  BY <1>1, <1>2, <1>3, <1>4 DEF TypeOK

\* In every state everything has its type: the counts of the IDirect3D9
\* object, the presentation objects and the drawables never fall below zero,
\* nor does that of the display before two calls overlap, nothing refers to a
\* group that is not there, and a device never has more presentation objects
\* than it was created for.
THEOREM NineTypeCorrect == Spec => []TypeOK
<1> DEFINE Inv == MapInv /\ OutliveInv /\ DrawInv /\ UseInv /\ SizeInv /\ Accounted
<1>1. Init => Inv
  BY MapInvInit, OutliveInit, DrawInit, UseInit, SizeInit
     DEF Init, DrawableInit, Accounted, AccountOf
<1>2. Inv /\ [Next]_nineVars => Inv'
  <2> SUFFICES ASSUME Inv, [Next]_nineVars PROVE Inv'
    OBVIOUS
  <2>1. MapInv' /\ OutliveInv'
    BY MapInvStep, OutliveStep
  <2> QED
    BY <2>1, DrawStep, UseStep, SizeStep, DrawableStep
<1>3. Inv => TypeOK
  BY InvTypes
<1> QED
  BY <1>1, <1>2, <1>3, PTL DEF Spec
=============================================================================
