---------------------------- MODULE DriverProofs ----------------------------
(***************************************************************************)
(* Loading, using and unloading the secure vault module, for any set of    *)
(* processes, users and vaults and any faults: IInv is inductive, and with *)
(* it CodeBehindFiles, RefsCounted and FailedLoadUndone.                   *)
(***************************************************************************)
EXTENDS Driver, TLAPS, FiniteSetTheorems

\* The holders of a vault are finitely many.
LEMMA HoldersFinite ==
  ASSUME NEW v
  PROVE  IsFiniteSet(Holders(v)) /\ Cardinality(Holders(v)) \in Nat
<1>1. Holders(v) \subseteq Procs
  BY DEF Holders
<1> QED  BY <1>1, DriverAssumption, FS_Subset, FS_CardinalityType

\* Without files there are none.
LEMMA NoHolders ==
  ASSUME NEW v \in Vaults, \A p \in Procs : file[p] \in {NoFile, Crashed}
  PROVE  Cardinality(Holders(v)) = 0
<1>1. Holders(v) = {}
  BY DriverAssumption DEF Holders
<1> QED  BY <1>1, FS_EmptySet

\* The number of holders when a process opens or closes a file.
LEMMA OneMore ==
  ASSUME NEW v \in Vaults, NEW p \in Procs, file \in [Procs -> {NoFile, Crashed} \cup Devices],
         file[p] = NoFile, file' = [file EXCEPT ![p] = v]
  PROVE  /\ Cardinality(Holders(v)') = Cardinality(Holders(v)) + 1
         /\ \A w \in Vaults \ {v} : Holders(w)' = Holders(w)
<1>1. Holders(v)' = Holders(v) \cup {p} /\ p \notin Holders(v)
  BY DriverAssumption DEF Holders
<1>2. \A w \in Vaults \ {v} : Holders(w)' = Holders(w)
  BY DriverAssumption DEF Holders
<1>3. Cardinality(Holders(v) \cup {p}) = Cardinality(Holders(v)) + 1
  BY <1>1, HoldersFinite, FS_AddElement
<1> QED  BY <1>1, <1>2, <1>3

LEMMA OneLess ==
  ASSUME NEW p \in Procs, file \in [Procs -> {NoFile, Crashed} \cup Devices],
         file[p] \in Devices, file' = [file EXCEPT ![p] = NoFile]
  PROVE  \A v \in Vaults :
           IF v = file[p] THEN Cardinality(Holders(v)') = Cardinality(Holders(v)) - 1
                               /\ Cardinality(Holders(v)) > 0
                          ELSE Holders(v)' = Holders(v)
<1> SUFFICES ASSUME NEW v \in Vaults
             PROVE  IF v = file[p] THEN Cardinality(Holders(v)') = Cardinality(Holders(v)) - 1
                                        /\ Cardinality(Holders(v)) > 0
                                   ELSE Holders(v)' = Holders(v)
  OBVIOUS
<1>1. CASE v = file[p]
  <2>1. Holders(v)' = Holders(v) \ {p} /\ p \in Holders(v)
    BY <1>1, DriverAssumption DEF Holders
  <2>2. Cardinality(Holders(v) \ {p}) = Cardinality(Holders(v)) - 1
    BY <2>1, HoldersFinite, FS_RemoveElement
  <2>3. IsFiniteSet(Holders(v) \ {p}) /\ Cardinality(Holders(v) \ {p}) \in Nat
    BY <2>1, HoldersFinite, FS_RemoveElement, FS_CardinalityType
  <2> QED  BY <1>1, <2>1, <2>2, <2>3, HoldersFinite
<1>2. CASE v # file[p]
  BY <1>2, DriverAssumption DEF Holders
<1> QED  BY <1>1, <1>2

-----------------------------------------------------------------------------
(* The invariant, one lemma per group of actions.                          *)

LEMMA InitInv == Init => IInv
<1> SUFFICES ASSUME Init PROVE IInv
  OBVIOUS
<1>1. TypeOK
  BY DriverAssumption DEF Init, TypeOK, VaultType, Absent, ModPCs, Users, Regions
<1>2. RegionInv /\ DeviceInv /\ CodeBehindFiles
  BY DEF Init, RegionInv, DeviceInv, CodeBehindFiles, Loaded, Regions, Mapped
<1>3. RefsCounted
  BY NoHolders, DriverAssumption DEF Init, RefsCounted, Absent
<1> QED  BY <1>1, <1>2, <1>3 DEF IInv

\* A failed load and an unload reset the memory of the module while no file
\* is open.
LEMMA ResetInv ==
  ASSUME IInv, \A p \in Procs : file[p] \in {NoFile, Crashed}, Cleanup, Unregister(Regions)
  PROVE  IInv'
<1>1. map' = {Stale(e[1]) : e \in map \ Removed} /\ leaked' = leaked \cup Foreign
      /\ vault' = [v \in Vaults |-> Absent] /\ file' = file /\ mod' = "out" /\ flag' = FALSE
  BY DEF Cleanup
<1>2. map \subseteq Devices \X {"loaded", "gone"}
  BY DEF IInv, TypeOK
<1>3. \A e \in map' : \E d \in Devices : e = Stale(d)
  BY <1>1, <1>2
<1>4. map' \subseteq Devices \X {"loaded", "gone"} /\ \A e \in map' : e[2] = "gone"
  BY <1>3 DEF Stale
<1>5. TypeOK'
  <2>1. region' \in [Regions -> {"free", "sv", "other"}]
    BY DEF IInv, TypeOK, Unregister
  <2>2. vault' \in [Vaults -> VaultType]
    BY <1>1 DEF Absent, VaultType
  <2>3. leaked' \subseteq Vaults
    BY <1>1 DEF Foreign, IInv, TypeOK
  <2> QED  BY <1>1, <1>4, <2>1, <2>2, <2>3 DEF IInv, TypeOK, ModPCs
<1>6. RegionInv'
  BY <1>1 DEF RegionInv, Loaded, Regions, Unregister
<1>7. DeviceInv'
  BY <1>1, <1>4 DEF DeviceInv, Mapped, Entry
<1>8. CodeBehindFiles'
  BY <1>1 DEF CodeBehindFiles
<1>9. RefsCounted'
  <2> SUFFICES ASSUME NEW v \in Vaults
               PROVE  vault'[v].refs = Cardinality(Holders(v)')
                        + IF vault'[v].creator = Nobody THEN 0 ELSE 1
    BY DEF RefsCounted
  <2>1. Holders(v)' = Holders(v)
    BY <1>1 DEF Holders
  <2> QED  BY <1>1, <2>1, NoHolders DEF Absent
<1> QED  BY <1>5, <1>6, <1>7, <1>8, <1>9 DEF IInv

LEMMA LoadFailsInv ==
  ASSUME IInv, mod \in {"vaults", "region"}, LoadFails
  PROVE  IInv'
BY ResetInv DEF LoadFails, IInv, CodeBehindFiles

\* A step that leaves files and vaults alone keeps the counts.
LEMMA RefsKept ==
  ASSUME IInv, UNCHANGED <<file, vault>>
  PROVE  RefsCounted'
BY DEF IInv, RefsCounted, Holders

LEMMA LoadInv == ASSUME IInv, Load PROVE IInv'
<1>1. CASE VaultSetup
  <2>1. RefsCounted'
    BY <1>1, RefsKept DEF VaultSetup
  <2>2. TypeOK'
    BY <1>1 DEF IInv, TypeOK, VaultSetup, ModPCs, Regions
  <2>3. RegionInv' /\ DeviceInv' /\ CodeBehindFiles'
    BY <1>1 DEF IInv, TypeOK, RegionInv, DeviceInv, CodeBehindFiles, VaultSetup, Loaded, Regions, Mapped
  <2> QED  BY <2>1, <2>2, <2>3 DEF IInv
<1>2. CASE CtlRegister
  <2>1. CASE LoadFails
    BY <1>2, <2>1, LoadFailsInv DEF CtlRegister
  <2>2. CASE mod' = "region" /\ region' = [region EXCEPT !["ctl"] = "sv"]
             /\ UNCHANGED <<vault, map, flag, file, leaked>>
    <3>1. RefsCounted'
      BY <2>2, RefsKept
    <3>2. TypeOK'
      BY <2>2 DEF IInv, TypeOK, ModPCs, Regions
    <3>3. RegionInv' /\ DeviceInv' /\ CodeBehindFiles'
      BY <1>2, <2>2 DEF IInv, TypeOK, RegionInv, DeviceInv, CodeBehindFiles, CtlRegister, Loaded, Regions, Mapped
    <3> QED  BY <3>1, <3>2, <3>3 DEF IInv
  <2> QED  BY <1>2, <2>1, <2>2 DEF CtlRegister
<1>3. CASE CtlAdd
  <2>1. CASE LoadFails
    BY <1>3, <2>1, LoadFailsInv DEF CtlAdd
  <2>2. CASE mod' = "added" /\ map' = map \cup {Entry(Ctl)}
             /\ UNCHANGED <<region, vault, flag, file, leaked>>
    <3>1. RefsCounted'
      BY <2>2, RefsKept
    <3>2. TypeOK'
      BY <2>2 DEF IInv, TypeOK, ModPCs, Entry, Devices
    <3>3. RegionInv' /\ DeviceInv' /\ CodeBehindFiles'
      BY <1>3, <2>2 DEF IInv, TypeOK, RegionInv, DeviceInv, CodeBehindFiles, CtlAdd, Loaded, Mapped, Entry
    <3> QED  BY <3>1, <3>2, <3>3 DEF IInv
  <2> QED  BY <1>3, <2>1, <2>2 DEF CtlAdd
<1>4. CASE CtlFlag
  <2>1. RefsCounted'
    BY <1>4, RefsKept DEF CtlFlag
  <2>2. TypeOK'
    BY <1>4 DEF IInv, TypeOK, CtlFlag, ModPCs
  <2>3. RegionInv' /\ DeviceInv' /\ CodeBehindFiles'
    BY <1>4 DEF IInv, TypeOK, RegionInv, DeviceInv, CodeBehindFiles, CtlFlag, Loaded, Mapped
  <2> QED  BY <2>1, <2>2, <2>3 DEF IInv
<1> QED  BY <1>1, <1>2, <1>3, <1>4 DEF Load

LEMMA UnloadInv == ASSUME IInv, Unload PROVE IInv'
BY ResetInv DEF Unload, CanUnload

LEMMA OthersInv ==
  ASSUME IInv, NEW r \in Regions, OtherRegisters(r) \/ OtherReleases(r)
  PROVE  IInv'
<1>1. RefsCounted'
  BY RefsKept DEF OtherRegisters, OtherReleases
<1>2. TypeOK'
  BY DEF IInv, TypeOK, OtherRegisters, OtherReleases
<1>3. RegionInv' /\ DeviceInv' /\ CodeBehindFiles'
  BY DEF IInv, TypeOK, RegionInv, DeviceInv, CodeBehindFiles, OtherRegisters, OtherReleases, Loaded, Regions, Mapped
<1> QED  BY <1>1, <1>2, <1>3 DEF IInv

\* What every ioctl does to the module; only the vaults differ.
LEMMA IoctlInv ==
  ASSUME IInv, NEW p \in Procs, Ioctl(p), vault' \in [Vaults -> VaultType], RefsCounted',
         map' \subseteq Devices \X {"loaded", "gone"}, Entry(Ctl) \in map => Entry(Ctl) \in map'
  PROVE  IInv'
<1>1. mod \in {"added", "live"}
  BY DEF IInv, CodeBehindFiles, Ioctl, NoFile, Ctl, Crashed
<1>2. TypeOK'
  BY DEF IInv, TypeOK, Ioctl
<1>3. RegionInv' /\ DeviceInv' /\ CodeBehindFiles'
  BY <1>1 DEF IInv, TypeOK, RegionInv, DeviceInv, CodeBehindFiles, Ioctl, Loaded, Mapped
<1> QED  BY <1>2, <1>3 DEF IInv

LEMMA VaultIoctlInv ==
  ASSUME IInv, NEW p \in Procs, NEW v \in Vaults, Create(p, v) \/ Delete(p, v)
  PROVE  IInv'
<1>1. Ioctl(p) /\ file' = file
  BY DEF Create, Delete, Ioctl
<1>2. Uid[p] \in Users /\ Uid[p] # Nobody
  BY DriverAssumption DEF Users
<1>3. \A w \in Vaults : Holders(w)' = Holders(w)
  BY <1>1 DEF Holders
<1>4. v \in Devices /\ v # Ctl /\ map \subseteq Devices \X {"loaded", "gone"}
      /\ vault \in [Vaults -> VaultType]
  BY DriverAssumption DEF IInv, TypeOK, Devices
<1>5. CASE Create(p, v)
  <2>1. vault' = [vault EXCEPT ![v] = [creator |-> Uid[p], refs |-> 1, reused |-> Holders(v) # {}]]
    BY <1>5 DEF Create
  <2>2. vault' \in [Vaults -> VaultType]
    BY <1>2, <1>4, <2>1 DEF VaultType
  <2>3. map' \subseteq Devices \X {"loaded", "gone"} /\ (Entry(Ctl) \in map => Entry(Ctl) \in map')
    BY <1>4, <1>5 DEF Create, Entry
  <2>4. RefsCounted'
    <3> SUFFICES ASSUME NEW w \in Vaults, ~vault'[w].reused
                 PROVE  vault'[w].refs = Cardinality(Holders(w)')
                          + IF vault'[w].creator = Nobody THEN 0 ELSE 1
      BY DEF RefsCounted
    <3>1. CASE w = v
      <4>1. Holders(v) = {}
        BY <1>4, <2>1, <3>1
      <4>2. vault'[v].refs = 1 /\ vault'[v].creator # Nobody
        BY <1>2, <1>4, <2>1
      <4>3. Cardinality(Holders(v)') = 0
        BY <1>3, <4>1, FS_EmptySet
      <4> QED  BY <3>1, <4>2, <4>3
    <3>2. CASE w # v
      BY <1>3, <2>1, <3>2 DEF IInv, TypeOK, RefsCounted
    <3> QED  BY <3>1, <3>2
  <2> QED  BY <1>1, <2>2, <2>4, <2>3, IoctlInv
<1>6. CASE Delete(p, v)
  <2>1. vault' = [vault EXCEPT ![v] = [vault[v] EXCEPT !.creator = Nobody, !.refs = Put(vault[v].refs)]]
    BY <1>4, <1>6 DEF Delete
  <2>2. Put(vault[v].refs) \in Nat
    BY <1>4 DEF Put, VaultType
  <2>3. vault' \in [Vaults -> VaultType]
    BY <1>4, <2>1, <2>2 DEF VaultType
  <2>4. map' \subseteq Devices \X {"loaded", "gone"} /\ (Entry(Ctl) \in map => Entry(Ctl) \in map')
    <3>1. Newest(v) # Entry(Ctl)
      BY <1>4 DEF Newest, Entry, Stale
    <3> QED  BY <1>4, <1>6, <3>1 DEF Delete
  <2>5. RefsCounted'
    <3> SUFFICES ASSUME NEW w \in Vaults, ~vault'[w].reused
                 PROVE  vault'[w].refs = Cardinality(Holders(w)')
                          + IF vault'[w].creator = Nobody THEN 0 ELSE 1
      BY DEF RefsCounted
    <3>1. CASE w = v
      <4>1. ~vault[v].reused /\ vault[v].creator # Nobody
        BY <1>2, <1>4, <1>6, <2>1, <3>1 DEF Delete, VaultType
      <4>2. vault[v].refs = Cardinality(Holders(v)) + 1
        BY <4>1 DEF IInv, RefsCounted
      <4>3. vault'[v].refs = Cardinality(Holders(v)) /\ vault'[v].creator = Nobody
        BY <1>4, <2>1, <4>2, HoldersFinite DEF Put, VaultType
      <4> QED  BY <1>3, <3>1, <4>3, HoldersFinite
    <3>2. CASE w # v
      BY <1>3, <2>1, <3>2 DEF IInv, TypeOK, RefsCounted
    <3> QED  BY <3>1, <3>2
  <2> QED  BY <1>1, <2>3, <2>5, <2>4, IoctlInv
<1> QED  BY <1>5, <1>6

LEMMA OpenInv ==
  ASSUME IInv, NEW p \in Procs, NEW v \in Vaults, Open(p, v)
  PROVE  IInv'
<1>1. mod \in {"added", "live"}
  BY DEF IInv, DeviceInv, Open, Absent
<1>2. vault' = [vault EXCEPT ![v] = [vault[v] EXCEPT !.refs = vault[v].refs + 1]]
  BY DEF Open
<1>3. TypeOK'
  BY <1>2 DEF IInv, TypeOK, VaultType, Devices, Open
<1>4. RegionInv' /\ DeviceInv' /\ CodeBehindFiles'
  BY <1>1 DEF IInv, RegionInv, DeviceInv, CodeBehindFiles, Open, Loaded, Mapped
<1>5. RefsCounted'
  <2>1. /\ Cardinality(Holders(v)') = Cardinality(Holders(v)) + 1
        /\ \A w \in Vaults \ {v} : Holders(w)' = Holders(w)
    BY OneMore DEF Open, IInv, TypeOK
  <2> SUFFICES ASSUME NEW w \in Vaults, ~vault'[w].reused
               PROVE  vault'[w].refs = Cardinality(Holders(w)')
                        + IF vault'[w].creator = Nobody THEN 0 ELSE 1
    BY DEF RefsCounted
  <2>2. CASE w = v
    BY <1>2, <2>1, <2>2, HoldersFinite DEF IInv, TypeOK, VaultType, RefsCounted
  <2>3. CASE w # v
    BY <1>2, <2>1, <2>3 DEF IInv, TypeOK, RefsCounted
  <2> QED  BY <2>2, <2>3
<1> QED  BY <1>3, <1>4, <1>5 DEF IInv

LEMMA OpenCtlInv == ASSUME IInv, NEW p \in Procs, OpenCtl(p) PROVE IInv'
<1>1. mod \in {"added", "live"}
  BY DEF IInv, DeviceInv, OpenCtl
<1>2. TypeOK'
  BY DEF IInv, TypeOK, OpenCtl, Devices
<1>3. RegionInv' /\ DeviceInv' /\ CodeBehindFiles'
  BY <1>1 DEF IInv, RegionInv, DeviceInv, CodeBehindFiles, OpenCtl, Loaded, Mapped
<1>4. RefsCounted'
  <2>1. \A w \in Vaults : Holders(w)' = Holders(w)
    BY DriverAssumption DEF Holders, OpenCtl, IInv, TypeOK
  <2> QED  BY <2>1 DEF IInv, RefsCounted, OpenCtl
<1> QED  BY <1>2, <1>3, <1>4 DEF IInv

LEMMA OpenStaleInv ==
  ASSUME IInv, NEW p \in Procs, NEW d \in Devices, OpenStale(p, d)
  PROVE  IInv'
<1>1. TypeOK'
  BY DEF IInv, TypeOK, OpenStale
<1>2. RegionInv' /\ DeviceInv' /\ CodeBehindFiles'
  BY DEF IInv, TypeOK, RegionInv, DeviceInv, CodeBehindFiles, OpenStale, Loaded, Mapped
<1>3. RefsCounted'
  <2>1. \A w \in Vaults : Holders(w)' = Holders(w)
    BY DriverAssumption DEF Holders, OpenStale, IInv, TypeOK
  <2> QED  BY <2>1 DEF IInv, RefsCounted, OpenStale
<1> QED  BY <1>1, <1>2, <1>3 DEF IInv

LEMMA CloseInv == ASSUME IInv, NEW p \in Procs, Close(p) PROVE IInv'
<1>1. mod \in {"added", "live"}
  <2>1. file[p] \notin {NoFile, Crashed}
    BY DriverAssumption DEF Close, Devices, NoFile, Crashed, Ctl
  <2> QED  BY <2>1 DEF IInv, CodeBehindFiles
<1>2. \A v \in Vaults : Put(vault[v].refs) \in Nat
  BY DEF Put, IInv, TypeOK, VaultType
<1>3. TypeOK'
  BY <1>2 DEF IInv, TypeOK, VaultType, Close
<1>4. RegionInv' /\ DeviceInv' /\ CodeBehindFiles'
  BY <1>1 DEF IInv, RegionInv, DeviceInv, CodeBehindFiles, Close, Loaded, Mapped
<1>5. RefsCounted'
  <2> SUFFICES ASSUME NEW w \in Vaults, ~vault'[w].reused
               PROVE  vault'[w].refs = Cardinality(Holders(w)')
                        + IF vault'[w].creator = Nobody THEN 0 ELSE 1
    BY DEF RefsCounted
  <2>1. IF w = file[p] THEN Cardinality(Holders(w)') = Cardinality(Holders(w)) - 1
                            /\ Cardinality(Holders(w)) > 0
                       ELSE Holders(w)' = Holders(w)
    BY OneLess DEF Close, IInv, TypeOK
  <2>2. CASE w = file[p]
    <3>1. vault'[w] = [vault[w] EXCEPT !.refs = Put(@)]
      BY <2>2 DEF Close
    <3> QED  BY <2>1, <2>2, <3>1, HoldersFinite DEF Put, IInv, TypeOK, VaultType, RefsCounted
  <2>3. CASE w # file[p]
    BY <2>1, <2>3 DEF Close, IInv, RefsCounted
  <2> QED  BY <2>2, <2>3
<1> QED  BY <1>3, <1>4, <1>5 DEF IInv

LEMMA StepInv == IInv /\ [Next]_vars => IInv'
<1> SUFFICES ASSUME IInv, [Next]_vars PROVE IInv'
  OBVIOUS
<1>1. CASE Load
  BY <1>1, LoadInv
<1>2. CASE Unload
  BY <1>2, UnloadInv
<1>3. CASE \E r \in Regions : OtherRegisters(r) \/ OtherReleases(r)
  BY <1>3, OthersInv
<1>4. ASSUME NEW p \in Procs, OpenCtl(p) \/ OtherIoctl(p) \/ Close(p)
      PROVE  IInv'
  <2>1. CASE OtherIoctl(p)
    <3>1. UNCHANGED <<file, vault, map>> /\ Ioctl(p)
      BY <2>1 DEF OtherIoctl, Ioctl
    <3> QED  BY <3>1, RefsKept, IoctlInv DEF IInv, TypeOK
  <2> QED  BY <1>4, <2>1, OpenCtlInv, CloseInv
<1>5. ASSUME NEW p \in Procs, NEW v \in Vaults, Create(p, v) \/ Delete(p, v) \/ Open(p, v)
      PROVE  IInv'
  BY <1>5, VaultIoctlInv, OpenInv
<1>6. ASSUME NEW p \in Procs, NEW d \in Devices, OpenStale(p, d)
      PROVE  IInv'
  BY <1>6, OpenStaleInv
<1>7. CASE UNCHANGED vars
  BY <1>7, RefsKept DEF vars, IInv, TypeOK, RegionInv, DeviceInv, CodeBehindFiles, Loaded, Mapped
<1> QED  BY <1>1, <1>2, <1>3, <1>4, <1>5, <1>6, <1>7 DEF Next

-----------------------------------------------------------------------------
(* The theorems.                                                           *)

(***************************************************************************)
(* The inductive invariant: types, who holds the device numbers and which  *)
(* flags are set at each step of sv_init, and the two properties below.    *)
(***************************************************************************)
THEOREM InductiveInvariant == Spec => []IInv
BY InitInv, StepInv, PTL DEF Spec

\* No file is open without the code behind it.
THEOREM CodeThere == Spec => []CodeBehindFiles
<1>1. IInv => CodeBehindFiles
  BY DEF IInv
<1> QED  BY <1>1, InductiveInvariant, PTL

\* The references of a vault's device are those of its map entry and files.
THEOREM ReferencesCounted == Spec => []RefsCounted
<1>1. IInv => RefsCounted
  BY DEF IInv
<1> QED  BY <1>1, InductiveInvariant, PTL

\* A load that fails with an error code is undone.
THEOREM LoadUndone == Spec => FailedLoadUndone
<1> DEFINE Undone ==
      /\ map' = map /\ leaked' = leaked
      /\ \A r \in Regions : region'[r] \in {"free", "other"}
<1>1. ASSUME IInv, [Next]_vars, Loaded, mod # "live", mod' = "out"
      PROVE  Undone
  <2>1. LoadFails /\ mod \in {"vaults", "region"}
    BY <1>1 DEF Next, Load, VaultSetup, CtlRegister, CtlAdd, CtlFlag, Unload, CanUnload, Loaded,
       OtherRegisters, OtherReleases, OpenCtl, OtherIoctl, Ioctl, Close, Create, Delete, Open,
       OpenStale, vars
  <2>2. Own = {} /\ Foreign = {} /\ ~flag /\ (\A e \in map : e[2] = "gone")
    <3>1. Admin # Nobody
      BY DriverAssumption
    <3> QED  BY <1>1, <2>1, <3>1 DEF IInv, DeviceInv, Own, Foreign, Absent
  <2>3. Removed = {}
    BY <2>2 DEF Removed
  <2>4. \A e \in map : Stale(e[1]) = e
    BY <1>1, <2>2 DEF IInv, TypeOK, Stale
  <2>5. map' = map
    BY <2>1, <2>3, <2>4 DEF LoadFails, Cleanup
  <2>6. leaked' = leaked
    BY <2>1, <2>2 DEF LoadFails, Cleanup
  <2> QED  BY <2>1, <2>5, <2>6 DEF LoadFails, Unregister
<1>2. ASSUME IInv, [Next]_vars
      PROVE  [Loaded /\ mod # "live" /\ mod' = "out" => Undone]_vars
  BY <1>1, <1>2
<1>3. Spec => [][Loaded /\ mod # "live" /\ mod' = "out" => Undone]_vars
  BY <1>2, InductiveInvariant, PTL DEF Spec
<1> QED  BY <1>3 DEF FailedLoadUndone
=============================================================================
