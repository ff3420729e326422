-------------------------------- MODULE Driver --------------------------------
(***************************************************************************)
(* Bonus exercise: loading and unloading the secure vault module, its      *)
(* control device, and the life of the vaults' devices in between.  What   *)
(* happens to the data of a vault is the subject of Vault.tla.             *)
(*                                                                         *)
(* insmod runs sv_init, rmmod sv_exit.  Between two steps of sv_init other *)
(* processes may already use the control device.  sv_exit runs while no    *)
(* file of the module is open, so that nobody sees it half done.  It does  *)
(* not remove every device: those it leaves stay in the kernel's map, and  *)
(* their struct cdev and their code are gone.                              *)
(***************************************************************************)
EXTENDS Integers, FiniteSets

CONSTANTS
  Procs,    \* processes; each has at most one file of the module open
  Uid,      \* Uid[p]: the user process p runs as
  Admin,    \* the user of insmod and rmmod
  Vaults,   \* the vault ids, 0 .. MAX_NUM_VAULTS - 1
  Faults    \* the faults the environment injects, a subset of FaultKinds

FaultKinds == {"busy", "nomem", "cdev_add"}

Nobody == "nobody"
Ctl    == "ctl"
NoFile  == "none"
Crashed == "crashed"   \* the kernel ended the process in an open

ASSUME DriverAssumption ==
  /\ IsFiniteSet(Procs) /\ Admin # Nobody /\ \A p \in Procs : Uid[p] # Nobody
  /\ Vaults \cap {Ctl, NoFile, Crashed} = {}
  /\ Faults \subseteq FaultKinds

VARIABLES
  mod,      \* how far sv_init is
  region,   \* region[r]: who registered the device numbers
  vault,    \* vault[v]: creator (Nobody: data is NULL) and the reference count
            \* of its cdev; history: reused
  map,      \* the kernel's map of devices, a set of entries; the entries that
            \* a load left for one number count as one
  flag,     \* flag_init
  file,     \* file[p]: the device p has open, or Crashed
  leaked    \* the vaults whose data was not freed when the module went

vars == <<mod, region, vault, map, flag, file, leaked>>

Regions == {"vaults", "ctl"}
ModPCs  == {"out", "vaults", "region", "added", "live", "stuck"}
Loaded  == mod \in {"vaults", "region", "added", "live"}

\* vault_setup on the zeroed memory of a module that was just loaded.
Absent == [creator |-> Nobody, refs |-> 0, reused |-> FALSE]

Devices  == Vaults \cup {Ctl}
Entry(d) == <<d, "loaded">>   \* its cdev is in the memory of the loaded module
Stale(d) == <<d, "gone">>     \* that memory is gone
Mapped(d) == Entry(d) \in map

Init ==
  /\ mod = "out"
  /\ region = [r \in Regions |-> "free"]
  /\ vault = [v \in Vaults |-> Absent]
  /\ map = {} /\ flag = FALSE
  /\ file = [p \in Procs |-> NoFile]
  /\ leaked = {}

-----------------------------------------------------------------------------
(* The kernel.                                                             *)

\* Another driver may have taken the numbers, or memory runs out.
CanRegister(r) == region[r] = "free"
CanFail(r)     == region[r] = "other" \/ "nomem" \in Faults

\* unregister_chrdev_region does not ask who registered the numbers.
Unregister(rs) == region' = [r \in Regions |-> IF r \in rs THEN "free" ELSE region[r]]

\* kobject_put, which never goes below 0.
Put(refs) == IF refs > 0 THEN refs - 1 ELSE 0

Holders(v) == {p \in Procs : file[p] = v}

\* cdev_del: of the entries for the number the newest goes.
Newest(d) == IF Mapped(d) THEN Entry(d) ELSE Stale(d)

OtherRegisters(r) ==
  /\ "busy" \in Faults /\ region[r] = "free"
  /\ region' = [region EXCEPT ![r] = "other"]
  /\ UNCHANGED <<mod, vault, map, flag, file, leaked>>

OtherReleases(r) ==
  /\ region[r] = "other"
  /\ region' = [region EXCEPT ![r] = "free"]
  /\ UNCHANGED <<mod, vault, map, flag, file, leaked>>

-----------------------------------------------------------------------------
(* vault_cleanup and ctl_cleanup, and then the memory of the module goes.  *)
(* vault_delete refuses a vault of another user than the caller: its data  *)
(* is not freed and its device stays.  So does the control device if       *)
(* flag_init is not set.                                                   *)

Own     == {v \in Vaults : vault[v].creator = Admin}
Foreign == {v \in Vaults : vault[v].creator \notin {Nobody, Admin}}

\* The entries that go.
Removed == {Newest(v) : v \in Own} \cup IF flag THEN {Newest(Ctl)} ELSE {}

Cleanup ==
  /\ mod' = "out"
  /\ map' = {Stale(e[1]) : e \in map \ Removed}
  /\ leaked' = leaked \cup Foreign
  /\ vault' = [v \in Vaults |-> Absent] /\ flag' = FALSE
  /\ UNCHANGED file

-----------------------------------------------------------------------------
(* sv_init.                                                                *)

\* vault_setup.  If it fails, sv_init calls vault_cleanup, and vault_delete
\* waits for a semaphore that was never initialised: the kernel ends insmod,
\* and the module stays half loaded for ever.
VaultSetup ==
  /\ mod = "out"
  /\ \/ /\ CanRegister("vaults")
        /\ mod' = "vaults" /\ region' = [region EXCEPT !["vaults"] = "sv"]
     \/ CanFail("vaults") /\ mod' = "stuck" /\ UNCHANGED region
  /\ UNCHANGED <<vault, map, flag, file, leaked>>

\* Mutant: the control device's numbers are not given back.
LoadFails_VaultsOnly == Cleanup /\ Unregister({"vaults"})

\* ctl_setup failed: both cleanups.
LoadFails == Cleanup /\ Unregister(Regions)

CtlRegister ==
  /\ mod = "vaults"
  /\ \/ /\ CanRegister("ctl")
        /\ mod' = "region" /\ region' = [region EXCEPT !["ctl"] = "sv"]
        /\ UNCHANGED <<vault, map, flag, file, leaked>>
     \/ CanFail("ctl") /\ LoadFails

CtlAdd ==
  /\ mod = "region"
  /\ \/ /\ mod' = "added" /\ map' = map \cup {Entry(Ctl)}
        /\ UNCHANGED <<region, vault, flag, file, leaked>>
     \/ "cdev_add" \in Faults /\ LoadFails

\* Mutant: ctl_setup may still fail after cdev_add.
CtlFlag_MayFail ==
  /\ mod = "added"
  /\ \/ /\ mod' = "live" /\ flag' = TRUE
        /\ UNCHANGED <<region, vault, map, file, leaked>>
     \/ "nomem" \in Faults /\ LoadFails

CtlFlag ==
  /\ mod = "added"
  /\ mod' = "live" /\ flag' = TRUE
  /\ UNCHANGED <<region, vault, map, file, leaked>>

\* An open file holds the module.
CanUnload == mod = "live" /\ \A p \in Procs : file[p] \in {NoFile, Crashed}

\* sv_exit.
Unload == CanUnload /\ Cleanup /\ Unregister(Regions)

-----------------------------------------------------------------------------
(* The devices.                                                            *)

OpenCtl(p) ==
  /\ Mapped(Ctl) /\ file[p] = NoFile
  /\ file' = [file EXCEPT ![p] = Ctl]
  /\ UNCHANGED <<mod, region, vault, map, flag, leaked>>

\* The start of ctl_ioctl, for every command.
Ioctl(p) ==
  /\ file[p] = Ctl
  /\ flag' = FALSE
  /\ UNCHANGED <<mod, region, file, leaked>>

\* vault_create: cdev_init starts a new count, whoever still has a file of
\* an earlier vault open.
Create(p, v) ==
  /\ Ioctl(p)
  /\ vault[v].creator = Nobody
  /\ vault' = [vault EXCEPT ![v] = [creator |-> Uid[p], refs |-> 1, reused |-> Holders(v) # {}]]
  /\ \/ map' = map \cup {Entry(v)}
     \/ "cdev_add" \in Faults /\ UNCHANGED map

\* Mutant: the data goes, the device keeps its reference.
Delete_KeepCdev(p, v) ==
  /\ Ioctl(p)
  /\ vault[v].creator = Uid[p]
  /\ vault' = [vault EXCEPT ![v].creator = Nobody]
  /\ map' = map \ {Newest(v)}

\* vault_delete: cdev_del and kfree.
Delete(p, v) ==
  /\ Ioctl(p)
  /\ vault[v].creator = Uid[p]
  /\ vault' = [vault EXCEPT ![v].creator = Nobody, ![v].refs = Put(@)]
  /\ map' = map \ {Newest(v)}

\* Any other command, and one that fails.
OtherIoctl(p) == Ioctl(p) /\ UNCHANGED <<vault, map>>

\* sv_open; no device without a reference can be opened.
Open(p, v) ==
  /\ file[p] = NoFile /\ Mapped(v) /\ vault[v].refs > 0 /\ vault[v].creator = Uid[p]
  /\ file' = [file EXCEPT ![p] = v]
  /\ vault' = [vault EXCEPT ![v].refs = @ + 1]
  /\ UNCHANGED <<mod, region, map, flag, leaked>>

\* The cdev found in the map is in memory that is gone: the open fails, or the
\* kernel ends the process.
OpenStale(p, d) ==
  /\ file[p] = NoFile /\ Stale(d) \in map /\ ~Mapped(d)
  /\ file' = [file EXCEPT ![p] = Crashed]
  /\ UNCHANGED <<mod, region, vault, map, flag, leaked>>

\* The reference goes to the device that is there now.
Close(p) ==
  /\ file[p] \in Devices
  /\ file' = [file EXCEPT ![p] = NoFile]
  /\ vault' = [v \in Vaults |->
       IF v = file[p] THEN [vault[v] EXCEPT !.refs = Put(@)] ELSE vault[v]]
  /\ UNCHANGED <<mod, region, map, flag, leaked>>

-----------------------------------------------------------------------------
Load == VaultSetup \/ CtlRegister \/ CtlAdd \/ CtlFlag

Next ==
  \/ Load \/ Unload
  \/ \E r \in Regions : OtherRegisters(r) \/ OtherReleases(r)
  \/ \E p \in Procs :
       \/ OpenCtl(p) \/ OtherIoctl(p) \/ Close(p)
       \/ \E v \in Vaults : Create(p, v) \/ Delete(p, v) \/ Open(p, v)
       \/ \E d \in Devices : OpenStale(p, d)

Spec == Init /\ [][Next]_vars

-----------------------------------------------------------------------------
(* Properties.                                                             *)

Users == {Admin} \cup {Uid[p] : p \in Procs}

VaultType == [creator: {Nobody} \cup Users, refs: Nat, reused: BOOLEAN]

TypeOK ==
  /\ mod \in ModPCs
  /\ region \in [Regions -> {"free", "sv", "other"}]
  /\ vault \in [Vaults -> VaultType]
  /\ map \subseteq Devices \X {"loaded", "gone"}
  /\ flag \in BOOLEAN
  /\ file \in [Procs -> {NoFile, Crashed} \cup Devices]
  /\ leaked \subseteq Vaults

(***************************************************************************)
(* A file is open only while the code behind its operations is loaded,     *)
(* although the control device can be used before sv_init is done: when it *)
(* becomes visible, nothing that may still fail is left to do.             *)
(***************************************************************************)
CodeBehindFiles ==
  mod \notin {"added", "live"} => \A p \in Procs : file[p] \in {NoFile, Crashed}

(***************************************************************************)
(* The device of a vault has a reference for being there and one for each  *)
(* file, so that it goes with the last of them and not earlier.  A vault   *)
(* that was created while files of a deleted one with its number were open *)
(* is the exception: closing those takes the references of the new one.    *)
(***************************************************************************)
RefsCounted ==
  \A v \in Vaults : ~vault[v].reused =>
    vault[v].refs = Cardinality(Holders(v)) + IF vault[v].creator = Nobody THEN 0 ELSE 1

(***************************************************************************)
(* A load that fails with an error code leaves nothing behind: no device   *)
(* that was not there before, no allocation, and none of the device        *)
(* numbers registered.                                                     *)
(***************************************************************************)
FailedLoadUndone ==
  [][Loaded /\ mod # "live" /\ mod' = "out" =>
       /\ map' = map /\ leaked' = leaked
       /\ \A r \in Regions : region'[r] \in {"free", "other"}]_vars

-----------------------------------------------------------------------------
(* The inductive invariant.                                                *)

RegionInv ==
  /\ region["vaults"] = "sv" <=> Loaded
  /\ region["ctl"] = "sv" <=> mod \in {"region", "added", "live"}

\* Before ctl_setup has come to cdev_add, and after sv_exit, the module has no
\* device and no vault; only stale entries are in the map.
DeviceInv ==
  /\ Mapped(Ctl) <=> mod \in {"added", "live"}
  /\ mod \notin {"added", "live"} =>
       /\ \A e \in map : e[2] = "gone"
       /\ \A v \in Vaults : vault[v] = Absent
  /\ mod # "live" => ~flag

IInv == TypeOK /\ RegionInv /\ DeviceInv /\ CodeBehindFiles /\ RefsCounted
=============================================================================
