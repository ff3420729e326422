-------------------------------- MODULE Vault --------------------------------
(***************************************************************************)
(* Bonus exercise: a kernel module with encrypted character devices, the   *)
(* vaults, which ioctls on a control device create, delete, erase and      *)
(* re-key.  Each vault has a semaphore.  The file operations check the     *)
(* permission before they take it, the ioctls after.                       *)
(*                                                                         *)
(* A system call is two steps: what the code does before                   *)
(* down_interruptible, and the critical section with the down before and   *)
(* the up after it.  Nothing that runs without the semaphore reads what a  *)
(* critical section changes in more than one step.  A byte of a vault is   *)
(* represented by the key it is encrypted under.                           *)
(***************************************************************************)
EXTENDS Integers

CONSTANTS
  Procs,        \* processes; each has at most one vault open
  Uid,          \* Uid[p]: the user process p runs as
  Ops,          \* Ops[p]: the operations process p uses, a subset of AllOps
  Vaults,       \* the vault ids, 0 .. MAX_NUM_VAULTS - 1
  MaxSizes,     \* the values of max_size used
  MaxPos,       \* bound: stands for every file position beyond all vaults
  Counts,       \* the byte counts of reads and writes
  Keys,         \* the keys
  OpenFlags,    \* OpenFlags[p]: the open modes p uses, a subset of AllFlags
  Faults        \* the faults the environment injects, a subset of FaultKinds

AllOps     == {"create", "delete", "erase", "change_key", "open", "read", "write"}
AllFlags   == [mode: {"rdonly", "wronly", "rdwr"}, append: BOOLEAN]
FaultKinds == {"signal", "kmalloc", "cdev_add", "copy"}

\* What a byte can be besides encrypted: never written, erased, or stored by
\* a write that failed before it encrypted.
NoKey     == {"raw", "zero", "plain"}
NullData  == <<>>
Nobody    == "nobody"

ASSUME VaultAssumption ==
  /\ MaxPos \in Nat \ {0} /\ MaxSizes \subseteq 1 .. MaxPos - 1 /\ Counts \subseteq Nat \ {0}
  /\ Keys \cap NoKey = {}
  /\ \A p \in Procs :
       Uid[p] # Nobody /\ Ops[p] \subseteq AllOps /\ OpenFlags[p] \subseteq AllFlags
  /\ Faults \subseteq FaultKinds

VARIABLES
  vault,    \* vault[v]: data, size, max_size, key, creator, cdev has been added
  sem,      \* sem[v]: TRUE unless a call ended without up
  file,     \* file[p]: the vault p has open with its flags and f_pos, or Closed
  call,     \* call[p]: the system call p is in, or Idle
  hist      \* history: hist[v]: the positions of v last stored by a write whose
            \* copy failed, or before the last change of the key

vars == <<vault, sem, file, call, hist>>

Closed == [v |-> "closed"]
Idle   == [at |-> "idle"]
Oopsed == [at |-> "oops"]   \* ended by the kernel in the middle of a call

\* vault_setup; the rest of the static array is zero.
Absent == [data |-> NullData, size |-> 0, max |-> 0, key |-> "zero",
           creator |-> Nobody, cdev |-> FALSE]

Init ==
  /\ vault = [v \in Vaults |-> Absent]
  /\ sem = [v \in Vaults |-> TRUE]
  /\ file = [p \in Procs |-> Closed]
  /\ call = [p \in Procs |-> Idle]
  /\ hist = [v \in Vaults |-> {}]

Cap(pos) == IF pos > MaxPos THEN MaxPos ELSE pos

HasPermission(p, v) == vault[v].creator = Uid[p]

-----------------------------------------------------------------------------
(* The start of a call, up to down_interruptible.                          *)

Begin(p, c) ==
  /\ call[p] = Idle
  /\ c.op \in Ops[p]
  /\ call' = [call EXCEPT ![p] = c]
  /\ UNCHANGED <<vault, sem, file, hist>>

BeginIoctl(p) ==
  \E v \in Vaults, k \in Keys, m \in MaxSizes :
    \/ Begin(p, [at |-> "down", op |-> "create", v |-> v, max |-> m, key |-> k])
    \/ Begin(p, [at |-> "down", op |-> "delete", v |-> v])
    \/ Begin(p, [at |-> "down", op |-> "erase", v |-> v])
    \/ Begin(p, [at |-> "down", op |-> "change_key", v |-> v, key |-> k])

\* sv_open without O_WRONLY or with O_APPEND: no semaphore.
Opened(v, flags) == [v |-> v, flags |-> flags, pos |-> 0]
Truncates(flags) == flags.mode = "wronly" /\ ~flags.append

OpenKeep(p, v, flags) ==
  /\ call[p] = Idle /\ "open" \in Ops[p]
  /\ file[p] = Closed /\ vault[v].cdev /\ HasPermission(p, v)
  /\ ~Truncates(flags)
  /\ file' = [file EXCEPT ![p] = Opened(v, flags)]
  /\ UNCHANGED <<vault, sem, call, hist>>

BeginOpen(p, v, flags) ==
  /\ file[p] = Closed /\ vault[v].cdev /\ HasPermission(p, v)
  /\ Truncates(flags)
  /\ Begin(p, [at |-> "down", op |-> "open", v |-> v, flags |-> flags])

\* sv_read and sv_write; the kernel checks the mode.
BeginTransfer(p, op, n) ==
  /\ file[p] # Closed
  /\ file[p].flags.mode # (IF op = "read" THEN "wronly" ELSE "rdonly")
  /\ HasPermission(p, file[p].v)
  /\ Begin(p, [at |-> "down", op |-> op, v |-> file[p].v, n |-> n])

\* sv_llseek takes no semaphore.
Seek(p) ==
  /\ file[p] # Closed /\ call[p] = Idle
  /\ HasPermission(p, file[p].v)
  /\ \E pos \in 0 .. MaxPos : file' = [file EXCEPT ![p].pos = pos]
  /\ UNCHANGED <<vault, sem, call, hist>>

\* sv_release; the file is closed whatever it returns.
Release(p) ==
  /\ file[p] # Closed /\ call[p] = Idle
  /\ file' = [file EXCEPT ![p] = Closed]
  /\ UNCHANGED <<vault, sem, call, hist>>

\* A signal while waiting: -ERESTART.
Interrupted(p) ==
  /\ "signal" \in Faults
  /\ call[p].at = "down"
  /\ call' = [call EXCEPT ![p] = Idle]
  /\ UNCHANGED <<vault, sem, file, hist>>

-----------------------------------------------------------------------------
(* The critical sections, from down to up.                                 *)

Enter(p, op) == call[p].at = "down" /\ call[p].op = op /\ sem[call[p].v]

\* up, and the return to the process.
Leave(p) == call' = [call EXCEPT ![p] = Idle] /\ UNCHANGED sem

Fail(p) == Leave(p) /\ UNCHANGED <<vault, file, hist>>

\* An access to a NULL data pointer: the kernel ends the process in the
\* middle of the call, before up.
Oops(p) ==
  /\ call' = [call EXCEPT ![p] = Oopsed]
  /\ sem' = [sem EXCEPT ![call[p].v] = FALSE]
  /\ UNCHANGED <<vault, file, hist>>

\* vault_create; kmalloc does not clear the memory.
Create(p) ==
  LET c == call[p] IN
  /\ Enter(p, "create")
  /\ \/ vault[c.v].data # NullData /\ Fail(p)
     \/ vault[c.v].data = NullData /\ "kmalloc" \in Faults /\ Fail(p)
     \/ /\ vault[c.v].data = NullData
        /\ \E added \in IF "cdev_add" \in Faults THEN BOOLEAN ELSE {TRUE} :
             vault' = [vault EXCEPT ![c.v] =
               [data |-> [i \in 0 .. c.max - 1 |-> "raw"], size |-> 0, max |-> c.max,
                key |-> c.key, creator |-> Uid[p], cdev |-> added]]
        /\ hist' = [hist EXCEPT ![c.v] = {}]
        /\ Leave(p) /\ UNCHANGED file

\* An ioctl on a vault that does not exist or belongs to somebody else.
Refused(p, op) ==
  /\ Enter(p, op)
  /\ vault[call[p].v].data = NullData \/ ~HasPermission(p, call[p].v)
  /\ Fail(p)

\* An ioctl that changes the vault to newVault.
Granted(p, op, newVault) ==
  LET v == call[p].v IN
  /\ Enter(p, op)
  /\ vault[v].data # NullData /\ HasPermission(p, v)
  /\ vault' = [vault EXCEPT ![v] = newVault]
  /\ Leave(p) /\ UNCHANGED file

\* Mutant: the size survives.
Delete_KeepSize(p) ==
  \/ Refused(p, "delete")
  \/ /\ Granted(p, "delete", [vault[call[p].v] EXCEPT
                   !.data = NullData, !.creator = Nobody, !.cdev = FALSE])
     /\ UNCHANGED hist

Delete(p) ==
  \/ Refused(p, "delete")
  \/ /\ Granted(p, "delete", [vault[call[p].v] EXCEPT
                   !.data = NullData, !.size = 0, !.creator = Nobody, !.cdev = FALSE])
     /\ UNCHANGED hist

\* crit_sv_trim.
Trimmed(v) == [vault[v] EXCEPT !.data = [i \in DOMAIN @ |-> "zero"], !.size = 0]

Erase(p) ==
  \/ Refused(p, "erase")
  \/ Granted(p, "erase", Trimmed(call[p].v)) /\ UNCHANGED hist

\* The data stays as it was encrypted: sv_read decrypts it with the new key.
ChangeKey(p) ==
  LET v == call[p].v
      k == call[p].key
  IN
  \/ Refused(p, "change_key")
  \/ /\ Granted(p, "change_key", [vault[v] EXCEPT !.key = k])
     /\ hist' = [hist EXCEPT ![v] = IF k = vault[v].key THEN @ ELSE 0 .. vault[v].max - 1]

\* sv_open of a vault to truncate; it may be gone by now.
OpenTruncate(p) ==
  LET c == call[p] IN
  /\ Enter(p, "open")
  /\ \/ vault[c.v].data = NullData /\ Oops(p)
     \/ /\ vault[c.v].data # NullData
        /\ vault' = [vault EXCEPT ![c.v] = Trimmed(c.v)]
        /\ file' = [file EXCEPT ![p] = Opened(c.v, c.flags)]
        /\ Leave(p) /\ UNCHANGED hist

\* sv_read: the bytes from f_pos up to size.
Read(p) ==
  LET pos  == file[p].pos
      rest == vault[call[p].v].size - pos
  IN
  /\ Enter(p, "read")
  /\ \/ rest < 0 /\ Fail(p)
     \/ rest >= 0 /\ Faults \cap {"kmalloc", "copy"} # {} /\ Fail(p)
     \/ /\ rest >= 0
        /\ file' = [file EXCEPT ![p].pos = pos + IF call[p].n > rest THEN rest ELSE call[p].n]
        /\ Leave(p) /\ UNCHANGED <<vault, hist>>

-----------------------------------------------------------------------------
(***************************************************************************)
(* sv_write.  With O_APPEND it seeks to the end, which moves the position  *)
(* of the file; the advance at the end starts from the position the call   *)
(* was made at.                                                            *)
(***************************************************************************)
Region(pos, n) == pos .. pos + n - 1

\* Mutant: the end is the one the call found before it waited.
Start_Stale(p) == file[p].pos

Start(p) == IF file[p].flags.append THEN vault[call[p].v].size ELSE file[p].pos

\* Mutant: the start may lie beyond the end of the data.
StartValid_Hole(p) == Start(p) <= vault[call[p].v].max

StartValid(p) ==
  /\ Start(p) <= vault[call[p].v].size
  /\ file[p].flags.append => HasPermission(p, call[p].v)

\* Mutant: compares the end of the write with max_size + 1.
Fits_OffByOne(p) == Start(p) + call[p].n <= vault[call[p].v].max + 1

Fits(p) == Start(p) + call[p].n <= vault[call[p].v].max

\* A rejected or failing append has moved the position all the same.
WriteError(p) ==
  /\ file' = [file EXCEPT ![p].pos = IF HasPermission(p, call[p].v) THEN Start(p) ELSE @]
  /\ Leave(p)

WriteRejected(p) ==
  /\ Enter(p, "write")
  /\ ~StartValid(p) \/ ~Fits(p)
  /\ WriteError(p) /\ UNCHANGED <<vault, hist>>

\* The vault was deleted while the call waited.
WriteNull(p) ==
  /\ Enter(p, "write")
  /\ StartValid(p) /\ Fits(p) /\ vault[call[p].v].data = NullData
  /\ Oops(p) \/ Fail(p)

\* copy_from_user stores some bytes, clears the others and reports it.
CopyFails(p) ==
  LET v == call[p].v IN
  /\ "copy" \in Faults
  /\ Enter(p, "write")
  /\ StartValid(p) /\ Fits(p) /\ vault[v].data # NullData
  /\ \E m \in 0 .. call[p].n - 1 :
       vault' = [vault EXCEPT ![v].data = [i \in DOMAIN @ |->
                   IF i \in Region(Start(p), m) THEN "plain"
                   ELSE IF i \in Region(Start(p), call[p].n) THEN "zero" ELSE @[i]]]
  /\ hist' = [hist EXCEPT ![v] = @ \cup Region(Start(p), call[p].n)]
  /\ WriteError(p)

Write(p) ==
  LET v == call[p].v
      last == Start(p) + call[p].n
  IN
  /\ Enter(p, "write")
  /\ StartValid(p) /\ Fits(p) /\ vault[v].data # NullData
  /\ vault' = [vault EXCEPT
       ![v].data = [i \in DOMAIN @ |->
                      IF i \in Region(Start(p), call[p].n) THEN vault[v].key ELSE @[i]],
       ![v].size = IF last >= @ THEN last ELSE @]
  /\ file' = [file EXCEPT ![p].pos = Cap(@ + call[p].n)]
  /\ hist' = [hist EXCEPT ![v] = @ \ Region(Start(p), call[p].n)]
  /\ Leave(p)

-----------------------------------------------------------------------------
Critical(p) ==
  \/ Create(p) \/ Delete(p) \/ Erase(p) \/ ChangeKey(p)
  \/ OpenTruncate(p) \/ Read(p)
  \/ WriteRejected(p) \/ WriteNull(p) \/ CopyFails(p) \/ Write(p)

Next ==
  \E p \in Procs :
    \/ BeginIoctl(p)
    \/ \E v \in Vaults, flags \in OpenFlags[p] : OpenKeep(p, v, flags) \/ BeginOpen(p, v, flags)
    \/ \E n \in Counts, op \in {"read", "write"} : BeginTransfer(p, op, n)
    \/ Seek(p) \/ Release(p) \/ Interrupted(p)
    \/ Critical(p)

Spec == Init /\ [][Next]_vars

-----------------------------------------------------------------------------
(* Properties.                                                             *)

DataType == {NullData} \cup UNION {[0 .. m - 1 -> Keys \cup NoKey] : m \in MaxSizes}

VaultType ==
  [data: DataType, size: 0 .. MaxPos - 1, max: MaxSizes \cup {0}, key: Keys \cup {"zero"},
   creator: {Nobody} \cup {Uid[p] : p \in Procs}, cdev: BOOLEAN]

FileType == {Closed} \cup [v: Vaults, flags: AllFlags, pos: 0 .. MaxPos]

Waiting(op)  == [at: {"down"}, op: op, v: Vaults]
CreateCall   == [at: {"down"}, op: {"create"}, v: Vaults, max: MaxSizes, key: Keys]
KeyCall      == [at: {"down"}, op: {"change_key"}, v: Vaults, key: Keys]
OpenCall     == [at: {"down"}, op: {"open"}, v: Vaults, flags: AllFlags]
TransferCall == [at: {"down"}, op: {"read", "write"}, v: Vaults, n: Counts]

CallType == {Idle, Oopsed} \cup CreateCall \cup Waiting({"delete", "erase"})
              \cup KeyCall \cup OpenCall \cup TransferCall

\* The types of the variables.
TypeOK ==
  /\ vault \in [Vaults -> VaultType]
  /\ sem \in [Vaults -> BOOLEAN]
  /\ file \in [Procs -> FileType]
  /\ call \in [Procs -> CallType]
  /\ hist \in [Vaults -> SUBSET (0 .. MaxPos)]

(***************************************************************************)
(* Whatever calls raced, a vault's size lies within its allocation, and    *)
(* nothing of a deleted vault's size is left when the next create or a     *)
(* write that waited sees it.                                              *)
(***************************************************************************)
SizeBounded ==
  \A v \in Vaults : vault[v].size <= IF vault[v].data = NullData THEN 0 ELSE vault[v].max

(***************************************************************************)
(* sv_read hands out bytes below size only, and decrypts with the key the  *)
(* vault has.  Each of them was stored by a write since the vault was      *)
(* created (no uninitialised memory, no hole, no byte of an earlier vault) *)
(* and is encrypted under that key, at each position where no write failed *)
(* to copy and the key was not changed since.  secvault.h:82 promises more *)
(* than that: "change the key of a vault and re-encrypt the data", but     *)
(* vault_change_key leaves the data alone.                                 *)
(***************************************************************************)
ReadsBack ==
  \A v \in Vaults : \A i \in 0 .. vault[v].size - 1 :
    /\ vault[v].data[i] # "raw"
    /\ i \notin hist[v] => vault[v].data[i] = vault[v].key

(***************************************************************************)
(* A write to a vault opened with O_APPEND, finished or failed, leaves the *)
(* bytes that are there as they are, however many others wrote, erased or  *)
(* created between its start and its turn.                                 *)
(***************************************************************************)
Appends(p) ==
  /\ call[p].at = "down" /\ call[p].op = "write" /\ file[p].flags.append
  /\ call'[p] # call[p]

AppendOnly ==
  [][\A p \in Procs : Appends(p) =>
       LET v == call[p].v IN
       /\ vault'[v].size >= vault[v].size
       /\ \A i \in 0 .. vault[v].size - 1 : vault'[v].data[i] = vault[v].data[i]]_vars

-----------------------------------------------------------------------------
(* The inductive invariant behind SizeBounded and ReadsBack.               *)

\* An allocated vault has max_size bytes and a key.
AllocInv ==
  \A v \in Vaults : vault[v].data # NullData =>
    DOMAIN vault[v].data = 0 .. vault[v].max - 1 /\ vault[v].key \in Keys

\* A process in sv_read or sv_write has the vault open.
CallInv == \A p \in Procs : call[p] \in TransferCall => file[p] # Closed /\ file[p].v = call[p].v

IInv == TypeOK /\ AllocInv /\ CallInv /\ SizeBounded /\ ReadsBack
=============================================================================
