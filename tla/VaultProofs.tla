----------------------------- MODULE VaultProofs -----------------------------
(***************************************************************************)
(* Theorems about Vault, for any processes, users, vaults and sizes: the   *)
(* size of a vault lies within its allocation, what can be read was        *)
(* written, and appends overwrite nothing.                                 *)
(***************************************************************************)
EXTENDS Vault, TLAPS

\* What the invariant says of one vault n with history h.
Sound(n, h) ==
  /\ n.data # NullData => DOMAIN n.data = 0 .. n.max - 1 /\ n.key \in Keys
  /\ n.size <= IF n.data = NullData THEN 0 ELSE n.max
  /\ \A i \in 0 .. n.size - 1 :
       n.data[i] # "raw" /\ (i \notin h => n.data[i] = n.key)

HistType == SUBSET (0 .. MaxPos)

\* The sizes fit into a file position.
LEMMA Sizes ==
  /\ MaxPos \in Nat \ {0}
  /\ \A m \in MaxSizes : m \in 1 .. MaxPos - 1
  /\ \A n \in Counts : n \in Nat \ {0}
<1>1. MaxPos \in Nat \ {0} /\ MaxSizes \subseteq 1 .. MaxPos - 1 /\ Counts \subseteq Nat \ {0}
  BY VaultAssumption, Zenon
<1> QED BY <1>1

-----------------------------------------------------------------------------
(* The initial state.                                                      *)

\* vault_setup establishes the invariant.
LEMMA InitIInv == Init => IInv
<1> SUFFICES ASSUME Init PROVE IInv
  OBVIOUS
<1>1. Absent \in VaultType
  BY VaultAssumption DEF Absent, VaultType, DataType
<1>2. TypeOK
  BY <1>1 DEF Init, TypeOK, FileType, CallType
<1>3. AllocInv /\ SizeBounded /\ ReadsBack
  BY DEF Init, Absent, AllocInv, SizeBounded, ReadsBack
<1>4. CallInv
  BY DEF Init, CallInv, TransferCall, Idle
<1> QED BY <1>2, <1>3, <1>4 DEF IInv

-----------------------------------------------------------------------------
(* Steps that do not change the vaults.                                    *)

\* Such a step has to keep the types of files and calls, and their relation.
LEMMA QuietStep ==
  ASSUME IInv, UNCHANGED <<vault, hist>>,
         sem' \in [Vaults -> BOOLEAN], file' \in [Procs -> FileType],
         call' \in [Procs -> CallType], CallInv'
  PROVE  IInv'
<1>1. TypeOK'
  BY DEF IInv, TypeOK
<1>2. (AllocInv /\ SizeBounded /\ ReadsBack)'
  BY DEF IInv, AllocInv, SizeBounded, ReadsBack
<1> QED BY <1>1, <1>2 DEF IInv

\* The start of a call.
LEMMA BeginStep ==
  ASSUME IInv, NEW p \in Procs, NEW c \in CallType, Begin(p, c),
         c \in TransferCall => file[p] # Closed /\ file[p].v = c.v
  PROVE  IInv'
<1>1. call' = [call EXCEPT ![p] = c] /\ UNCHANGED <<vault, sem, file, hist>>
  BY DEF Begin
<1>2. call' \in [Procs -> CallType]
  BY <1>1 DEF IInv, TypeOK
<1>3. CallInv'
  BY <1>1 DEF IInv, TypeOK, CallInv
<1> QED BY <1>1, <1>2, <1>3, QuietStep DEF IInv, TypeOK

\* The ioctls start.
LEMMA BeginIoctlStep ==
  ASSUME IInv, NEW p \in Procs, BeginIoctl(p)
  PROVE  IInv'
<1>1. PICK v \in Vaults, k \in Keys, m \in MaxSizes :
        \/ Begin(p, [at |-> "down", op |-> "create", v |-> v, max |-> m, key |-> k])
        \/ Begin(p, [at |-> "down", op |-> "delete", v |-> v])
        \/ Begin(p, [at |-> "down", op |-> "erase", v |-> v])
        \/ Begin(p, [at |-> "down", op |-> "change_key", v |-> v, key |-> k])
  BY DEF BeginIoctl
<1>2. /\ [at |-> "down", op |-> "create", v |-> v, max |-> m, key |-> k] \in CallType \ TransferCall
      /\ [at |-> "down", op |-> "delete", v |-> v] \in CallType \ TransferCall
      /\ [at |-> "down", op |-> "erase", v |-> v] \in CallType \ TransferCall
      /\ [at |-> "down", op |-> "change_key", v |-> v, key |-> k] \in CallType \ TransferCall
  BY DEF CallType, CreateCall, Waiting, KeyCall, TransferCall
<1> QED BY <1>1, <1>2, BeginStep

\* sv_open, sv_read and sv_write start.
LEMMA BeginFileStep ==
  ASSUME IInv, NEW p \in Procs,
         \/ \E v \in Vaults, flags \in OpenFlags[p] : BeginOpen(p, v, flags)
         \/ \E n \in Counts, op \in {"read", "write"} : BeginTransfer(p, op, n)
  PROVE  IInv'
<1>1. ASSUME NEW v \in Vaults, NEW flags \in OpenFlags[p], BeginOpen(p, v, flags) PROVE IInv'
  <2> DEFINE c == [at |-> "down", op |-> "open", v |-> v, flags |-> flags]
  <2>1. c \in CallType \ TransferCall
    BY VaultAssumption DEF CallType, OpenCall, TransferCall
  <2>2. Begin(p, c)
    BY <1>1 DEF BeginOpen
  <2> QED BY <2>1, <2>2, BeginStep
<1>2. ASSUME NEW n \in Counts, NEW op \in {"read", "write"}, BeginTransfer(p, op, n) PROVE IInv'
  <2> DEFINE c == [at |-> "down", op |-> op, v |-> file[p].v, n |-> n]
  <2>1. file[p] # Closed /\ Begin(p, c)
    BY <1>2 DEF BeginTransfer
  <2>2. file[p].v \in Vaults
    BY <2>1 DEF IInv, TypeOK, FileType
  <2>3. c \in CallType
    BY <2>2 DEF CallType, TransferCall
  <2> QED BY <2>1, <2>3, BeginStep
<1> QED BY <1>1, <1>2

\* A process that is in no call, or leaves one, changes its file.
LEMMA FileStep ==
  ASSUME IInv, NEW p \in Procs, NEW c \in {Idle, Oopsed}, NEW f \in FileType,
         call' = [call EXCEPT ![p] = c], file' = [file EXCEPT ![p] = f],
         sem' \in [Vaults -> BOOLEAN]
  PROVE  /\ call' \in [Procs -> CallType] /\ file' \in [Procs -> FileType]
         /\ CallInv'
<1>1. c \in CallType \ TransferCall
  BY DEF CallType, TransferCall, Idle, Oopsed
<1> QED BY <1>1 DEF IInv, TypeOK, CallInv

\* Steps of open, llseek, release, and interrupted waits.
LEMMA FileOnlyStep ==
  ASSUME IInv, NEW p \in Procs,
         \/ \E v \in Vaults, flags \in OpenFlags[p] : OpenKeep(p, v, flags)
         \/ Seek(p) \/ Release(p) \/ Interrupted(p)
  PROVE  IInv'
<1>1. file[p] \in FileType /\ sem \in [Vaults -> BOOLEAN]
      /\ file \in [Procs -> FileType] /\ call \in [Procs -> CallType]
  BY DEF IInv, TypeOK
<1>2. ASSUME NEW f \in FileType, file' = [file EXCEPT ![p] = f],
             call[p] = Idle, UNCHANGED <<vault, sem, call, hist>>
      PROVE  IInv'
  <2>1. call' = [call EXCEPT ![p] = Idle]
    BY <1>1, <1>2
  <2> QED BY <1>1, <1>2, <2>1, FileStep, QuietStep
<1>3. ASSUME NEW v \in Vaults, NEW flags \in OpenFlags[p], OpenKeep(p, v, flags) PROVE IInv'
  <2>1. Opened(v, flags) \in FileType
    BY VaultAssumption DEF Opened, FileType
  <2> QED BY <1>2, <1>3, <2>1 DEF OpenKeep
<1>4. CASE Seek(p)
  <2>1. PICK pos \in 0 .. MaxPos : file' = [file EXCEPT ![p].pos = pos]
    BY <1>4 DEF Seek
  <2>2. [file[p] EXCEPT !.pos = pos] \in FileType
    BY <1>1, <1>4 DEF FileType, Seek
  <2> QED BY <1>2, <1>4, <2>1, <2>2 DEF Seek
<1>5. CASE Release(p)
  BY <1>2, <1>5 DEF Release, FileType
<1>6. CASE Interrupted(p)
  <2>1. file' = [file EXCEPT ![p] = file[p]]
    BY <1>1, <1>6 DEF Interrupted
  <2> QED BY <1>1, <1>6, <2>1, FileStep, QuietStep DEF Interrupted
<1> QED BY <1>3, <1>4, <1>5, <1>6

-----------------------------------------------------------------------------
(* Critical sections.                                                      *)

\* A call that fails, or is ended by the kernel, changes no vault.
LEMMA FailStep ==
  ASSUME IInv, NEW p \in Procs, Fail(p) \/ Oops(p)
  PROVE  IInv'
<1>1. sem' \in [Vaults -> BOOLEAN] /\ file' = [file EXCEPT ![p] = file[p]]
  BY DEF Fail, Leave, Oops, IInv, TypeOK
<1>2. file[p] \in FileType
  BY DEF IInv, TypeOK
<1> QED BY <1>1, <1>2, FileStep, QuietStep DEF Fail, Leave, Oops

\* A call that leaves one vault in the state n, with the history h.
LEMMA ChangeStep ==
  ASSUME IInv, NEW p \in Procs, NEW v \in Vaults, NEW f \in FileType,
         NEW n \in VaultType, NEW h \in HistType, Sound(n, h),
         Leave(p), file' = [file EXCEPT ![p] = f],
         vault' = [vault EXCEPT ![v] = n], hist' = [hist EXCEPT ![v] = h]
  PROVE  IInv'
<1>1. /\ call' \in [Procs -> CallType] /\ file' \in [Procs -> FileType] /\ CallInv'
      /\ sem' \in [Vaults -> BOOLEAN]
  BY FileStep DEF Leave, IInv, TypeOK
<1>2. TypeOK'
  BY <1>1 DEF IInv, TypeOK, HistType
<1>3. \A w \in Vaults \ {v} : vault'[w] = vault[w] /\ hist'[w] = hist[w]
  BY DEF IInv, TypeOK
<1>4. vault'[v] = n /\ hist'[v] = h
  BY DEF IInv, TypeOK
<1>5. AllocInv'
  BY <1>3, <1>4 DEF IInv, AllocInv, Sound
<1>6. SizeBounded'
  BY <1>3, <1>4 DEF IInv, SizeBounded, Sound
<1>7. ReadsBack'
  BY <1>3, <1>4 DEF IInv, ReadsBack, Sound
<1> QED BY <1>1, <1>2, <1>5, <1>6, <1>7 DEF IInv

\* What the invariant says of one vault.
LEMMA OneVault ==
  ASSUME IInv, NEW v \in Vaults
  PROVE  /\ vault[v] \in VaultType /\ hist[v] \in HistType
         /\ vault[v].size \in 0 .. MaxPos - 1 /\ vault[v].max \in 0 .. MaxPos - 1
         /\ Sound(vault[v], hist[v])
<1>1. vault[v] \in VaultType /\ hist[v] \in HistType
  BY DEF IInv, TypeOK, HistType
<1>2. vault[v].size \in 0 .. MaxPos - 1 /\ vault[v].max \in MaxSizes \cup {0}
  BY <1>1 DEF VaultType
<1>3. vault[v].max \in 0 .. MaxPos - 1
  BY <1>2, Sizes
<1>4. Sound(vault[v], hist[v])
  BY DEF IInv, AllocInv, SizeBounded, ReadsBack, Sound
<1> QED BY <1>1, <1>2, <1>3, <1>4

\* Replacing the bytes of an allocated vault keeps its type.
LEMMA SameDomain ==
  ASSUME IInv, NEW v \in Vaults, vault[v].data # NullData, NEW d,
         d \in [DOMAIN vault[v].data -> Keys \cup NoKey]
  PROVE  d \in DataType
<1>1. vault[v].data \in DataType
  BY OneVault DEF VaultType
<1>2. PICK m \in MaxSizes : vault[v].data \in [0 .. m - 1 -> Keys \cup NoKey]
  BY <1>1 DEF DataType
<1> QED BY <1>2 DEF DataType

\* An allocated vault has a first byte, and its bytes have their type.
LEMMA Allocated ==
  ASSUME IInv, NEW v \in Vaults, vault[v].data # NullData
  PROVE  /\ 0 \in DOMAIN vault[v].data
         /\ \A i \in DOMAIN vault[v].data : vault[v].data[i] \in Keys \cup NoKey
<1>1. vault[v].data \in DataType
  BY OneVault DEF VaultType
<1>2. PICK m \in MaxSizes : vault[v].data \in [0 .. m - 1 -> Keys \cup NoKey]
  BY <1>1 DEF DataType
<1>3. 0 \in 0 .. m - 1
  BY Sizes
<1> QED BY <1>2, <1>3

\* Data with a first byte is not NULL.
LEMMA NotNull ==
  ASSUME NEW d, 0 \in DOMAIN d
  PROVE  d # NullData
BY DEF NullData

\* A vault is created.
LEMMA CreateStep ==
  ASSUME IInv, NEW p \in Procs, Create(p)
  PROVE  IInv'
<1> DEFINE c == call[p]
<1>1. call[p] \in CreateCall
  BY DEF Create, Enter, IInv, TypeOK, CallType, Idle, Oopsed, CreateCall, Waiting, KeyCall,
         OpenCall, TransferCall
<1>2. c.v \in Vaults /\ c.max \in MaxSizes /\ c.key \in Keys
  BY <1>1 DEF CreateCall
<1>3. CASE Fail(p)
  BY <1>3, FailStep
<1>4. ASSUME NEW added \in BOOLEAN, Leave(p), UNCHANGED file,
             hist' = [hist EXCEPT ![c.v] = {}],
             vault' = [vault EXCEPT ![c.v] =
               [data |-> [i \in 0 .. c.max - 1 |-> "raw"], size |-> 0, max |-> c.max,
                key |-> c.key, creator |-> Uid[p], cdev |-> added]]
      PROVE  IInv'
  <2> DEFINE d == [i \in 0 .. c.max - 1 |-> "raw"]
             n == [data |-> d, size |-> 0, max |-> c.max,
                   key |-> c.key, creator |-> Uid[p], cdev |-> added]
             h == {}
  <2>1. d \in DataType /\ DOMAIN d = 0 .. c.max - 1
    BY <1>2 DEF DataType, NoKey
  <2>2. n \in VaultType /\ h \in HistType
    BY <1>2, <2>1, Sizes DEF VaultType, HistType
  <2>3. file' = [file EXCEPT ![p] = file[p]] /\ file[p] \in FileType
    BY <1>4 DEF IInv, TypeOK
  <2>4. n.size <= IF n.data = NullData THEN 0 ELSE n.max
    BY <1>2, Sizes
  <2>5. Sound(n, h)
    BY <1>2, <2>1, <2>4 DEF Sound
  <2>6. vault' = [vault EXCEPT ![c.v] = n] /\ hist' = [hist EXCEPT ![c.v] = h]
    BY <1>4
  <2> HIDE DEF n, h, c
  <2> QED BY <1>2, <1>4, <2>2, <2>3, <2>5, <2>6, ChangeStep
<1> QED BY <1>3, <1>4 DEF Create

\* An ioctl on an existing vault: one step for what all of them share.
LEMMA GrantedStep ==
  ASSUME IInv, NEW p \in Procs, NEW op, NEW v \in Vaults, v = call[p].v,
         NEW n \in VaultType, NEW h \in HistType, Sound(n, h),
         Granted(p, op, n), hist' = [hist EXCEPT ![v] = h]
  PROVE  IInv'
<1>1. Leave(p) /\ file' = [file EXCEPT ![p] = file[p]] /\ file[p] \in FileType
      /\ vault' = [vault EXCEPT ![v] = n]
  BY DEF Granted, IInv, TypeOK
<1> QED BY <1>1, ChangeStep

\* The vault of a call that waits.
LEMMA CallVault ==
  ASSUME IInv, NEW p \in Procs, NEW op, Enter(p, op)
  PROVE  /\ call[p].v \in Vaults /\ call[p] \in CallType
         /\ op = "change_key" => call[p].key \in Keys
         /\ op = "open" => call[p].flags \in AllFlags
         /\ op \in {"read", "write"} => call[p] \in TransferCall
<1>1. call[p] \in CallType /\ call[p] # Idle /\ call[p] # Oopsed /\ call[p].op = op
  BY DEF Enter, IInv, TypeOK, Idle, Oopsed
<1>2. CASE call[p] \in CreateCall
  BY <1>1, <1>2 DEF CreateCall
<1>3. CASE call[p] \in Waiting({"delete", "erase"})
  BY <1>1, <1>3 DEF Waiting
<1>4. CASE call[p] \in KeyCall
  BY <1>1, <1>4 DEF KeyCall
<1>5. CASE call[p] \in OpenCall
  BY <1>1, <1>5 DEF OpenCall
<1>6. CASE call[p] \in TransferCall
  BY <1>1, <1>6 DEF TransferCall
<1> QED BY <1>1, <1>2, <1>3, <1>4, <1>5, <1>6 DEF CallType

\* A vault is deleted.
LEMMA DeleteStep ==
  ASSUME IInv, NEW p \in Procs, Delete(p)
  PROVE  IInv'
<1> DEFINE v == call[p].v
           n == [vault[v] EXCEPT !.data = NullData, !.size = 0, !.creator = Nobody, !.cdev = FALSE]
<1>1. CASE Refused(p, "delete")
  BY <1>1, FailStep DEF Refused
<1>2. ASSUME Granted(p, "delete", n), UNCHANGED hist PROVE IInv'
  <2>1. v \in Vaults
    BY <1>2, CallVault DEF Granted
  <2>2. vault[v] \in VaultType /\ hist[v] \in HistType
    BY <2>1, OneVault
  <2>3. n \in VaultType
    <3>1. 0 \in 0 .. MaxPos - 1 /\ NullData \in DataType
      BY Sizes DEF DataType
    <3> QED BY <2>2, <3>1 DEF VaultType
  <2>4. n.data = NullData /\ n.size = 0
    BY <2>2 DEF VaultType
  <2>5. Sound(n, hist[v])
    BY <2>4 DEF Sound
  <2>6. hist' = [hist EXCEPT ![v] = hist[v]]
    BY <1>2, <2>1 DEF IInv, TypeOK
  <2> HIDE DEF n
  <2> QED BY <1>2, <2>1, <2>2, <2>3, <2>5, <2>6, GrantedStep
<1> QED BY <1>1, <1>2 DEF Delete

\* What crit_sv_trim makes of an allocated vault.
LEMMA TrimmedSound ==
  ASSUME IInv, NEW v \in Vaults, vault[v].data # NullData
  PROVE  Trimmed(v) \in VaultType /\ Sound(Trimmed(v), hist[v])
<1> DEFINE d == [i \in DOMAIN vault[v].data |-> "zero"]
<1>1. /\ vault[v] \in VaultType /\ Sound(vault[v], hist[v]) /\ vault[v].max \in 0 .. MaxPos - 1
  BY OneVault
<1>2. d \in DataType
  BY SameDomain DEF NoKey
<1>3. Trimmed(v) = [vault[v] EXCEPT !.data = d, !.size = 0]
  BY DEF Trimmed
<1>4. Trimmed(v) \in VaultType
  <2>1. 0 \in 0 .. MaxPos - 1
    BY Sizes
  <2> HIDE DEF d
  <2> QED BY <1>1, <1>2, <1>3, <2>1 DEF VaultType
<1>5. /\ Trimmed(v).data = d /\ Trimmed(v).size = 0 /\ Trimmed(v).max = vault[v].max
      /\ Trimmed(v).key = vault[v].key
  BY <1>1, <1>3 DEF VaultType
<1>6. DOMAIN d = 0 .. vault[v].max - 1 /\ vault[v].key \in Keys
  BY <1>1 DEF Sound
<1>7. Trimmed(v).size <= IF Trimmed(v).data = NullData THEN 0 ELSE Trimmed(v).max
  BY <1>1, <1>5, Sizes
<1>8. Sound(Trimmed(v), hist[v])
  BY <1>5, <1>6, <1>7 DEF Sound
<1> QED BY <1>4, <1>8

\* A vault is erased.
LEMMA EraseStep ==
  ASSUME IInv, NEW p \in Procs, Erase(p)
  PROVE  IInv'
<1> DEFINE v == call[p].v
<1>1. CASE Refused(p, "erase")
  BY <1>1, FailStep DEF Refused
<1>2. ASSUME Granted(p, "erase", Trimmed(v)), UNCHANGED hist PROVE IInv'
  <2>1. v \in Vaults /\ vault[v].data # NullData
    BY <1>2, CallVault DEF Granted
  <2>2. hist[v] \in HistType
    BY <2>1, OneVault
  <2>3. hist' = [hist EXCEPT ![v] = hist[v]]
    BY <1>2, <2>1 DEF IInv, TypeOK
  <2> QED BY <1>2, <2>1, <2>2, <2>3, TrimmedSound, GrantedStep
<1> QED BY <1>1, <1>2 DEF Erase

\* A vault gets a new key.
LEMMA ChangeKeyStep ==
  ASSUME IInv, NEW p \in Procs, ChangeKey(p)
  PROVE  IInv'
<1> DEFINE v == call[p].v
           k == call[p].key
           n == [vault[v] EXCEPT !.key = k]
           h == IF k = vault[v].key THEN hist[v] ELSE 0 .. vault[v].max - 1
<1>1. CASE Refused(p, "change_key")
  BY <1>1, FailStep DEF Refused
<1>2. ASSUME Granted(p, "change_key", n), hist' = [hist EXCEPT ![v] = h] PROVE IInv'
  <2>1. v \in Vaults /\ k \in Keys /\ vault[v].data # NullData
    BY <1>2, CallVault DEF Granted
  <2>2. vault[v] \in VaultType /\ hist[v] \in HistType /\ Sound(vault[v], hist[v])
    BY <2>1, OneVault
  <2>3. n \in VaultType /\ h \in HistType /\ vault[v].size \in Nat /\ vault[v].max \in Nat
    <3>1. vault[v].size \in Nat /\ vault[v].max \in 0 .. MaxPos - 1
      BY <2>1, OneVault, Sizes
    <3> QED BY <2>1, <2>2, <3>1, Sizes DEF VaultType, HistType
  <2>4. /\ n.data = vault[v].data /\ n.size = vault[v].size /\ n.max = vault[v].max /\ n.key = k
    BY <2>2 DEF VaultType
  <2>5. Sound(n, h)
    <3>1. \A i \in 0 .. vault[v].size - 1 : i \notin h => vault[v].data[i] = k
      BY <2>1, <2>2, <2>3 DEF Sound
    <3> HIDE DEF n, h
    <3> QED BY <2>1, <2>2, <2>4, <3>1 DEF Sound
  <2>6. hist' = [hist EXCEPT ![v] = h]
    BY <1>2
  <2> HIDE DEF n, h
  <2> QED BY <1>2, <2>1, <2>3, <2>5, <2>6, GrantedStep
<1> QED BY <1>1, <1>2 DEF ChangeKey

\* A truncating open gets its turn.
LEMMA OpenStep ==
  ASSUME IInv, NEW p \in Procs, OpenTruncate(p)
  PROVE  IInv'
<1> DEFINE c == call[p]
<1>1. c.v \in Vaults /\ c.flags \in AllFlags
  BY CallVault DEF OpenTruncate
<1>2. CASE Oops(p)
  BY <1>2, FailStep
<1>3. ASSUME vault[c.v].data # NullData, vault' = [vault EXCEPT ![c.v] = Trimmed(c.v)],
             file' = [file EXCEPT ![p] = Opened(c.v, c.flags)], Leave(p), UNCHANGED hist
      PROVE  IInv'
  <2>1. Opened(c.v, c.flags) \in FileType
    BY <1>1, Sizes DEF Opened, FileType
  <2>2. hist[c.v] \in HistType /\ hist' = [hist EXCEPT ![c.v] = hist[c.v]]
    BY <1>1, <1>3, OneVault DEF IInv, TypeOK
  <2> QED BY <1>1, <1>3, <2>1, <2>2, TrimmedSound, ChangeStep
<1> QED BY <1>2, <1>3 DEF OpenTruncate

\* A file as sv_read and sv_write find it.
LEMMA TransferFile ==
  ASSUME IInv, NEW p \in Procs, NEW op \in {"read", "write"}, Enter(p, op)
  PROVE  /\ file[p] \in [v: Vaults, flags: AllFlags, pos: 0 .. MaxPos]
         /\ file[p].v = call[p].v /\ call[p].v \in Vaults /\ call[p].n \in Nat \ {0}
         /\ \A pos \in 0 .. MaxPos : [file[p] EXCEPT !.pos = pos] \in FileType
<1>1. call[p] \in TransferCall
  BY CallVault
<1>2. call[p].v \in Vaults /\ call[p].n \in Counts
  BY <1>1 DEF TransferCall
<1>3. call[p].n \in Nat \ {0}
  BY <1>2, Sizes
<1>4. file[p] \in FileType /\ file[p] # Closed /\ file[p].v = call[p].v
  BY <1>1 DEF IInv, TypeOK, CallInv
<1>5. file[p] \in [v: Vaults, flags: AllFlags, pos: 0 .. MaxPos]
  BY <1>4 DEF FileType
<1>6. \A pos \in 0 .. MaxPos : [file[p] EXCEPT !.pos = pos] \in FileType
  BY <1>5 DEF FileType
<1> QED BY <1>2, <1>3, <1>4, <1>5, <1>6

\* A call that leaves, and moves the position of its file to pos.
LEMMA MoveStep ==
  ASSUME IInv, NEW p \in Procs, NEW f \in FileType, Leave(p),
         file' = [file EXCEPT ![p] = f], UNCHANGED <<vault, hist>>
  PROVE  IInv'
BY FileStep, QuietStep DEF Leave, IInv, TypeOK

\* A read gets its turn.
LEMMA ReadStep ==
  ASSUME IInv, NEW p \in Procs, Read(p)
  PROVE  IInv'
<1> DEFINE pos  == file[p].pos
           rest == vault[call[p].v].size - pos
           to   == pos + (IF call[p].n > rest THEN rest ELSE call[p].n)
<1>1. Enter(p, "read")
  BY DEF Read
<1>2. call[p].n \in Nat /\ call[p].v \in Vaults /\ pos \in 0 .. MaxPos
  BY <1>1, TransferFile
<1>3. CASE Fail(p)
  BY <1>3, FailStep
<1>4. ASSUME rest >= 0, file' = [file EXCEPT ![p].pos = to], Leave(p), UNCHANGED <<vault, hist>>
      PROVE  IInv'
  <2>1. vault[call[p].v].size \in 0 .. MaxPos - 1
    BY <1>2, OneVault
  <2>2. to \in 0 .. MaxPos
    BY <1>2, <1>4, <2>1, Sizes
  <2>3. [file[p] EXCEPT !.pos = to] \in FileType
    BY <1>1, <2>2, TransferFile
  <2>4. file' = [file EXCEPT ![p] = [file[p] EXCEPT !.pos = to]]
    BY <1>4
  <2> HIDE DEF to
  <2> QED BY <1>4, <2>3, <2>4, MoveStep
<1> QED BY <1>3, <1>4 DEF Read

\* The start of a write lies within the file positions.
LEMMA StartPos ==
  ASSUME IInv, NEW p \in Procs, Enter(p, "write")
  PROVE  Start(p) \in 0 .. MaxPos
<1>1. call[p].v \in Vaults /\ file[p].pos \in 0 .. MaxPos
  BY TransferFile
<1>2. vault[call[p].v].size \in 0 .. MaxPos - 1
  BY <1>1, OneVault
<1> QED BY <1>1, <1>2, Sizes DEF Start

\* The file after a write that is rejected or fails.
LEMMA ErrorFile ==
  ASSUME IInv, NEW p \in Procs, Enter(p, "write"), WriteError(p)
  PROVE  Leave(p) /\ \E f \in FileType : file' = [file EXCEPT ![p] = f]
<1> DEFINE to == IF HasPermission(p, call[p].v) THEN Start(p) ELSE file[p].pos
<1>1. Leave(p) /\ file' = [file EXCEPT ![p] = [file[p] EXCEPT !.pos = to]]
  BY DEF WriteError
<1>2. to \in 0 .. MaxPos
  BY StartPos, TransferFile
<1>3. [file[p] EXCEPT !.pos = to] \in FileType
  BY <1>2, TransferFile
<1> HIDE DEF to
<1> QED BY <1>1, <1>3

\* A write is rejected.
LEMMA RejectStep ==
  ASSUME IInv, NEW p \in Procs, WriteRejected(p)
  PROVE  IInv'
<1>1. Enter(p, "write") /\ WriteError(p) /\ UNCHANGED <<vault, hist>>
  BY DEF WriteRejected
<1>2. PICK f \in FileType : file' = [file EXCEPT ![p] = f]
  BY <1>1, ErrorFile
<1> QED BY <1>1, <1>2, ErrorFile, MoveStep

\* A copy fails: the bytes it touched are in the clear or cleared.
LEMMA CopyFailsStep ==
  ASSUME IInv, NEW p \in Procs, CopyFails(p)
  PROVE  IInv'
<1> DEFINE v == call[p].v
           h == hist[v] \cup Region(Start(p), call[p].n)
<1>1. Enter(p, "write") /\ WriteError(p) /\ vault[v].data # NullData /\ v \in Vaults
  BY TransferFile DEF CopyFails
<1>2. PICK f \in FileType : file' = [file EXCEPT ![p] = f]
  BY <1>1, ErrorFile
<1>3. /\ vault[v] \in VaultType /\ hist[v] \in HistType /\ Sound(vault[v], hist[v])
  BY <1>1, OneVault
<1>4. PICK m \in 0 .. call[p].n - 1 :
        vault' = [vault EXCEPT ![v].data = [i \in DOMAIN @ |->
                   IF i \in Region(Start(p), m) THEN "plain"
                   ELSE IF i \in Region(Start(p), call[p].n) THEN "zero" ELSE @[i]]]
  BY DEF CopyFails
<1> DEFINE d == [i \in DOMAIN vault[v].data |->
                   IF i \in Region(Start(p), m) THEN "plain"
                   ELSE IF i \in Region(Start(p), call[p].n) THEN "zero" ELSE vault[v].data[i]]
           n == [vault[v] EXCEPT !.data = d]
<1>5. vault' = [vault EXCEPT ![v] = n]
  BY <1>4
<1>6. \A i \in DOMAIN vault[v].data : vault[v].data[i] \in Keys \cup NoKey
  BY <1>1, Allocated
<1>7. d \in DataType
  BY <1>1, <1>6, SameDomain DEF NoKey
<1>8. /\ h \in HistType /\ Region(Start(p), m) \subseteq Region(Start(p), call[p].n)
      /\ vault[v].size \in 0 .. MaxPos - 1 /\ vault[v].max \in 0 .. MaxPos - 1
  <2>1. Start(p) \in 0 .. MaxPos /\ call[p].n \in Nat \ {0}
    BY <1>1, StartPos, TransferFile
  <2>2. vault[v].size \in 0 .. MaxPos - 1 /\ vault[v].max \in 0 .. MaxPos - 1
    BY <1>1, OneVault
  <2>3. Start(p) + call[p].n <= vault[v].max
    BY DEF CopyFails, Fits
  <2>4. Region(Start(p), call[p].n) \subseteq 0 .. MaxPos
    BY <2>1, <2>2, <2>3, Sizes DEF Region
  <2>5. Region(Start(p), m) \subseteq Region(Start(p), call[p].n)
    BY <2>1 DEF Region
  <2> QED BY <1>3, <2>2, <2>4, <2>5 DEF HistType
<1>9. /\ DOMAIN d = DOMAIN vault[v].data
      /\ \A i \in DOMAIN d : d[i] \in {vault[v].data[i], "plain", "zero"}
      /\ \A i \in DOMAIN d : i \notin h => i \notin hist[v] /\ d[i] = vault[v].data[i]
  BY <1>8
<1> HIDE DEF d
<1>10. n \in VaultType /\ n.data = d /\ n.size = vault[v].size /\ n.max = vault[v].max /\ n.key = vault[v].key
  BY <1>3, <1>7 DEF VaultType
<1>11. Sound(n, h)
  <2>1. DOMAIN n.data = 0 .. n.max - 1 /\ n.key \in Keys
    BY <1>1, <1>3, <1>9, <1>10 DEF Sound
  <2>2. n.size <= n.max /\ n.size \in 0 .. MaxPos - 1 /\ n.max \in Int
    BY <1>1, <1>3, <1>8, <1>10, Sizes DEF Sound
  <2>3. n.data # NullData
    BY <1>1, <1>9, <1>10, Allocated, NotNull
  <2>4. ASSUME NEW i \in 0 .. n.size - 1
        PROVE  n.data[i] # "raw" /\ (i \notin h => n.data[i] = n.key)
    <3>1. i \in DOMAIN d
      BY <2>1, <2>2, <1>10, Sizes
    <3>2. vault[v].data[i] # "raw" /\ (i \notin hist[v] => vault[v].data[i] = vault[v].key)
      BY <1>3, <1>10 DEF Sound
    <3> HIDE DEF h
    <3> QED BY <1>9, <1>10, <3>1, <3>2
  <2> HIDE DEF n, h
  <2> QED BY <2>1, <2>2, <2>3, <2>4 DEF Sound
<1>12. hist' = [hist EXCEPT ![v] = h]
  BY DEF CopyFails
<1> HIDE DEF n, h
<1> QED BY <1>1, <1>2, <1>5, <1>8, <1>10, <1>11, <1>12, ErrorFile, ChangeStep

\* A write is carried out.
LEMMA WriteStep ==
  ASSUME IInv, NEW p \in Procs, Write(p)
  PROVE  IInv'
<1> DEFINE v    == call[p].v
           last == Start(p) + call[p].n
           s    == IF last >= vault[v].size THEN last ELSE vault[v].size
           to   == Cap(file[p].pos + call[p].n)
           d    == [i \in DOMAIN vault[v].data |->
                      IF i \in Region(Start(p), call[p].n) THEN vault[v].key ELSE vault[v].data[i]]
           n    == [vault[v] EXCEPT !.data = d, !.size = s]
           f    == [file[p] EXCEPT !.pos = to]
           h    == hist[v] \ Region(Start(p), call[p].n)
<1>1. /\ Enter(p, "write") /\ StartValid(p) /\ Fits(p) /\ vault[v].data # NullData
      /\ Leave(p) /\ hist' = [hist EXCEPT ![v] = h]
      /\ vault' = [vault EXCEPT ![v] = n] /\ file' = [file EXCEPT ![p] = f]
  BY DEF Write
<1>2. v \in Vaults /\ call[p].n \in Nat \ {0} /\ file[p].pos \in 0 .. MaxPos
  BY <1>1, TransferFile
<1>3. /\ vault[v] \in VaultType /\ hist[v] \in HistType /\ Sound(vault[v], hist[v])
      /\ vault[v].size \in 0 .. MaxPos - 1 /\ vault[v].max \in 0 .. MaxPos - 1
  BY <1>2, OneVault
<1>4. Start(p) \in 0 .. vault[v].size /\ last <= vault[v].max
  BY <1>1, <1>2, <1>3, StartPos, Sizes DEF StartValid, Fits
<1>5. DOMAIN vault[v].data = 0 .. vault[v].max - 1 /\ vault[v].key \in Keys
      /\ vault[v].size <= vault[v].max
  BY <1>1, <1>3 DEF Sound
<1>6. s \in 0 .. vault[v].max /\ s \in 0 .. MaxPos - 1
  BY <1>2, <1>3, <1>4, <1>5, Sizes
<1>7. f \in FileType
  <2>1. to \in 0 .. MaxPos
    BY <1>2, Sizes DEF Cap
  <2> HIDE DEF to
  <2> QED BY <1>1, <2>1, TransferFile
<1>8. h \in HistType
  BY <1>3 DEF HistType
<1>9. \A i \in DOMAIN vault[v].data : vault[v].data[i] \in Keys \cup NoKey
  BY <1>1, <1>2, Allocated
<1>10. d \in DataType
  BY <1>1, <1>2, <1>5, <1>9, SameDomain
<1>11. n \in VaultType
  <2> HIDE DEF d, s
  <2> QED BY <1>3, <1>6, <1>10 DEF VaultType
<1>12. n.data = d /\ n.size = s /\ n.max = vault[v].max /\ n.key = vault[v].key
  <2> HIDE DEF d, s
  <2> QED BY <1>3 DEF VaultType
<1>13. Sound(n, h)
  <2>1. DOMAIN d = 0 .. vault[v].max - 1
    BY <1>5
  <2>2. ASSUME NEW i \in 0 .. s - 1
        PROVE  d[i] # "raw" /\ (i \notin h => d[i] = vault[v].key)
    <3>1. i \in DOMAIN vault[v].data
      BY <1>3, <1>5, <1>6
    <3>2. CASE i \in Region(Start(p), call[p].n)
      <4>1. d[i] = vault[v].key /\ vault[v].key \in Keys
        BY <1>5, <3>1, <3>2
      <4>2. "raw" \notin Keys
        BY VaultAssumption DEF NoKey
      <4> QED BY <4>1, <4>2
    <3>3. CASE i \notin Region(Start(p), call[p].n)
      <4>1. i \in 0 .. vault[v].size - 1
        BY <1>2, <1>3, <1>4, <3>3 DEF Region
      <4> QED BY <1>3, <3>1, <3>3, <4>1 DEF Sound
    <3> QED BY <3>2, <3>3
  <2>3. n.data # NullData
    <3>1. 0 \in DOMAIN d
      BY <1>1, <1>2, Allocated
    <3> QED BY <1>12, <3>1, NotNull
  <2> HIDE DEF d, s, n, h
  <2> QED BY <1>5, <1>6, <1>12, <2>1, <2>2, <2>3 DEF Sound
<1> HIDE DEF n, f, h
<1> QED BY <1>1, <1>2, <1>3, <1>7, <1>8, <1>11, <1>13, ChangeStep

-----------------------------------------------------------------------------
(* The theorems.                                                           *)

\* Every step preserves the invariant.
LEMMA NextIInv ==
  ASSUME IInv, [Next]_vars
  PROVE  IInv'
<1>1. CASE UNCHANGED vars
  BY <1>1, QuietStep DEF vars, IInv, TypeOK, CallInv
<1>2. ASSUME NEW p \in Procs, Critical(p) PROVE IInv'
  <2>1. CASE Create(p)
    BY <2>1, CreateStep
  <2>2. CASE Delete(p)
    BY <2>2, DeleteStep
  <2>3. CASE Erase(p)
    BY <2>3, EraseStep
  <2>4. CASE ChangeKey(p)
    BY <2>4, ChangeKeyStep
  <2>5. CASE OpenTruncate(p)
    BY <2>5, OpenStep
  <2>6. CASE Read(p)
    BY <2>6, ReadStep
  <2>7. CASE WriteRejected(p)
    BY <2>7, RejectStep
  <2>8. CASE WriteNull(p)
    BY <2>8, FailStep DEF WriteNull
  <2>9. CASE CopyFails(p)
    BY <2>9, CopyFailsStep
  <2>10. CASE Write(p)
    BY <2>10, WriteStep
  <2> QED BY <1>2, <2>1, <2>2, <2>3, <2>4, <2>5, <2>6, <2>7, <2>8, <2>9, <2>10 DEF Critical
<1>3. ASSUME NEW p \in Procs,
             \/ BeginIoctl(p)
             \/ \E v \in Vaults, flags \in OpenFlags[p] :
                  OpenKeep(p, v, flags) \/ BeginOpen(p, v, flags)
             \/ \E n \in Counts, op \in {"read", "write"} : BeginTransfer(p, op, n)
             \/ Seek(p) \/ Release(p) \/ Interrupted(p)
      PROVE  IInv'
  BY <1>3, BeginIoctlStep, BeginFileStep, FileOnlyStep
<1> QED BY <1>1, <1>2, <1>3 DEF Next

\* The inductive invariant holds of every reachable state.
THEOREM InductiveInvariant == Spec => []IInv
BY InitIInv, NextIInv, PTL DEF Spec

\* Whatever calls race, create, delete, erase and write keep the size of a
\* vault within its allocation.
THEOREM SizesBounded == Spec => []SizeBounded
<1>1. IInv => SizeBounded
  BY DEF IInv
<1> QED BY InductiveInvariant, <1>1, PTL

\* Every byte sv_read hands out was written since the vault was created, and
\* is encrypted under the key it is decrypted with, unless a write failed to
\* copy there or the key was changed since.
THEOREM ReadsWritten == Spec => []ReadsBack
<1>1. IInv => ReadsBack
  BY DEF IInv
<1> QED BY InductiveInvariant, <1>1, PTL

-----------------------------------------------------------------------------
(* Appends.                                                                *)

\* What process p may do in one step.
Step(p) ==
  \/ BeginIoctl(p)
  \/ \E v \in Vaults, flags \in OpenFlags[p] : OpenKeep(p, v, flags) \/ BeginOpen(p, v, flags)
  \/ \E n \in Counts, op \in {"read", "write"} : BeginTransfer(p, op, n)
  \/ Seek(p) \/ Release(p) \/ Interrupted(p)
  \/ Critical(p)

\* Only a waiting call gets into a critical section.
LEMMA CriticalWaits ==
  ASSUME NEW p \in Procs, Critical(p)
  PROVE  call[p].at = "down" /\ \E c : call' = [call EXCEPT ![p] = c]
<1>1. CASE Create(p) \/ Delete(p) \/ Erase(p) \/ ChangeKey(p)
  BY <1>1 DEF Create, Delete, Erase, ChangeKey, Refused, Granted, Enter, Fail, Leave
<1>2. CASE OpenTruncate(p) \/ Read(p)
  BY <1>2 DEF OpenTruncate, Read, Enter, Fail, Oops, Leave
<1>3. CASE WriteRejected(p) \/ WriteNull(p) \/ CopyFails(p) \/ Write(p)
  BY <1>3 DEF WriteRejected, WriteNull, CopyFails, Write, WriteError, Enter, Fail, Oops, Leave
<1> QED BY <1>1, <1>2, <1>3 DEF Critical

\* A step changes the call of its own process only.
LEMMA StepCall ==
  ASSUME IInv, NEW p \in Procs, Step(p)
  PROVE  \E c : call' = [call EXCEPT ![p] = c]
<1>1. call = [call EXCEPT ![p] = call[p]]
  BY DEF IInv, TypeOK
<1>2. ASSUME NEW c, Begin(p, c)
      PROVE  call' = [call EXCEPT ![p] = c]
  BY <1>2 DEF Begin
<1>3. CASE UNCHANGED call
  BY <1>1, <1>3
<1>4. CASE Interrupted(p)
  BY <1>4 DEF Interrupted
<1>5. CASE Critical(p)
  BY <1>5, CriticalWaits
<1> QED BY <1>2, <1>3, <1>4, <1>5
     DEF Step, BeginIoctl, OpenKeep, BeginOpen, BeginTransfer, Seek, Release

\* An append that is carried out, or fails half way, starts at the size.
LEMMA AppendKeeps ==
  ASSUME IInv, NEW p \in Procs, file[p].flags.append, CopyFails(p) \/ Write(p)
  PROVE  LET v == call[p].v IN
         /\ vault'[v].size >= vault[v].size
         /\ \A i \in 0 .. vault[v].size - 1 : vault'[v].data[i] = vault[v].data[i]
<1> DEFINE v == call[p].v
<1>1. Enter(p, "write") /\ vault[v].data # NullData
  BY DEF CopyFails, Write
<1>2. v \in Vaults /\ call[p].n \in Nat \ {0}
  BY <1>1, TransferFile
<1>3. /\ vault[v] \in VaultType /\ vault[v].size \in Nat /\ vault[v].max \in Nat
      /\ DOMAIN vault[v].data = 0 .. vault[v].max - 1 /\ vault[v].size <= vault[v].max
  BY <1>1, <1>2, OneVault, Sizes DEF Sound
<1>4. Start(p) = vault[v].size
  BY DEF Start
<1>5. \A i \in 0 .. vault[v].size - 1 :
        /\ i \in DOMAIN vault[v].data
        /\ \A n \in Nat : i \notin Region(Start(p), n)
  BY <1>3, <1>4 DEF Region
<1>6. vault \in [Vaults -> VaultType]
  BY DEF IInv, TypeOK
<1>7. CASE CopyFails(p)
  <2>1. PICK m \in 0 .. call[p].n - 1 :
          vault' = [vault EXCEPT ![v].data = [i \in DOMAIN @ |->
                     IF i \in Region(Start(p), m) THEN "plain"
                     ELSE IF i \in Region(Start(p), call[p].n) THEN "zero" ELSE @[i]]]
    BY <1>7 DEF CopyFails
  <2>2. m \in Nat
    BY <1>2
  <2>3. vault'[v].size = vault[v].size
    BY <1>2, <1>3, <1>6, <2>1 DEF VaultType
  <2>4. vault'[v].data = [i \in DOMAIN vault[v].data |->
                     IF i \in Region(Start(p), m) THEN "plain"
                     ELSE IF i \in Region(Start(p), call[p].n) THEN "zero" ELSE vault[v].data[i]]
    BY <1>2, <1>3, <1>6, <2>1 DEF VaultType
  <2> QED BY <1>2, <1>3, <1>5, <2>2, <2>3, <2>4
<1>8. CASE Write(p)
  <2> DEFINE last == Start(p) + call[p].n
  <2>1. vault' = [vault EXCEPT
          ![v].data = [i \in DOMAIN @ |->
                         IF i \in Region(Start(p), call[p].n) THEN vault[v].key ELSE @[i]],
          ![v].size = IF last >= @ THEN last ELSE @]
    BY <1>8 DEF Write
  <2>2. vault'[v].size = IF last >= vault[v].size THEN last ELSE vault[v].size
    BY <1>2, <1>3, <1>6, <2>1 DEF VaultType
  <2>3. vault'[v].data = [i \in DOMAIN vault[v].data |->
          IF i \in Region(Start(p), call[p].n) THEN vault[v].key ELSE vault[v].data[i]]
    BY <1>2, <1>3, <1>6, <2>1 DEF VaultType
  <2>4. vault'[v].size >= vault[v].size
    BY <1>2, <1>3, <1>4, <2>2
  <2>5. \A i \in 0 .. vault[v].size - 1 : vault'[v].data[i] = vault[v].data[i]
    BY <1>2, <1>5, <2>3
  <2> QED BY <2>4, <2>5
<1> QED BY <1>7, <1>8

\* A write to a vault opened with O_APPEND overwrites nothing, whatever
\* happened to the vault between the call and its turn.
THEOREM AppendsKeep == Spec => AppendOnly
<1> DEFINE Kept(p) ==
      LET v == call[p].v IN
      /\ vault'[v].size >= vault[v].size
      /\ \A i \in 0 .. vault[v].size - 1 : vault'[v].data[i] = vault[v].data[i]
<1>1. ASSUME IInv, NEW p \in Procs, Appends(p), NEW q \in Procs, Step(q) PROVE Kept(p)
  <2>1. q = p
    BY <1>1, StepCall DEF Appends, IInv, TypeOK
  <2>2. call[p].at = "down" /\ call[p].op = "write" /\ file[p].flags.append /\ call[p] # Idle
    BY <1>1 DEF Appends, Idle
  <2>3. call[p] \in TransferCall /\ call[p].v \in Vaults
    <3>1. call[p] \in CallType
      BY <1>1 DEF IInv, TypeOK
    <3>2. call[p] \in TransferCall
      BY <2>2, <3>1 DEF CallType, Oopsed, CreateCall, Waiting, KeyCall, OpenCall, TransferCall
    <3> QED BY <3>2 DEF TransferCall
  <2>4. CASE UNCHANGED vault
    <3>1. vault[call[p].v].size \in Int
      BY <1>1, <2>3, OneVault, Sizes
    <3> QED BY <2>4, <3>1
  <2>5. CASE Interrupted(p) \/ WriteRejected(p) \/ WriteNull(p)
    BY <2>4, <2>5 DEF Interrupted, WriteRejected, WriteNull, Oops, Fail
  <2>6. CASE CopyFails(p) \/ Write(p)
    BY <1>1, <2>2, <2>6, AppendKeeps
  <2>7. Interrupted(p) \/ WriteRejected(p) \/ WriteNull(p) \/ CopyFails(p) \/ Write(p)
    <3>1. ~BeginIoctl(p)
      BY <2>2 DEF BeginIoctl, Begin
    <3>2. ~\E v \in Vaults, flags \in OpenFlags[p] : OpenKeep(p, v, flags) \/ BeginOpen(p, v, flags)
      BY <2>2 DEF OpenKeep, BeginOpen, Begin
    <3>3. ~\E n \in Counts, op \in {"read", "write"} : BeginTransfer(p, op, n)
      BY <2>2 DEF BeginTransfer, Begin
    <3>4. ~Seek(p) /\ ~Release(p)
      BY <2>2 DEF Seek, Release
    <3>5. ~Create(p) /\ ~Delete(p) /\ ~Erase(p) /\ ~ChangeKey(p) /\ ~OpenTruncate(p) /\ ~Read(p)
      BY <2>2 DEF Create, Delete, Erase, ChangeKey, OpenTruncate, Read, Refused, Granted, Enter
    <3> QED BY <1>1, <2>1, <3>1, <3>2, <3>3, <3>4, <3>5 DEF Step, Critical
  <2> QED BY <2>5, <2>6, <2>7
<1>2. IInv /\ [Next]_vars => [\A p \in Procs : Appends(p) => Kept(p)]_vars
  BY <1>1 DEF Next, Step
<1>3. Spec => [][\A p \in Procs : Appends(p) => Kept(p)]_vars
  BY <1>2, InductiveInvariant, PTL DEF Spec
<1> QED BY <1>3 DEF AppendOnly
=============================================================================
