-------------------------- MODULE RingBufferProofs --------------------------
(***************************************************************************)
(* Proofs about RingBuffer for any number of generators, any buffer size   *)
(* and any choice of faults: the inductive invariant IInv, and from it     *)
(* mutual exclusion of the writers and the absence of overwrites; that no  *)
(* path loses a slot; and that RingBuffer implements SolutionQueue: every  *)
(* step of block_write, block_read, close_buffer and of the faults is a    *)
(* step of the bounded FIFO queue, or leaves it as it is.                  *)
(***************************************************************************)
EXTENDS RingBuffer, FiniteSetTheorems, SequenceTheorems, TLAPS

-----------------------------------------------------------------------------
(* Counting generators by control point.                                   *)

\* 1 if the control point x is one of S, else 0.
In(x, S) == IF x \in S THEN 1 ELSE 0

\* The generators that f puts at a point of S; At(S) is Sel(pc, S).
Sel(f, S) == {g \in Generators : f[g] \in S}

\* The number of generators at a set of control points is a natural number.
LEMMA SelFinite ==
  ASSUME NEW f, NEW S
  PROVE  IsFiniteSet(Sel(f, S)) /\ Cardinality(Sel(f, S)) \in Nat
<1>1. Sel(f, S) \subseteq Generators
  BY DEF Sel
<1> QED
  BY <1>1, FS_Subset, FS_CardinalityType, BufferAssumption

\* When one generator moves, each count changes by what it leaves and enters.
LEMMA SelMove ==
  ASSUME NEW f, DOMAIN f = Procs, NEW g \in Generators, NEW to, NEW S
  PROVE  Cardinality(Sel([f EXCEPT ![g] = to], S))
           = Cardinality(Sel(f, S)) + In(to, S) - In(f[g], S)
<1> DEFINE h == [f EXCEPT ![g] = to]
           rest == Sel(f, S) \ {g}
<1>1. h[g] = to /\ \A x \in Generators \ {g} : h[x] = f[x]
  BY DEF Procs
<1> HIDE DEF h
<1>2. IsFiniteSet(rest) /\ Cardinality(rest) \in Nat /\ Cardinality(Sel(f, S)) \in Nat
  BY SelFinite, FS_Subset, FS_CardinalityType
<1>3. Cardinality(Sel(f, S)) = Cardinality(rest) + In(f[g], S)
  <2>1. CASE f[g] \in S
    <3>1. Sel(f, S) = rest \cup {g} /\ g \notin rest
      BY <2>1 DEF Sel
    <3>2. Cardinality(rest \cup {g}) = Cardinality(rest) + 1
      BY <1>2, <3>1, FS_AddElement
    <3> QED BY <2>1, <3>1, <3>2 DEF In
  <2>2. CASE f[g] \notin S
    <3>1. Sel(f, S) = rest
      BY <2>2 DEF Sel
    <3> HIDE DEF rest
    <3> QED BY <1>2, <2>2, <3>1 DEF In
  <2> QED BY <2>1, <2>2
<1>4. Cardinality(Sel(h, S)) = Cardinality(rest) + In(to, S)
  <2>1. CASE to \in S
    <3>1. Sel(h, S) = rest \cup {g} /\ g \notin rest
      BY <1>1, <2>1 DEF Sel
    <3>2. Cardinality(rest \cup {g}) = Cardinality(rest) + 1
      BY <1>2, <3>1, FS_AddElement
    <3> QED BY <2>1, <3>1, <3>2 DEF In
  <2>2. CASE to \notin S
    <3>1. Sel(h, S) = rest
      BY <1>1, <2>2 DEF Sel
    <3> HIDE DEF rest
    <3> QED BY <1>2, <2>2, <3>1 DEF In
  <2> QED BY <2>1, <2>2
<1> HIDE DEF rest
<1>5. In(f[g], S) \in Nat /\ In(to, S) \in Nat
  BY DEF In
<1> QED BY <1>2, <1>3, <1>4, <1>5 DEF h

-----------------------------------------------------------------------------
\* The three counts of the invariant are natural numbers.
LEMMA CountTypes ==
  /\ Cardinality(LockHolders) \in Nat
  /\ Cardinality(SlotHolders) \in Nat
  /\ Cardinality(Announcers) \in Nat
BY SelFinite DEF Sel, LockHolders, SlotHolders, Announcers, At

\* How a step of one generator changes the three counts.
LEMMA GeneratorMoves ==
  ASSUME TypeOK, NEW g \in Generators, NEW to, pc' = [pc EXCEPT ![g] = to]
  PROVE  /\ Cardinality(LockHolders)' =
              Cardinality(LockHolders) + In(to, LockPoints) - In(pc[g], LockPoints)
         /\ Cardinality(SlotHolders)' =
              Cardinality(SlotHolders) + In(to, SlotPoints) - In(pc[g], SlotPoints)
         /\ Cardinality(Announcers)' =
              Cardinality(Announcers) + In(to, AnnouncePoints) - In(pc[g], AnnouncePoints)
         /\ pc'[Supervisor] = pc[Supervisor]
         /\ pc'[g] = to
         /\ \A x \in Generators \ {g} : pc'[x] = pc[x]
<1>1. DOMAIN pc = Procs
  BY DEF TypeOK
<1>2. \A S : Cardinality(Sel(pc', S)) = Cardinality(Sel(pc, S)) + In(to, S) - In(pc[g], S)
  BY <1>1, SelMove
<1>3. pc'[g] = to /\ \A x \in Procs \ {g} : pc'[x] = pc[x]
  BY <1>1 DEF Procs
<1>4. /\ LockHolders' = Sel(pc', LockPoints) /\ LockHolders = Sel(pc, LockPoints)
      /\ SlotHolders' = Sel(pc', SlotPoints) /\ SlotHolders = Sel(pc, SlotPoints)
      /\ Announcers' = Sel(pc', AnnouncePoints) /\ Announcers = Sel(pc, AnnouncePoints)
  BY DEF Sel, At, LockHolders, SlotHolders, Announcers, LockPoints, SlotPoints, AnnouncePoints
<1>5. Supervisor \in Procs \ {g} /\ Generators \subseteq Procs
  BY BufferAssumption DEF Procs
<1> QED BY <1>2, <1>3, <1>4, <1>5

\* A step of the supervisor changes none of them.
LEMMA SupervisorMoves ==
  ASSUME TypeOK, NEW to, pc' = [pc EXCEPT ![Supervisor] = to]
  PROVE  /\ LockHolders' = LockHolders
         /\ SlotHolders' = SlotHolders
         /\ Announcers' = Announcers
         /\ pc'[Supervisor] = to
         /\ \A x \in Generators : pc'[x] = pc[x]
<1>1. pc'[Supervisor] = to /\ \A x \in Generators : pc'[x] = pc[x]
  BY BufferAssumption DEF TypeOK, Procs
<1> QED BY <1>1 DEF At, LockHolders, SlotHolders, Announcers

\* At most one generator holds w_sem.
LEMMA OneLockHolder ==
  ASSUME TypeOK, LockInv, NEW g \in LockHolders, NEW h \in LockHolders
  PROVE  g = h
<1> SUFFICES ASSUME g # h PROVE FALSE
  OBVIOUS
<1>1. IsFiniteSet(LockHolders)
  BY SelFinite DEF Sel, At, LockHolders
<1>2. Cardinality(LockHolders \ {g}) = Cardinality(LockHolders) - 1
  BY <1>1, FS_RemoveElement
<1>3. h \in LockHolders \ {g} /\ IsFiniteSet(LockHolders \ {g})
  BY <1>1, FS_Subset
<1>4. Cardinality(LockHolders \ {g}) \in Nat /\ Cardinality(LockHolders \ {g}) # 0
  BY <1>3, FS_CardinalityType, FS_EmptySet
<1> QED BY <1>2, <1>4, CountTypes DEF LockInv, TypeOK, SemNames

\* A generator that holds a free slot is counted.
LEMMA SlotHolderCounted ==
  ASSUME TypeOK, NEW g \in SlotHolders
  PROVE  Cardinality(SlotHolders) >= 1
<1>1. IsFiniteSet(SlotHolders)
  BY SelFinite DEF Sel, At, SlotHolders
<1> QED BY <1>1, FS_CardinalityType, FS_EmptySet, CountTypes

-----------------------------------------------------------------------------
(* Positions.                                                              *)

\* The remainder of a number below the divisor, and below twice the divisor.
LEMMA ModSmall ==
  ASSUME NEW N \in Nat \ {0}, NEW a \in 0 .. N - 1
  PROVE  a % N = a
OBVIOUS

\* The remainder of a number from the divisor to twice the divisor.
LEMMA ModOnce ==
  ASSUME NEW N \in Nat \ {0}, NEW a \in N .. N + N - 1
  PROVE  a % N = a - N
OBVIOUS

\* (pos + d) % BUF_SIZE wraps around at most once for a distance d <= BUF_SIZE.
LEMMA ModWraps ==
  ASSUME NEW N \in Nat \ {0}, NEW r \in 0 .. N - 1, NEW d \in 0 .. N
  PROVE  (r + d) % N = IF r + d < N THEN r + d ELSE r + d - N
<1>1. CASE r + d < N
  <2>1. r + d \in 0 .. N - 1
    BY <1>1
  <2> QED BY <1>1, <2>1, ModSmall
<1>2. CASE ~(r + d < N)
  <2>1. r + d \in N .. N + N - 1
    BY <1>2
  <2> QED BY <1>2, <2>1, ModOnce
<1> QED BY <1>1, <1>2

\* SlotAfter, without the modulo.
LEMMA SlotAfterWraps ==
  ASSUME TypeOK, NEW d \in 0 .. BufSize
  PROVE  /\ SlotAfter(d) = IF rPos + d < BufSize THEN rPos + d ELSE rPos + d - BufSize
         /\ SlotAfter(d) \in Slots
<1>1. BufSize \in Nat \ {0} /\ rPos \in 0 .. BufSize - 1
  BY BufferAssumption DEF TypeOK, Slots
<1>2. SlotAfter(d) = IF rPos + d < BufSize THEN rPos + d ELSE rPos + d - BufSize
  BY <1>1, ModWraps DEF SlotAfter
<1> QED BY <1>1, <1>2 DEF Slots

\* (pos + 1) % BUF_SIZE is the next slot.
LEMMA NextPosWraps ==
  ASSUME NEW pos \in Slots
  PROVE  /\ NextPos(pos) = IF pos + 1 < BufSize THEN pos + 1 ELSE 0
         /\ NextPos(pos) \in Slots
<1>1. BufSize \in Nat \ {0} /\ pos \in 0 .. BufSize - 1 /\ 1 \in 0 .. BufSize
  BY BufferAssumption DEF Slots
<1>2. (pos + 1) % BufSize = IF pos + 1 < BufSize THEN pos + 1 ELSE pos + 1 - BufSize
  BY <1>1, ModWraps
<1> QED BY <1>1, <1>2 DEF NextPos, Slots

-----------------------------------------------------------------------------
(* Initialisation.                                                         *)

\* new_ring_buffer establishes the invariant.
LEMMA InitIInv == Init => IInv
<1> SUFFICES ASSUME Init PROVE IInv
  OBVIOUS
<1> USE DEF Init
<1>1. TypeOK
  BY BufferAssumption DEF TypeOK, Procs, Slots, SemNames, WriterPCs, ReaderPCs, CommonPCs
<1>2. LockHolders = {} /\ SlotHolders = {} /\ Announcers = {}
      /\ At({"advance"}) = {} /\ At({"bail_free", "bail_lock"}) = {}
  BY BufferAssumption DEF LockHolders, SlotHolders, Announcers, At, Procs, LockPoints, SlotPoints, AnnouncePoints
<1>3. LockInv /\ FreeInv /\ UsedInv
  BY <1>2, FS_EmptySet, BufferAssumption
     DEF LockInv, FreeInv, UsedInv, SupAt, SemNames, Procs
<1>4. PosInv
  BY <1>1, SlotAfterWraps, BufferAssumption DEF PosInv
<1>5. SlotInv
  BY <1>2 DEF SlotInv
<1> QED BY <1>1, <1>2, <1>3, <1>4, <1>5 DEF IInv, OpenInv

-----------------------------------------------------------------------------
(* Steps of a generator that leave the shared memory alone.                *)

\* A step between the control points from and to changes the number of tokens
\* of semaphore s the process holds, as points says, by what it takes from s,
\* gives to s or loses.
Kept(s, points, from, to) ==
  sem'[s] + In(to, points) + lost'[s] = sem[s] + In(from, points) + lost[s]

TokensTyped == sem' \in [SemNames -> Nat] /\ lost' \in [SemNames -> Nat]

\* Generator g moves to the control point to, leaves the shared memory alone,
\* starts no new write, and accounts for its tokens.
MovesTo(g, to) ==
  /\ pc' = [pc EXCEPT ![g] = to] /\ UNCHANGED <<shm, item, record>>
  /\ to \in (WriterPCs \cup CommonPCs) \ {"advance"}
  /\ open => to \notin {"bail_free", "bail_lock"}
  /\ to \in Offering => pc[g] \in Offering
  /\ to \in WriterPCs \ {"solve"} => pc[g] \in WriterPCs \ {"solve"}
  /\ TokensTyped
  /\ open => /\ Kept("lock", LockPoints, pc[g], to)
             /\ Kept("free", SlotPoints, pc[g], to)
             /\ Kept("used", AnnouncePoints, pc[g], to)

\* All steps of a generator but the start of a write and append are of this
\* kind: each of block_write's steps and error paths, and its death.
LEMMA GeneratorMovesTo ==
  ASSUME IInv, NEW g \in Generators,
         \/ CheckFree(g) \/ WaitFree(g) \/ CheckLock(g) \/ WaitLock(g)
         \/ PostLock(g) \/ PostUsed(g) \/ BailFree(g) \/ BailLock(g)
         \/ GeneratorFault(g)
  PROVE  \E to : MovesTo(g, to)
<1> USE DEF Goto, MovesTo, In, LockPoints, SlotPoints, AnnouncePoints, Offering, WriterPCs,
            CommonPCs, Kept, TokensTyped
<1>1. /\ sem \in [SemNames -> Nat] /\ lost \in [SemNames -> Nat]
      /\ "free" \in SemNames /\ "lock" \in SemNames /\ "used" \in SemNames
      /\ \A s \in SemNames : sem[s] \in Nat /\ lost[s] \in Nat
  BY DEF IInv, TypeOK, SemNames
<1>2. open => pc[g] \notin {"bail_free", "bail_lock"}
  BY DEF IInv, OpenInv, At
<1>3. ASSUME NEW s \in SemNames, NEW S, S = {s}, Lose(S)
      PROVE  /\ lost' \in [SemNames -> Nat]
             /\ open => /\ lost'[s] = lost[s] + 1
                        /\ \A x \in SemNames \ {s} : lost'[x] = lost[x]
  BY <1>1, <1>3 DEF Lose
<1>4. CheckFree(g) => MovesTo(g, IF open THEN "wait_free" ELSE "bail_free")
  BY <1>1 DEF CheckFree, CheckOpen
<1>5. WaitFree(g) => MovesTo(g, "check_lock")
  BY <1>1 DEF WaitFree, WaitSem, Wait
<1>6. CheckLock(g) => MovesTo(g, IF open THEN "wait_lock" ELSE "bail_free")
  BY <1>1 DEF CheckLock, CheckOpen
<1>7. WaitLock(g) => MovesTo(g, "store")
  BY <1>1 DEF WaitLock, WaitSem, Wait
<1>8. PostLock(g) => MovesTo(g, "post_used")
  BY <1>1 DEF PostLock, PostSem, Post
<1>9. PostUsed(g) => MovesTo(g, IF SizeOf[item[g]] = 0 THEN "exited" ELSE "solve")
  BY <1>1 DEF PostUsed, PostSem, Post
<1>10. BailFree(g) => MovesTo(g, "bail_lock")
  BY <1>1, <1>2 DEF BailFree, PostSem, Post
<1>11. BailLock(g) => MovesTo(g, "exited")
  <2>1. ExitPoint(g) = "exited"
    BY BufferAssumption DEF ExitPoint
  <2> QED BY <1>1, <1>2, <2>1 DEF BailLock, PostSem, Post
<1>12. BailFails(g) => \E to : MovesTo(g, to)
  <2>1. PostFails(g, "free", "bail_free", "bail_lock") => MovesTo(g, "bail_lock")
    BY <1>1, <1>2, <1>3 DEF PostFails
  <2>2. PostFails(g, "lock", "bail_lock", "exited") => MovesTo(g, "exited")
    BY <1>1, <1>2, <1>3 DEF PostFails
  <2>3. ExitPoint(g) = "exited"
    BY BufferAssumption DEF ExitPoint
  <2> HIDE DEF MovesTo
  <2> QED BY <2>1, <2>2, <2>3 DEF BailFails
<1>13. Interrupted(g, "wait_free", "check_free") => MovesTo(g, "check_free")
  BY <1>1 DEF Interrupted
<1>14. Interrupted(g, "wait_lock", "check_lock") => MovesTo(g, "check_lock")
  BY <1>1 DEF Interrupted
<1>15. WaitFails(g, "wait_free", "exited") => MovesTo(g, "exited")
  BY <1>1 DEF WaitFails
<1>16. WaitFails(g, "wait_lock", "undo_free") => MovesTo(g, "undo_free")
  BY <1>1 DEF WaitFails
<1>17. PostSem(g, "free", "undo_free", "exited") => MovesTo(g, "exited")
  BY <1>1 DEF PostSem, Post
<1>18. PostFails(g, "free", "undo_free", "exited") => MovesTo(g, "exited")
  BY <1>1, <1>3 DEF PostFails
<1>19. PostFails(g, "lock", "post_lock", "undo_used") => MovesTo(g, "undo_used")
  BY <1>1, <1>3 DEF PostFails
<1>20. PostSem(g, "used", "undo_used", "exited") => MovesTo(g, "exited")
  BY <1>1 DEF PostSem, Post
<1>21. PostFails(g, "used", "undo_used", "exited") => MovesTo(g, "exited")
  BY <1>1, <1>3 DEF PostFails
<1>22. PostFails(g, "used", "post_used", "exited") => MovesTo(g, "exited")
  BY <1>1, <1>3 DEF PostFails
<1>23. GeneratorKilled(g) => MovesTo(g, "dead")
  <2> SUFFICES ASSUME GeneratorKilled(g) PROVE MovesTo(g, "dead")
    OBVIOUS
  <2>1. pc[g] \notin {"post_free", "take"}
    BY DEF IInv, TypeOK
  <2>2. /\ lost' \in [SemNames -> Nat]
        /\ open => \A s \in SemNames :
                     lost'[s] = IF s \in TokensAt(pc[g]) THEN lost[s] + 1 ELSE lost[s]
    BY <1>1 DEF GeneratorKilled, Lose
  <2>3. /\ "lock" \in TokensAt(pc[g]) <=> pc[g] \in LockPoints
        /\ "free" \in TokensAt(pc[g]) <=> pc[g] \in SlotPoints
        /\ "used" \in TokensAt(pc[g]) <=> pc[g] \in AnnouncePoints
    BY <1>1, <2>1 DEF TokensAt
  <2> QED BY <1>1, <2>2, <2>3 DEF GeneratorKilled
<1> HIDE DEF Goto, MovesTo
<1> QED
  BY <1>4, <1>5, <1>6, <1>7, <1>8, <1>9, <1>10, <1>11, <1>12, <1>13, <1>14, <1>15, <1>16, <1>17,
     <1>18, <1>19, <1>20, <1>21, <1>22, <1>23 DEF GeneratorFault, WriteFails

\* A step of that kind preserves the invariant.
LEMMA GeneratorControl ==
  ASSUME IInv, NEW g \in Generators, NEW to, MovesTo(g, to)
  PROVE  IInv'
<1> USE DEF MovesTo, TokensTyped
<1>1. TypeOK'
  BY BufferAssumption DEF IInv, TypeOK, shm, Procs
<1>2. OpenInv'
  <2>1. pc'[Supervisor] = pc[Supervisor] /\ pc'[g] = to /\ open' = open
        /\ \A x \in Generators \ {g} : pc'[x] = pc[x]
    BY GeneratorMoves DEF IInv, shm
  <2>2. open => At({"bail_free", "bail_lock"})' = {}
    BY <2>1 DEF IInv, OpenInv, At
  <2> QED BY <2>1, <2>2 DEF IInv, OpenInv
<1>3. open => PosInv' /\ SlotInv'
  <2>1. At({"advance"})' \subseteq At({"advance"})
    BY GeneratorMoves DEF IInv, At
  <2> QED BY <2>1 DEF IInv, PosInv, SlotInv, SlotAfter, Unread, shm
<1>4. ASSUME open PROVE LockInv' /\ FreeInv' /\ UsedInv'
  <2>1. /\ Cardinality(LockHolders)' =
            Cardinality(LockHolders) + In(to, LockPoints) - In(pc[g], LockPoints)
        /\ Cardinality(SlotHolders)' =
            Cardinality(SlotHolders) + In(to, SlotPoints) - In(pc[g], SlotPoints)
        /\ Cardinality(Announcers)' =
            Cardinality(Announcers) + In(to, AnnouncePoints) - In(pc[g], AnnouncePoints)
        /\ SupAt({"take"})' = SupAt({"take"}) /\ SupAt({"post_free"})' = SupAt({"post_free"})
    BY GeneratorMoves DEF IInv, SupAt
  <2>2. /\ \A S : In(to, S) \in {0, 1} /\ In(pc[g], S) \in {0, 1}
        /\ SupAt({"take"}) \in {0, 1} /\ SupAt({"post_free"}) \in {0, 1}
    BY DEF In, SupAt
  <2>3. /\ sem["lock"] \in Nat /\ sem["free"] \in Nat /\ sem["used"] \in Nat
        /\ sem'["lock"] \in Nat /\ sem'["free"] \in Nat /\ sem'["used"] \in Nat
        /\ lost["lock"] \in Nat /\ lost["free"] \in Nat /\ lost["used"] \in Nat
        /\ lost'["lock"] \in Nat /\ lost'["free"] \in Nat /\ lost'["used"] \in Nat
        /\ fill \in Nat /\ fill' = fill /\ BufSize \in Nat
    BY BufferAssumption DEF IInv, TypeOK, SemNames, shm
  <2>4. /\ Kept("lock", LockPoints, pc[g], to) /\ LockInv
        /\ Kept("free", SlotPoints, pc[g], to) /\ FreeInv
        /\ Kept("used", AnnouncePoints, pc[g], to) /\ UsedInv
    BY <1>4 DEF IInv
  <2>5. LockInv'
    BY <2>1, <2>2, <2>3, <2>4, CountTypes DEF LockInv, Kept
  <2>6. FreeInv'
    <3> DEFINE held == Cardinality(SlotHolders)
               i == In(pc[g], SlotPoints)
               j == In(to, SlotPoints)
               rest == fill + SupAt({"post_free"})
    <3>1. sem'["free"] + j + lost'["free"] = sem["free"] + i + lost["free"]
      BY <2>4 DEF Kept
    <3>2. held \in Int /\ held' = held + j - i /\ i \in Int /\ j \in Int /\ rest \in Int
          /\ rest' = rest
      BY <2>1, <2>2, <2>3, CountTypes
    <3>3. sem["free"] + held + rest + lost["free"] = BufSize
      BY <2>2, <2>3, <2>4, CountTypes DEF FreeInv
    <3>4. sem'["free"] + held' + rest' + lost'["free"] = BufSize
      <4> HIDE DEF held, i, j, rest
      <4> QED BY <2>3, <3>1, <3>2, <3>3
    <3>5. held' \in Int
      BY <3>2
    <3> QED BY <2>1, <2>2, <2>3, <3>4, <3>5 DEF FreeInv
  <2>7. UsedInv'
    BY <2>1, <2>2, <2>3, <2>4, CountTypes DEF UsedInv, Kept
  <2> QED BY <2>5, <2>6, <2>7
<1> QED BY <1>1, <1>2, <1>3, <1>4 DEF IInv, shm

-----------------------------------------------------------------------------
(* Solve, and the two steps of append.                                     *)

\* A generator has a solution: nothing shared changes.
LEMMA SolveStep ==
  ASSUME IInv, NEW g \in Generators, Solve(g)
  PROVE  IInv'
<1>1. /\ pc[g] = "solve" /\ pc' = [pc EXCEPT ![g] = "check_free"]
      /\ \A x \in Procs \ {g} : item'[x] = item[x]
      /\ item' \in [Procs -> Solutions \cup {NoSolution}]
      /\ item'[g] \in Solutions
      /\ UNCHANGED <<shm, sem, record, lost>>
  BY DEF Solve, Goto, IInv, TypeOK, Procs
<1>2. TypeOK'
  BY <1>1, BufferAssumption
     DEF IInv, TypeOK, shm, Procs, WriterPCs, CommonPCs
<1>3. /\ LockHolders' = LockHolders /\ SlotHolders' = SlotHolders
      /\ Announcers' = Announcers /\ At({"advance"})' = At({"advance"})
      /\ At({"bail_free", "bail_lock"})' = At({"bail_free", "bail_lock"})
      /\ pc'[Supervisor] = pc[Supervisor] /\ g \notin At({"advance"})
  <2>1. pc'[Supervisor] = pc[Supervisor] /\ pc'[g] = "check_free"
        /\ \A x \in Generators \ {g} : pc'[x] = pc[x]
    BY <1>1, GeneratorMoves DEF IInv
  <2> QED BY <1>1, <2>1 DEF At, LockHolders, SlotHolders, Announcers, LockPoints, SlotPoints, AnnouncePoints
<1> QED
  BY <1>1, <1>2, <1>3
     DEF IInv, OpenInv, LockInv, FreeInv, UsedInv, PosInv, SlotInv, SlotAfter, Unread,
         SupAt, At, Procs, shm

\* append's store goes to the first slot that is not in use.
LEMMA StoreSlotStep ==
  ASSUME IInv, NEW g \in Generators, StoreSlot(g)
  PROVE  IInv'
<1>1. /\ pc[g] = "store" /\ pc' = [pc EXCEPT ![g] = "advance"]
      /\ slots' = [slots EXCEPT ![wPos] = item[g]]
      /\ UNCHANGED <<open, wPos, rPos, fill, sem, item, record, lost>>
  BY DEF StoreSlot, Goto
<1>2. item[g] \in Solutions
  BY <1>1 DEF IInv, TypeOK, WriterPCs
<1>3. TypeOK'
  BY <1>1, <1>2, BufferAssumption DEF IInv, TypeOK, Procs, WriterPCs
<1>4. /\ pc'[Supervisor] = pc[Supervisor] /\ pc'[g] = "advance"
      /\ \A x \in Generators \ {g} : pc'[x] = pc[x]
  BY <1>1, GeneratorMoves DEF IInv
<1>5. /\ LockHolders' = LockHolders /\ SlotHolders' = SlotHolders
      /\ Announcers' = Announcers
      /\ At({"bail_free", "bail_lock"})' = At({"bail_free", "bail_lock"})
      /\ At({"advance"})' = At({"advance"}) \cup {g}
      /\ g \in LockHolders /\ g \in SlotHolders /\ At({"advance"}) \subseteq LockHolders
  BY <1>1, <1>4 DEF At, LockHolders, SlotHolders, Announcers, LockPoints, SlotPoints, AnnouncePoints
<1>6. OpenInv' /\ (open => LockInv' /\ FreeInv' /\ UsedInv' /\ PosInv')
  BY <1>1, <1>4, <1>5
     DEF IInv, OpenInv, LockInv, FreeInv, UsedInv, PosInv, SlotAfter, SupAt
<1>7. ASSUME open PROVE SlotInv'
  <2>1. \A h \in At({"advance"})' : slots'[wPos'] = item'[h]
    <3>1. \A h \in At({"advance"}) : h = g
      BY <1>5, <1>7, OneLockHolder DEF IInv
    <3> QED BY <1>1, <1>2, <1>5, <3>1 DEF IInv, TypeOK
  <2>2. fill < BufSize
    BY <1>5, <1>7, SlotHolderCounted, CountTypes, BufferAssumption
       DEF IInv, FreeInv, SupAt, TypeOK, SemNames
  <2>3. ASSUME NEW i \in 1 .. fill PROVE slots'[SlotAfter(i - 1)] \in Solutions
    <3>1. i - 1 \in 0 .. BufSize /\ fill \in 0 .. BufSize /\ fill \in Nat
      BY <2>2, BufferAssumption DEF IInv, TypeOK
    <3>2. SlotAfter(i - 1) \in Slots /\ SlotAfter(i - 1) # SlotAfter(fill)
      <4>1. rPos \in 0 .. BufSize - 1 /\ BufSize \in Nat
        BY BufferAssumption DEF IInv, TypeOK, Slots
      <4>2. /\ SlotAfter(i - 1) \in Slots
            /\ SlotAfter(i - 1) = IF rPos + (i - 1) < BufSize THEN rPos + (i - 1)
                                   ELSE rPos + (i - 1) - BufSize
        BY <3>1, SlotAfterWraps DEF IInv
      <4>3. SlotAfter(fill) = IF rPos + fill < BufSize THEN rPos + fill
                              ELSE rPos + fill - BufSize
        BY <3>1, SlotAfterWraps DEF IInv
      <4> QED BY <2>2, <3>1, <4>1, <4>2, <4>3
    <3>3. slots[SlotAfter(i - 1)] \in Solutions
      BY <1>7 DEF IInv, SlotInv, Unread
    <3> QED BY <1>1, <1>7, <3>2, <3>3 DEF IInv, PosInv, TypeOK
  <2> QED BY <1>1, <2>1, <2>3 DEF SlotInv, Unread, SlotAfter
<1> QED BY <1>1, <1>3, <1>6, <1>7 DEF IInv

\* append's second step makes the slot one that is filled.
LEMMA AdvanceWPosStep ==
  ASSUME IInv, NEW g \in Generators, AdvanceWPos(g)
  PROVE  IInv'
<1>1. /\ pc[g] = "advance" /\ pc' = [pc EXCEPT ![g] = "post_lock"]
      /\ wPos' = NextPos(wPos) /\ fill' = fill + 1
      /\ UNCHANGED <<open, rPos, slots, sem, item, record, lost>>
  BY DEF AdvanceWPos, Goto
<1>2. TypeOK'
  BY <1>1, NextPosWraps, BufferAssumption DEF IInv, TypeOK, Procs, WriterPCs
<1>3. /\ Cardinality(LockHolders)' = Cardinality(LockHolders)
      /\ Cardinality(SlotHolders)' = Cardinality(SlotHolders) - 1
      /\ Cardinality(Announcers)' = Cardinality(Announcers) + 1
      /\ pc'[Supervisor] = pc[Supervisor] /\ pc'[g] = "post_lock"
      /\ \A x \in Generators \ {g} : pc'[x] = pc[x]
  <2>1. /\ In("advance", LockPoints) = 1 /\ In("post_lock", LockPoints) = 1
        /\ In("advance", SlotPoints) = 1 /\ In("post_lock", SlotPoints) = 0
        /\ In("advance", AnnouncePoints) = 0 /\ In("post_lock", AnnouncePoints) = 1
    BY DEF In, LockPoints, SlotPoints, AnnouncePoints
  <2>2. /\ Cardinality(LockHolders)' =
            Cardinality(LockHolders) + In("post_lock", LockPoints) - In("advance", LockPoints)
        /\ Cardinality(SlotHolders)' =
            Cardinality(SlotHolders) + In("post_lock", SlotPoints) - In("advance", SlotPoints)
        /\ Cardinality(Announcers)' =
            Cardinality(Announcers) + In("post_lock", AnnouncePoints)
              - In("advance", AnnouncePoints)
    BY <1>1, GeneratorMoves DEF IInv
  <2>3. /\ pc'[Supervisor] = pc[Supervisor] /\ pc'[g] = "post_lock"
        /\ \A x \in Generators \ {g} : pc'[x] = pc[x]
    BY <1>1, GeneratorMoves DEF IInv
  <2> QED BY <2>1, <2>2, <2>3, CountTypes
<1>4. g \in SlotHolders /\ g \in LockHolders /\ At({"advance"}) \subseteq LockHolders
      /\ g \in At({"advance"})
      /\ At({"advance"})' = At({"advance"}) \ {g}
      /\ At({"bail_free", "bail_lock"})' = At({"bail_free", "bail_lock"})
  BY <1>1, <1>3 DEF At, SlotHolders, LockHolders, LockPoints, SlotPoints, AnnouncePoints
<1>5. OpenInv'
  BY <1>1, <1>3, <1>4 DEF IInv, OpenInv
<1>6. SupAt({"take"})' = SupAt({"take"}) /\ SupAt({"post_free"})' = SupAt({"post_free"})
      /\ SupAt({"take"}) \in {0, 1} /\ SupAt({"post_free"}) \in {0, 1}
  BY <1>3 DEF SupAt
<1>7. /\ sem["lock"] \in Nat /\ sem["free"] \in Nat /\ sem["used"] \in Nat
      /\ lost["lock"] \in Nat /\ lost["free"] \in Nat /\ lost["used"] \in Nat
      /\ fill \in Nat /\ BufSize \in Nat
  BY BufferAssumption DEF IInv, TypeOK, SemNames
<1>8. ASSUME open PROVE LockInv' /\ FreeInv' /\ UsedInv' /\ fill < BufSize
  <2>1. LockInv' /\ FreeInv' /\ UsedInv'
    BY <1>1, <1>3, <1>6, <1>7, <1>8, CountTypes DEF IInv, LockInv, FreeInv, UsedInv
  <2>2. fill < BufSize
    BY <1>4, <1>6, <1>7, <1>8, SlotHolderCounted, CountTypes DEF IInv, FreeInv
  <2> QED BY <2>1, <2>2
<1>9. ASSUME open PROVE PosInv' /\ SlotInv'
  <2>1. /\ fill \in 0 .. BufSize /\ fill + 1 \in 0 .. BufSize
        /\ wPos = SlotAfter(fill) /\ wPos \in Slots /\ rPos \in 0 .. BufSize - 1
    BY <1>7, <1>8, <1>9 DEF IInv, PosInv, TypeOK, Slots
  <2>2. NextPos(wPos) = SlotAfter(fill + 1)
    BY <1>7, <2>1, SlotAfterWraps, NextPosWraps DEF IInv
  <2>3. \A i \in 1 .. fill + 1 : slots[SlotAfter(i - 1)] \in Solutions
    <3>1. \A i \in 1 .. fill : slots[SlotAfter(i - 1)] \in Solutions
      BY <1>9 DEF IInv, SlotInv, Unread
    <3>2. slots[SlotAfter((fill + 1) - 1)] \in Solutions
      <4>1. slots[wPos] = item[g] /\ item[g] \in Solutions
        BY <1>1, <1>4, <1>9 DEF IInv, SlotInv, TypeOK, WriterPCs
      <4>2. (fill + 1) - 1 = fill
        BY <1>7
      <4> QED BY <2>1, <4>1, <4>2
    <3>3. \A i \in 1 .. fill + 1 : i \in 1 .. fill \/ i = fill + 1
      BY <1>7
    <3> QED BY <3>1, <3>2, <3>3
  <2>4. At({"advance"})' = {}
    BY <1>4, <1>9, OneLockHolder DEF IInv
  <2> QED BY <1>1, <2>2, <2>3, <2>4 DEF PosInv, SlotInv, SlotAfter, Unread
<1> QED BY <1>1, <1>2, <1>5, <1>8, <1>9 DEF IInv

-----------------------------------------------------------------------------
(* Steps of the supervisor.                                                *)

\* Those that leave the shared memory alone: the counts of generators do not
\* change, so only the semaphores and the supervisor's own token matter.
ReaderKeeps(from, to) ==
  /\ Kept("lock", {}, from, to)
  /\ Kept("free", {"post_free"}, from, to)
  /\ Kept("used", {"take"}, from, to)

\* The same for a step of the supervisor.
LEMMA SupervisorControl ==
  ASSUME IInv, NEW to \in ReaderPCs \cup CommonPCs,
         pc' = [pc EXCEPT ![Supervisor] = to],
         open \/ to = "exited",
         TokensTyped,
         open => ReaderKeeps(pc[Supervisor], to),
         record' \in Solutions \cup {NoSolution},
         UNCHANGED <<shm, item>>
  PROVE  IInv'
<1>1. TypeOK'
  BY BufferAssumption DEF IInv, TypeOK, shm, Procs, TokensTyped
<1>2. /\ LockHolders' = LockHolders /\ SlotHolders' = SlotHolders
      /\ Announcers' = Announcers
      /\ pc'[Supervisor] = to /\ \A x \in Generators : pc'[x] = pc[x]
  BY SupervisorMoves DEF IInv
<1>3. /\ At({"advance"})' = At({"advance"})
      /\ At({"bail_free", "bail_lock"})' = At({"bail_free", "bail_lock"})
  BY <1>2 DEF At
<1>4. OpenInv'
  BY <1>2, <1>3 DEF IInv, OpenInv, shm
<1>5. open => PosInv' /\ SlotInv'
  BY <1>3 DEF IInv, PosInv, SlotInv, SlotAfter, Unread, shm
<1>6. ASSUME open PROVE LockInv' /\ FreeInv' /\ UsedInv'
  <2>1. /\ SupAt({"take"})' = In(to, {"take"})
        /\ SupAt({"post_free"})' = In(to, {"post_free"})
        /\ In(to, {"take"}) \in {0, 1} /\ In(to, {"post_free"}) \in {0, 1}
        /\ SupAt({"take"}) = In(pc[Supervisor], {"take"})
        /\ SupAt({"post_free"}) = In(pc[Supervisor], {"post_free"})
        /\ SupAt({"take"}) \in {0, 1} /\ SupAt({"post_free"}) \in {0, 1}
    BY <1>2 DEF SupAt, In
  <2>2. /\ sem["lock"] \in Nat /\ sem["free"] \in Nat /\ sem["used"] \in Nat
        /\ sem'["lock"] \in Nat /\ sem'["free"] \in Nat /\ sem'["used"] \in Nat
        /\ lost["lock"] \in Nat /\ lost["free"] \in Nat /\ lost["used"] \in Nat
        /\ lost'["lock"] \in Nat /\ lost'["free"] \in Nat /\ lost'["used"] \in Nat
        /\ fill \in Nat /\ fill' = fill /\ BufSize \in Nat
    BY BufferAssumption DEF IInv, TypeOK, SemNames, shm, TokensTyped
  <2>3. In(pc[Supervisor], {}) = 0 /\ In(to, {}) = 0
    BY DEF In
  <2>4. ReaderKeeps(pc[Supervisor], to) /\ LockInv /\ FreeInv /\ UsedInv
    BY <1>6 DEF IInv
  <2>5. /\ sem'["lock"] + lost'["lock"] = sem["lock"] + lost["lock"]
        /\ sem'["free"] + SupAt({"post_free"})' + lost'["free"]
             = sem["free"] + SupAt({"post_free"}) + lost["free"]
        /\ sem'["used"] + SupAt({"take"})' + lost'["used"]
             = sem["used"] + SupAt({"take"}) + lost["used"]
    BY <2>1, <2>2, <2>3, <2>4 DEF ReaderKeeps, Kept
  <2>6. LockInv'
    BY <1>2, <2>2, <2>4, <2>5, CountTypes DEF LockInv
  <2>7. /\ SupAt({"take"})' \in Int /\ SupAt({"post_free"})' \in Int
        /\ SupAt({"take"}) \in Int /\ SupAt({"post_free"}) \in Int
        /\ Cardinality(SlotHolders)' = Cardinality(SlotHolders)
        /\ Cardinality(Announcers)' = Cardinality(Announcers)
    BY <1>2, <2>1
  <2>8. FreeInv'
    <3> DEFINE new == SupAt({"post_free"})'
               old == SupAt({"post_free"})
               held == Cardinality(SlotHolders)
    <3>1. sem["free"] + held + fill + old + lost["free"] = BufSize /\ held \in Int
      BY <2>4, CountTypes DEF FreeInv
    <3>2. sem'["free"] + new + lost'["free"] = sem["free"] + old + lost["free"]
          /\ new \in Int /\ old \in Int
      BY <2>5, <2>7
    <3>3. sem'["free"] + held + fill' + new + lost'["free"] = BufSize
      <4> HIDE DEF new, old, held
      <4> QED BY <2>2, <3>1, <3>2
    <3> QED BY <2>7, <3>3 DEF FreeInv
  <2>9. UsedInv'
    <3> DEFINE new == SupAt({"take"})'
               old == SupAt({"take"})
               due == Cardinality(Announcers)
    <3>1. sem["used"] + due + old + lost["used"] = fill /\ due \in Int
      BY <2>4, CountTypes DEF UsedInv
    <3>2. sem'["used"] + new + lost'["used"] = sem["used"] + old + lost["used"]
          /\ new \in Int /\ old \in Int
      BY <2>5, <2>7
    <3>3. sem'["used"] + due + new + lost'["used"] = fill'
      <4> HIDE DEF new, old, due
      <4> QED BY <2>2, <3>1, <3>2
    <3> QED BY <2>7, <3>3 DEF UsedInv
  <2> QED BY <2>6, <2>8, <2>9
<1> QED BY <1>1, <1>4, <1>5, <1>6 DEF IInv, shm

\* take empties the oldest slot.
LEMMA TakeStep ==
  ASSUME IInv, Take
  PROVE  IInv'
<1>1. /\ pc[Supervisor] = "take" /\ pc' = [pc EXCEPT ![Supervisor] = "post_free"]
      /\ item' = [item EXCEPT ![Supervisor] = slots[rPos]]
      /\ rPos' = NextPos(rPos) /\ fill' = fill - 1
      /\ UNCHANGED <<open, wPos, slots, sem, record, lost>>
  BY DEF Take, Goto
<1>2. open
  BY <1>1 DEF IInv, OpenInv
<1>3. /\ sem["lock"] \in Nat /\ sem["free"] \in Nat /\ sem["used"] \in Nat
      /\ lost["lock"] \in Nat /\ lost["free"] \in Nat /\ lost["used"] \in Nat
      /\ fill \in Nat /\ BufSize \in Nat
  BY BufferAssumption DEF IInv, TypeOK, SemNames
<1>4. SupAt({"take"}) = 1 /\ SupAt({"post_free"}) = 0
  BY <1>1 DEF SupAt
<1>5. fill >= 1 /\ fill <= BufSize
  BY <1>2, <1>3, <1>4, CountTypes DEF IInv, FreeInv, UsedInv
<1>6. /\ LockHolders' = LockHolders /\ SlotHolders' = SlotHolders
      /\ Announcers' = Announcers
      /\ pc'[Supervisor] = "post_free" /\ \A x \in Generators : pc'[x] = pc[x]
  BY <1>1, SupervisorMoves DEF IInv
<1>7. \A x \in Generators : item'[x] = item[x]
  BY <1>1, BufferAssumption DEF IInv, TypeOK, Procs
<1>8. TypeOK'
  <2>1. rPos' \in Slots /\ fill' \in Nat
    BY <1>1, <1>3, <1>5, NextPosWraps DEF IInv, TypeOK
  <2>2. item' \in [Procs -> Solutions \cup {NoSolution}]
    BY <1>1 DEF IInv, TypeOK, Procs
  <2>3. pc' \in [Procs -> WriterPCs \cup ReaderPCs \cup CommonPCs]
    BY <1>1 DEF IInv, TypeOK, ReaderPCs
  <2> QED BY <1>1, <1>6, <1>7, <2>1, <2>2, <2>3 DEF IInv, TypeOK, ReaderPCs
<1>9. /\ At({"advance"})' = At({"advance"})
      /\ At({"bail_free", "bail_lock"})' = At({"bail_free", "bail_lock"})
  BY <1>6 DEF At
<1>10. OpenInv'
  BY <1>1, <1>2, <1>9 DEF IInv, OpenInv
<1>11. LockInv' /\ FreeInv' /\ UsedInv'
  <2>1. SupAt({"take"})' = 0 /\ SupAt({"post_free"})' = 1
    BY <1>6 DEF SupAt
  <2>2. LockInv /\ FreeInv /\ UsedInv /\ sem' = sem /\ lost' = lost /\ fill' = fill - 1
    BY <1>1, <1>2 DEF IInv
  <2>3. LockInv' /\ FreeInv'
    BY <1>3, <1>4, <1>6, <2>1, <2>2, CountTypes DEF LockInv, FreeInv
  <2>4. UsedInv'
    BY <1>3, <1>4, <1>6, <2>1, <2>2, CountTypes DEF UsedInv
  <2> QED BY <2>3, <2>4
<1>12. \A d \in 0 .. fill - 1 : SlotAfter(d)' = SlotAfter(d + 1)
  <2>1. rPos \in Slots /\ rPos \in 0 .. BufSize - 1 /\ rPos' \in 0 .. BufSize - 1
    BY <1>8 DEF IInv, TypeOK, Slots
  <2>2. rPos' = IF rPos + 1 < BufSize THEN rPos + 1 ELSE 0
    BY <1>1, <2>1, NextPosWraps
  <2> SUFFICES ASSUME NEW d \in 0 .. fill - 1
               PROVE  SlotAfter(d)' = SlotAfter(d + 1)
    OBVIOUS
  <2>3. d \in 0 .. BufSize /\ d + 1 \in 0 .. BufSize
    BY <1>3, <1>5
  <2>4. SlotAfter(d + 1) = IF rPos + (d + 1) < BufSize THEN rPos + (d + 1)
                           ELSE rPos + (d + 1) - BufSize
    BY <2>3, SlotAfterWraps DEF IInv
  <2>5. SlotAfter(d)' = IF rPos' + d < BufSize THEN rPos' + d ELSE rPos' + d - BufSize
    BY <2>1, <2>3, ModWraps, BufferAssumption DEF SlotAfter
  <2> QED BY <1>3, <1>5, <2>1, <2>2, <2>3, <2>4, <2>5
<1>13. PosInv'
  <2>1. fill - 1 \in 0 .. fill - 1 /\ (fill - 1) + 1 = fill
    BY <1>3, <1>5
  <2>2. \A d \in 0 .. fill - 1 : (rPos' + d) % BufSize = SlotAfter(d + 1)
    BY <1>12 DEF SlotAfter
  <2>3. (rPos' + (fill - 1)) % BufSize = SlotAfter(fill)
    BY <2>1, <2>2
  <2> QED BY <1>1, <1>2, <2>3 DEF IInv, PosInv, SlotAfter
<1>14. SlotInv'
  <2>1. ASSUME NEW i \in 1 .. fill - 1 PROVE slots[SlotAfter(i - 1)'] \in Solutions
    <3>1. i - 1 \in 0 .. fill - 1 /\ i + 1 \in 1 .. fill /\ (i - 1) + 1 = (i + 1) - 1
      BY <1>3, <1>5
    <3>2. SlotAfter(i - 1)' = SlotAfter((i + 1) - 1)
      BY <1>12, <3>1
    <3>3. slots[SlotAfter((i + 1) - 1)] \in Solutions
      BY <1>2, <3>1 DEF IInv, SlotInv, Unread
    <3> QED BY <3>2, <3>3
  <2>2. \A h \in At({"advance"})' : slots'[wPos'] = item'[h]
    BY <1>1, <1>2, <1>7, <1>9 DEF IInv, SlotInv, At
  <2> QED BY <1>1, <2>1, <2>2 DEF SlotInv, Unread, SlotAfter
<1> QED BY <1>1, <1>8, <1>10, <1>11, <1>13, <1>14 DEF IInv

\* The supervisor's other steps: block_read around take, main, exit, signals.
LEMMA SupervisorControlSteps ==
  ASSUME IInv,
         \/ CheckUsed \/ WaitUsed \/ PostFree \/ Handle
         \/ SupervisorSignal \/ SupervisorFault
  PROVE  IInv'
<1> USE DEF Goto, ReaderKeeps, Kept, In, TokensTyped
<1>1. /\ sem \in [SemNames -> Nat] /\ lost \in [SemNames -> Nat]
      /\ "free" \in SemNames /\ "lock" \in SemNames /\ "used" \in SemNames
      /\ \A s \in SemNames : sem[s] \in Nat /\ lost[s] \in Nat
      /\ pc[Supervisor] \in ReaderPCs \cup CommonPCs
      /\ record \in Solutions \cup {NoSolution}
      /\ item[Supervisor] \in Solutions \cup {NoSolution}
      /\ pc[Supervisor] # "exited" => open
  BY DEF IInv, TypeOK, OpenInv, Procs, SemNames
<1>2. CASE CheckUsed
  <2>1. /\ pc' = [pc EXCEPT ![Supervisor] = "wait_used"]
        /\ pc[Supervisor] = "check_used" /\ open
        /\ UNCHANGED <<shm, sem, item, record, lost>>
    BY <1>1, <1>2 DEF CheckUsed, CheckOpen
  <2>2. ReaderKeeps("check_used", "wait_used") /\ TokensTyped /\ "wait_used" \in ReaderPCs
    BY <1>1, <2>1 DEF ReaderPCs
  <2> QED BY <1>1, <2>1, <2>2, SupervisorControl
<1>3. CASE WaitUsed
  <2>1. /\ pc' = [pc EXCEPT ![Supervisor] = "take"]
        /\ pc[Supervisor] = "wait_used" /\ open /\ UNCHANGED <<shm, item, record, lost>>
        /\ sem["used"] > 0 /\ sem' = [sem EXCEPT !["used"] = @ - 1]
    BY <1>1, <1>3 DEF WaitUsed, WaitSem, Wait
  <2>2. ReaderKeeps("wait_used", "take") /\ TokensTyped /\ "take" \in ReaderPCs
    BY <1>1, <2>1 DEF ReaderPCs
  <2> QED BY <1>1, <2>1, <2>2, SupervisorControl
<1>4. CASE PostFree
  <2>1. /\ pc' = [pc EXCEPT ![Supervisor] = "handle"]
        /\ pc[Supervisor] = "post_free" /\ open /\ UNCHANGED <<shm, item, record, lost>>
        /\ sem' = [sem EXCEPT !["free"] = @ + 1]
    BY <1>1, <1>4 DEF PostFree, PostSem, Post
  <2>2. ReaderKeeps("post_free", "handle") /\ TokensTyped /\ "handle" \in ReaderPCs
    BY <1>1, <2>1 DEF ReaderPCs
  <2> QED BY <1>1, <2>1, <2>2, SupervisorControl
<1>5. CASE Handle
  <2> DEFINE to == IF SizeOf[item[Supervisor]] = 0 THEN "closing" ELSE "check_used"
  <2>1. /\ pc' = [pc EXCEPT ![Supervisor] = to]
        /\ pc[Supervisor] = "handle" /\ open /\ UNCHANGED <<shm, sem, item, lost>>
        /\ record' \in Solutions \cup {NoSolution}
    BY <1>1, <1>5 DEF Handle
  <2>2. to \in ReaderPCs /\ ReaderKeeps("handle", to) /\ TokensTyped
    BY <1>1, <2>1 DEF ReaderPCs
  <2> HIDE DEF to
  <2> QED BY <1>1, <2>1, <2>2, SupervisorControl
<1>6. ASSUME NEW to \in {"closing", "check_used", "dead"}, NEW S \in SUBSET SemNames,
             pc' = [pc EXCEPT ![Supervisor] = to], pc[Supervisor] # "exited",
             lost' = [s \in SemNames |-> IF s \in S THEN lost[s] + 1 ELSE lost[s]],
             "lock" \notin S,
             "free" \in S <=> pc[Supervisor] = "post_free",
             "used" \in S <=> pc[Supervisor] = "take",
             UNCHANGED <<shm, sem, item, record>>
      PROVE  IInv'
  <2>1. to \in ReaderPCs \cup CommonPCs /\ ReaderKeeps(pc[Supervisor], to) /\ TokensTyped
    BY <1>1, <1>6 DEF ReaderPCs, CommonPCs
  <2> QED BY <1>1, <1>6, <2>1, SupervisorControl
<1>7. ASSUME NEW to \in {"closing", "dead"}, pc' = [pc EXCEPT ![Supervisor] = to],
             pc[Supervisor] # "exited", Lose(TokensAt(pc[Supervisor])),
             UNCHANGED <<shm, sem, item, record>>
      PROVE  IInv'
  <2> DEFINE S == TokensAt(pc[Supervisor])
  <2>1. /\ S \in SUBSET SemNames /\ "lock" \notin S
        /\ "free" \in S <=> pc[Supervisor] = "post_free"
        /\ "used" \in S <=> pc[Supervisor] = "take"
    BY <1>1 DEF TokensAt, LockPoints, SlotPoints, AnnouncePoints, ReaderPCs, CommonPCs
  <2>2. lost' = [s \in SemNames |-> IF s \in S THEN lost[s] + 1 ELSE lost[s]]
    BY <1>1, <1>7 DEF Lose
  <2> HIDE DEF S
  <2> QED BY <1>6, <1>7, <2>1, <2>2
<1>8. CASE SupervisorSignal
  BY <1>7, <1>8 DEF SupervisorSignal, Ended
<1>9. CASE SupervisorKilled
  BY <1>7, <1>9 DEF SupervisorKilled, Ended
<1>10. ASSUME NEW to \in {"closing", "check_used"}, pc' = [pc EXCEPT ![Supervisor] = to],
              pc[Supervisor] = "wait_used", UNCHANGED <<shm, sem, item, record, lost>>
       PROVE  IInv'
  <2>1. lost' = [s \in SemNames |-> IF s \in {} THEN lost[s] + 1 ELSE lost[s]]
    BY <1>1, <1>10
  <2>2. {} \in SUBSET SemNames /\ to \in {"closing", "check_used", "dead"}
    OBVIOUS
  <2> QED BY <1>6, <1>10, <2>1, <2>2
<1>11. CASE Interrupted(Supervisor, "wait_used", "check_used")
  BY <1>10, <1>11 DEF Interrupted
<1>12. CASE WaitFails(Supervisor, "wait_used", "closing")
  BY <1>10, <1>12 DEF WaitFails
<1>13. CASE PostFails(Supervisor, "free", "post_free", "closing")
  <2>1. lost' = [s \in SemNames |-> IF s \in {"free"} THEN lost[s] + 1 ELSE lost[s]]
    BY <1>1, <1>13 DEF PostFails, Lose
  <2>2. /\ pc' = [pc EXCEPT ![Supervisor] = "closing"] /\ pc[Supervisor] = "post_free"
        /\ UNCHANGED <<shm, sem, item, record>>
    BY <1>13 DEF PostFails
  <2>3. {"free"} \in SUBSET SemNames
    BY <1>1
  <2> QED BY <1>6, <2>1, <2>2, <2>3
<1> QED
  BY <1>2, <1>3, <1>4, <1>5, <1>8, <1>9, <1>11, <1>12, <1>13 DEF SupervisorFault, ReadFails

\* close_buffer ends the supervisor's part of the invariant.
LEMMA CloseBufferStep ==
  ASSUME IInv, CloseBuffer
  PROVE  IInv'
<1>1. /\ pc' = [pc EXCEPT ![Supervisor] = "exited"] /\ open' = FALSE
      /\ lost' \in [SemNames -> Nat]
      /\ UNCHANGED <<wPos, rPos, slots, fill, sem, item, record>>
  BY DEF CloseBuffer, Goto
<1>2. pc'[Supervisor] = "exited" /\ \A x \in Generators : pc'[x] = pc[x]
  BY <1>1, SupervisorMoves DEF IInv
<1>3. TypeOK'
  BY <1>1, <1>2 DEF IInv, TypeOK, CommonPCs
<1> QED BY <1>1, <1>2, <1>3 DEF IInv, OpenInv

-----------------------------------------------------------------------------
(* The invariant and what follows from it.                                 *)

\* Every step preserves the invariant.
LEMMA NextIInv == IInv /\ [Next]_vars => IInv'
<1> SUFFICES ASSUME IInv, [Next]_vars PROVE IInv'
  OBVIOUS
<1>1. CASE \E g \in Generators : GeneratorStep(g) \/ GeneratorFault(g)
  BY <1>1, GeneratorMovesTo, GeneratorControl, SolveStep, StoreSlotStep, AdvanceWPosStep
     DEF GeneratorStep
<1>2. CASE SupervisorStep \/ SupervisorSignal \/ SupervisorFault
  BY <1>2, SupervisorControlSteps, TakeStep, CloseBufferStep DEF SupervisorStep
<1>3. CASE UNCHANGED vars
  BY <1>3 DEF vars, IInv, TypeOK, OpenInv, LockInv, FreeInv, UsedInv, PosInv, SlotInv,
              LockHolders, SlotHolders, Announcers, At, SupAt, SlotAfter, Unread
<1> QED BY <1>1, <1>2, <1>3 DEF Next

\* The inductive invariant holds in every reachable state: block_write and
\* block_read create no token, whatever call fails and whoever is killed.
THEOREM InductiveInvariant == Spec => []IInv
BY InitIInv, NextIInv, PTL DEF Spec

\* Variables keep their types; in particular take never reads below fill = 0.
THEOREM TypeCorrect == Spec => []TypeOK
<1>1. IInv => TypeOK
  BY DEF IInv
<1> QED BY <1>1, InductiveInvariant, PTL

\* At most one generator is inside append of an open buffer.
THEOREM WritersExclude == Spec => []MutualExclusion
<1>1. IInv => MutualExclusion
  <2> SUFFICES ASSUME IInv, open PROVE Cardinality(At({"store", "advance"})) <= 1
    BY DEF MutualExclusion
  <2>1. At({"store", "advance"}) \subseteq LockHolders /\ IsFiniteSet(LockHolders)
    BY SelFinite DEF Sel, At, LockHolders, LockPoints, SlotPoints, AnnouncePoints
  <2>2. /\ Cardinality(At({"store", "advance"})) \in Nat
        /\ Cardinality(At({"store", "advance"})) <= Cardinality(LockHolders)
    BY <2>1, FS_Subset, FS_CardinalityType
  <2>3. sem["lock"] \in Nat /\ lost["lock"] \in Nat
    BY DEF IInv, TypeOK, SemNames
  <2> QED BY <2>2, <2>3, CountTypes DEF IInv, LockInv
<1> QED BY <1>1, InductiveInvariant, PTL

\* append never writes an unread slot, and take reads a slot that is written
\* and that no generator is writing.
THEOREM NoUnreadSlotOverwritten == Spec => []NoOverwrite
<1>1. IInv => NoOverwrite
  <2> SUFFICES ASSUME IInv, open PROVE
        /\ At({"store", "advance"}) # {} => fill < BufSize
        /\ pc[Supervisor] = "take" =>
             fill > 0 /\ (At({"store", "advance"}) # {} => wPos # rPos)
    BY DEF NoOverwrite
  <2>1. /\ sem["free"] \in Nat /\ sem["used"] \in Nat /\ fill \in Nat /\ BufSize \in Nat
        /\ lost["free"] \in Nat /\ lost["used"] \in Nat
        /\ SupAt({"take"}) \in {0, 1} /\ SupAt({"post_free"}) \in {0, 1}
    BY BufferAssumption DEF IInv, TypeOK, SemNames, SupAt
  <2>2. ASSUME At({"store", "advance"}) # {} PROVE fill < BufSize
    <3>1. PICK g \in SlotHolders : TRUE
      BY <2>2 DEF At, SlotHolders, LockPoints, SlotPoints, AnnouncePoints
    <3> QED BY <2>1, <3>1, SlotHolderCounted, CountTypes DEF IInv, FreeInv
  <2>3. ASSUME pc[Supervisor] = "take" PROVE fill > 0
    BY <2>1, <2>3, CountTypes DEF IInv, UsedInv, SupAt
  <2>4. ASSUME fill > 0, fill < BufSize PROVE wPos # rPos
    <3>1. rPos \in 0 .. BufSize - 1 /\ fill \in 0 .. BufSize
      BY <2>1, <2>4 DEF IInv, TypeOK, Slots
    <3>2. wPos = IF rPos + fill < BufSize THEN rPos + fill ELSE rPos + fill - BufSize
      BY <3>1, SlotAfterWraps DEF IInv, PosInv
    <3> QED BY <2>1, <2>4, <3>1, <3>2
  <2> QED BY <2>2, <2>3, <2>4
<1> QED BY <1>1, InductiveInvariant, PTL

\* A token is missing only where a process died or left with it, or where a
\* post of it failed: the error paths of block_write and block_read give back
\* what was taken, and nothing else.
THEOREM SlotsConserved == Spec => []NoSlotLeak
<1>1. IInv => NoSlotLeak
  BY DEF IInv, NoSlotLeak
<1> QED BY <1>1, InductiveInvariant, PTL

-----------------------------------------------------------------------------
(* The refinement.                                                         *)

\* The refinement mapping, component by component; see Queue.
OfferedOf == [g \in Generators |-> IF pc[g] \in Offering THEN item[g] ELSE NoSolution]
QueueOf   == IF open THEN Unread ELSE <<>>

-----------------------------------------------------------------------------
(* The unread solutions as a sequence.                                     *)

\* While the buffer is open they are a sequence of fill solutions.
LEMMA UnreadSeq ==
  ASSUME IInv, open
  PROVE  /\ Unread \in Seq(Solutions) /\ Len(Unread) = fill /\ fill \in Nat
         /\ DOMAIN Unread = 1 .. fill
<1>1. fill \in Nat
  BY DEF IInv, TypeOK
<1>2. Unread \in [1 .. fill -> Solutions] /\ DOMAIN Unread = 1 .. fill
  BY DEF IInv, SlotInv, Unread
<1> QED BY <1>1, <1>2

\* A function on 1 .. 0 is the empty sequence.
LEMMA NothingUnread ==
  ASSUME fill = 0
  PROVE  Unread = <<>>
BY DEF Unread

-----------------------------------------------------------------------------
(* The initial state and the steps.                                        *)

\* The fresh buffer is an empty open queue to which nothing is offered.
LEMMA InitRefines == Init => Queue!Init
<1> SUFFICES ASSUME Init PROVE Queue!Init
  OBVIOUS
<1>1. OfferedOf = [g \in Generators |-> NoSolution]
  BY BufferAssumption DEF Init, OfferedOf, Procs, Offering
<1>2. QueueOf = <<>>
  BY NothingUnread DEF Init, QueueOf
<1>3. item[Supervisor] = NoSolution /\ open = TRUE
  BY DEF Init, Procs
<1> QED BY <1>1, <1>2, <1>3 DEF Queue!Init, OfferedOf, QueueOf

\* What a step of one generator makes of the solutions offered.
LEMMA OfferedMove ==
  ASSUME IInv, NEW g \in Generators, NEW to, pc' = [pc EXCEPT ![g] = to],
         \A x \in Generators \ {g} : item'[x] = item[x]
  PROVE  OfferedOf' = [OfferedOf EXCEPT ![g] = IF to \in Offering THEN item'[g] ELSE NoSolution]
<1>1. pc'[g] = to /\ \A x \in Generators \ {g} : pc'[x] = pc[x]
  BY GeneratorMoves DEF IInv
<1> QED BY <1>1 DEF OfferedOf

\* A generator that is inside block_write offers a solution.
LEMMA OffersSolution ==
  ASSUME IInv, NEW g \in Generators, pc[g] \in Offering
  PROVE  OfferedOf[g] = item[g] /\ item[g] \in Solutions /\ item[g] # NoSolution
BY BufferAssumption DEF IInv, TypeOK, OfferedOf, Offering, WriterPCs

\* The start of block_write offers the solution.
LEMMA SolveRefines ==
  ASSUME IInv, NEW g \in Generators, Solve(g)
  PROVE  \E s \in Solutions : Queue!Offer(g, s)
<1>1. PICK s \in Solutions : item' = [item EXCEPT ![g] = s]
  BY DEF Solve
<1>2. /\ pc[g] = "solve" /\ pc' = [pc EXCEPT ![g] = "check_free"]
      /\ UNCHANGED <<open, rPos, slots, fill>>
  BY DEF Solve, Goto, shm
<1>3. item'[g] = s /\ item'[Supervisor] = item[Supervisor] /\ \A x \in Generators \ {g} : item'[x] = item[x]
  BY <1>1, BufferAssumption DEF IInv, TypeOK, Procs
<1>4. OfferedOf[g] = NoSolution
  BY <1>2 DEF OfferedOf, Offering
<1>5. OfferedOf' = [OfferedOf EXCEPT ![g] = s]
  BY <1>2, <1>3, OfferedMove DEF Offering
<1>6. UNCHANGED QueueOf
  BY <1>2 DEF QueueOf, Unread, SlotAfter
<1>7. Queue!Offer(g, s)
  BY <1>2, <1>3, <1>4, <1>5, <1>6 DEF Queue!Offer, OfferedOf, QueueOf
<1> QED BY <1>7

\* A step between two control points either stays inside block_write, or is
\* outside of it, or gives the write up.
LEMMA MoveRefines ==
  ASSUME IInv, NEW g \in Generators, NEW to, MovesTo(g, to)
  PROVE  Queue!Drop(g) \/ UNCHANGED Queue!vars
<1>1. /\ pc' = [pc EXCEPT ![g] = to] /\ UNCHANGED <<open, rPos, slots, fill, item>>
      /\ to \in Offering => pc[g] \in Offering
  BY DEF MovesTo, shm
<1>2. OfferedOf' = [OfferedOf EXCEPT ![g] = IF to \in Offering THEN item[g] ELSE NoSolution]
  BY <1>1, OfferedMove
<1>3. UNCHANGED QueueOf
  BY <1>1 DEF QueueOf, Unread, SlotAfter
<1>4. CASE pc[g] \in Offering /\ to \notin Offering
  <2>1. OfferedOf[g] # NoSolution
    BY <1>4, OffersSolution
  <2>2. OfferedOf' = [OfferedOf EXCEPT ![g] = NoSolution]
    BY <1>2, <1>4
  <2> QED BY <1>1, <1>3, <2>1, <2>2 DEF Queue!Drop, OfferedOf, QueueOf
<1>5. CASE ~(pc[g] \in Offering /\ to \notin Offering)
  <2>1. OfferedOf[g] = IF to \in Offering THEN item[g] ELSE NoSolution
    BY <1>1, <1>5 DEF OfferedOf
  <2>2. OfferedOf' = OfferedOf
    BY <1>2, <2>1 DEF OfferedOf
  <2> QED BY <1>1, <1>3, <2>2 DEF Queue!vars, OfferedOf, QueueOf
<1> QED BY <1>4, <1>5

\* The store of append goes to a slot that is not unread.
LEMMA StoreRefines ==
  ASSUME IInv, NEW g \in Generators, StoreSlot(g)
  PROVE  UNCHANGED Queue!vars
<1>1. /\ pc[g] = "store" /\ pc' = [pc EXCEPT ![g] = "advance"]
      /\ slots' = [slots EXCEPT ![wPos] = item[g]]
      /\ UNCHANGED <<open, rPos, fill, item>>
  BY DEF StoreSlot, Goto
<1>2. OfferedOf' = [OfferedOf EXCEPT ![g] = item[g]] /\ OfferedOf[g] = item[g]
  BY <1>1, OfferedMove, OffersSolution DEF Offering
<1>3. OfferedOf' = OfferedOf
  BY <1>2 DEF OfferedOf
<1>4. ASSUME open PROVE Unread' = Unread
  <2>1. fill < BufSize /\ fill \in Nat /\ BufSize \in Nat
    <3>1. g \in SlotHolders
      BY <1>1 DEF At, SlotHolders, LockPoints, SlotPoints, AnnouncePoints
    <3> QED BY <1>4, <3>1, SlotHolderCounted, CountTypes, BufferAssumption
            DEF IInv, FreeInv, SupAt, TypeOK, SemNames
  <2>2. ASSUME NEW i \in 1 .. fill PROVE SlotAfter(i - 1) # wPos
    <3>1. i - 1 \in 0 .. BufSize /\ fill \in 0 .. BufSize /\ rPos \in 0 .. BufSize - 1
      BY <2>1 DEF IInv, TypeOK, Slots
    <3>2. SlotAfter(i - 1) = IF rPos + (i - 1) < BufSize THEN rPos + (i - 1)
                             ELSE rPos + (i - 1) - BufSize
      BY <3>1, SlotAfterWraps DEF IInv
    <3>3. wPos = IF rPos + fill < BufSize THEN rPos + fill ELSE rPos + fill - BufSize
      BY <1>4, <3>1, SlotAfterWraps DEF IInv, PosInv
    <3> QED BY <2>1, <3>1, <3>2, <3>3
  <2>3. \A x : x # wPos => slots'[x] = slots[x]
    BY <1>1 DEF IInv, TypeOK
  <2>4. \A i \in 1 .. fill : slots'[SlotAfter(i - 1)] = slots[SlotAfter(i - 1)]
    BY <2>2, <2>3
  <2> QED BY <1>1, <2>4 DEF Unread, SlotAfter
<1>5. QueueOf' = QueueOf
  BY <1>1, <1>4 DEF QueueOf
<1> QED BY <1>1, <1>3, <1>5 DEF Queue!vars, OfferedOf, QueueOf

\* The advance of w_pos appends the solution; in a closed buffer it is lost.
LEMMA AdvanceRefines ==
  ASSUME IInv, NEW g \in Generators, AdvanceWPos(g)
  PROVE  Queue!Put(g) \/ Queue!Drop(g)
<1>1. /\ pc[g] = "advance" /\ pc' = [pc EXCEPT ![g] = "post_lock"] /\ fill' = fill + 1
      /\ UNCHANGED <<open, rPos, slots, item>>
  BY DEF AdvanceWPos, Goto
<1>2. /\ OfferedOf' = [OfferedOf EXCEPT ![g] = NoSolution]
      /\ OfferedOf[g] = item[g] /\ item[g] \in Solutions /\ item[g] # NoSolution
  <2>1. "post_lock" \notin Offering /\ pc[g] \in Offering
    BY <1>1 DEF Offering
  <2>2. OfferedOf[g] = item[g] /\ item[g] \in Solutions /\ item[g] # NoSolution
    BY <2>1, OffersSolution
  <2>3. OfferedOf' = [OfferedOf EXCEPT ![g] = NoSolution]
    BY <1>1, <2>1, OfferedMove
  <2> QED BY <2>2, <2>3
<1>3. CASE ~open
  <2>1. UNCHANGED QueueOf
    BY <1>1, <1>3 DEF QueueOf
  <2> QED BY <1>1, <1>2, <2>1 DEF Queue!Drop, OfferedOf, QueueOf
<1>4. CASE open
  <2>1. /\ Unread \in Seq(Solutions) /\ Len(Unread) = fill /\ fill \in Nat
        /\ DOMAIN Unread = 1 .. fill
    BY <1>4, UnreadSeq
  <2>2. fill < BufSize
    <3>1. g \in SlotHolders
      BY <1>1 DEF At, SlotHolders, LockPoints, SlotPoints, AnnouncePoints
    <3> QED BY <1>4, <3>1, SlotHolderCounted, CountTypes, BufferAssumption
            DEF IInv, FreeInv, SupAt, TypeOK, SemNames
  <2>3. slots[SlotAfter(fill)] = item[g]
    <3>1. g \in At({"advance"})
      BY <1>1 DEF At
    <3> QED BY <1>4, <3>1 DEF IInv, SlotInv, PosInv
  <2>4. Unread' = [i \in 1 .. fill + 1 |-> slots[SlotAfter(i - 1)]]
    BY <1>1 DEF Unread, SlotAfter
  <2>5. \A i \in 1 .. fill : slots[SlotAfter(i - 1)] = Unread[i] /\ Unread[i] \in Solutions
    BY <1>4 DEF IInv, SlotInv, Unread
  <2>6. slots[SlotAfter((fill + 1) - 1)] = item[g]
    <3>1. (fill + 1) - 1 = fill
      BY <2>1
    <3> QED BY <2>3, <3>1
  <2>7. Unread' = Append(Unread, item[g])
    <3>1. \A i \in 1 .. fill + 1 : i \in 1 .. fill \/ i = fill + 1
      BY <2>1
    <3>2. \A i \in 1 .. fill + 1 : Unread'[i] \in Solutions
      BY <1>2, <2>4, <2>5, <2>6, <3>1
    <3>3. Unread' \in Seq(Solutions) /\ Len(Unread') = fill + 1
      BY <2>1, <2>4, <3>2
    <3>4. \A i \in 1 .. fill + 1 : Unread'[i] = Append(Unread, item[g])[i]
      <4>1. \A i \in 1 .. fill : Unread'[i] = Append(Unread, item[g])[i]
        <5>1. \A i \in 1 .. fill : i \in 1 .. fill + 1
          BY <2>1
        <5> QED BY <1>2, <2>1, <2>4, <2>5, <5>1, AppendProperties
      <4>2. Unread'[fill + 1] = Append(Unread, item[g])[fill + 1]
        <5>1. fill + 1 \in 1 .. fill + 1
          BY <2>1
        <5> QED BY <1>2, <2>1, <2>4, <2>6, <5>1, AppendProperties
      <4> QED BY <3>1, <4>1, <4>2
    <3> QED BY <1>2, <2>1, <3>3, <3>4, AppendProperties, SeqEqual
  <2>8. QueueOf' = Append(QueueOf, OfferedOf[g]) /\ Len(QueueOf) < BufSize
    BY <1>1, <1>2, <1>4, <2>1, <2>2, <2>7 DEF QueueOf
  <2>9. item'[Supervisor] = item[Supervisor]
    BY <1>1
  <2> QED BY <1>1, <1>2, <1>4, <2>8, <2>9 DEF Queue!Put, OfferedOf, QueueOf
<1> QED BY <1>3, <1>4

\* take removes the oldest solution.
LEMMA TakeRefines ==
  ASSUME IInv, Take
  PROVE  Queue!Get
<1>1. /\ pc[Supervisor] = "take" /\ pc' = [pc EXCEPT ![Supervisor] = "post_free"]
      /\ item' = [item EXCEPT ![Supervisor] = slots[rPos]]
      /\ rPos' = NextPos(rPos) /\ fill' = fill - 1
      /\ UNCHANGED <<open, slots>>
  BY DEF Take, Goto
<1>2. open
  BY <1>1 DEF IInv, OpenInv
<1>3. /\ Unread \in Seq(Solutions) /\ Len(Unread) = fill /\ fill \in Nat
      /\ DOMAIN Unread = 1 .. fill /\ BufSize \in Nat
  BY <1>2, UnreadSeq, BufferAssumption
<1>4. fill >= 1 /\ fill <= BufSize
  <2>1. /\ sem["free"] \in Nat /\ sem["used"] \in Nat
        /\ lost["free"] \in Nat /\ lost["used"] \in Nat
        /\ SupAt({"take"}) = 1 /\ SupAt({"post_free"}) = 0
    BY <1>1 DEF IInv, TypeOK, SemNames, SupAt
  <2>2. FreeInv /\ UsedInv
    BY <1>2 DEF IInv
  <2>3. fill >= 1
    BY <1>3, <2>1, <2>2, CountTypes DEF UsedInv
  <2>4. fill <= BufSize
    BY <1>3, <2>1, <2>2, CountTypes DEF FreeInv
  <2> QED BY <2>3, <2>4
<1>5. /\ item'[Supervisor] = slots[rPos] /\ \A x \in Generators : item'[x] = item[x]
      /\ \A x \in Generators : pc'[x] = pc[x]
  BY <1>1, SupervisorMoves, BufferAssumption DEF IInv, TypeOK, Procs
<1>6. OfferedOf' = OfferedOf
  BY <1>5 DEF OfferedOf
<1>7. rPos \in 0 .. BufSize - 1 /\ rPos' \in 0 .. BufSize - 1
      /\ rPos' = IF rPos + 1 < BufSize THEN rPos + 1 ELSE 0
  BY <1>1, NextPosWraps DEF IInv, TypeOK, Slots
<1>8. Unread # <<>> /\ Head(Unread) = slots[rPos]
  <2>1. 1 \in 1 .. fill /\ Unread[1] = slots[SlotAfter(0)]
    BY <1>3, <1>4 DEF Unread
  <2>2. SlotAfter(0) = rPos
    <3>1. 0 \in 0 .. BufSize
      BY <1>3
    <3> QED BY <1>3, <1>7, <3>1, SlotAfterWraps DEF IInv
  <2> QED BY <1>3, <2>1, <2>2
<1>9. \A i \in 1 .. fill - 1 : SlotAfter(i - 1)' = SlotAfter((i + 1) - 1)
  <2> SUFFICES ASSUME NEW i \in 1 .. fill - 1 PROVE SlotAfter(i - 1)' = SlotAfter((i + 1) - 1)
    OBVIOUS
  <2>1. i - 1 \in 0 .. BufSize /\ (i + 1) - 1 \in 0 .. BufSize /\ BufSize \in Nat \ {0}
    BY <1>3, <1>4, BufferAssumption
  <2>2. SlotAfter((i + 1) - 1) = IF rPos + i < BufSize THEN rPos + i ELSE rPos + i - BufSize
    BY <2>1, SlotAfterWraps DEF IInv
  <2>3. SlotAfter(i - 1)' = IF rPos' + (i - 1) < BufSize THEN rPos' + (i - 1)
                            ELSE rPos' + (i - 1) - BufSize
    BY <1>7, <2>1, ModWraps DEF SlotAfter
  <2> QED BY <1>3, <1>4, <1>7, <2>1, <2>2, <2>3
<1>10. Unread' = Tail(Unread)
  <2>1. /\ Tail(Unread) \in Seq(Solutions) /\ Len(Tail(Unread)) = fill - 1
        /\ \A i \in 1 .. fill - 1 : Tail(Unread)[i] = Unread[i + 1]
    BY <1>3, <1>8, HeadTailProperties
  <2>2. Unread' = [i \in 1 .. fill - 1 |-> slots[SlotAfter(i - 1)']]
    BY <1>1 DEF Unread
  <2>3. \A i \in 1 .. fill - 1 : Unread'[i] = Unread[i + 1] /\ Unread'[i] \in Solutions
    <3>1. \A i \in 1 .. fill - 1 : i + 1 \in 1 .. fill
      BY <1>3
    <3>2. \A j \in 1 .. fill : Unread[j] = slots[SlotAfter(j - 1)] /\ Unread[j] \in Solutions
      BY <1>2 DEF IInv, SlotInv, Unread
    <3> QED BY <1>9, <2>2, <3>1, <3>2
  <2>4. Unread' \in Seq(Solutions) /\ Len(Unread') = fill - 1
    <3>1. fill - 1 \in Nat
      BY <1>3, <1>4
    <3> QED BY <2>2, <2>3, <3>1
  <2> QED BY <2>1, <2>3, <2>4, SeqEqual
<1>11. QueueOf = Unread /\ QueueOf' = Unread'
  BY <1>1, <1>2 DEF QueueOf
<1> QED BY <1>1, <1>2, <1>5, <1>6, <1>8, <1>10, <1>11 DEF Queue!Get, OfferedOf, QueueOf

\* Closing the buffer closes the queue.
LEMMA CloseRefines ==
  ASSUME IInv, CloseBuffer
  PROVE  Queue!Close
<1>1. /\ pc[Supervisor] = "closing" /\ pc' = [pc EXCEPT ![Supervisor] = "exited"]
      /\ open' = FALSE /\ item' = item
  BY DEF CloseBuffer, Goto
<1>2. open = TRUE
  BY <1>1 DEF IInv, TypeOK, OpenInv
<1>3. \A x \in Generators : pc'[x] = pc[x]
  BY <1>1, SupervisorMoves DEF IInv
<1>4. OfferedOf' = OfferedOf
  BY <1>1, <1>3 DEF OfferedOf
<1>5. QueueOf' = <<>>
  BY <1>1 DEF QueueOf
<1> QED BY <1>1, <1>2, <1>4, <1>5 DEF Queue!Close, OfferedOf, QueueOf

\* The supervisor's other steps leave the queue alone.
LEMMA SupervisorStutters ==
  ASSUME IInv,
         \/ CheckUsed \/ WaitUsed \/ PostFree \/ Handle
         \/ SupervisorSignal \/ SupervisorFault
  PROVE  UNCHANGED Queue!vars
<1>1. /\ UNCHANGED <<open, rPos, slots, fill, item>>
      /\ \E to : pc' = [pc EXCEPT ![Supervisor] = to]
  BY DEF CheckUsed, CheckOpen, WaitUsed, WaitSem, PostFree, PostSem, Handle, SupervisorSignal,
         SupervisorFault, Interrupted, ReadFails, WaitFails, PostFails, SupervisorKilled, Goto, shm
<1>2. \A x \in Generators : pc'[x] = pc[x]
  BY <1>1, SupervisorMoves DEF IInv
<1>3. OfferedOf' = OfferedOf
  BY <1>1, <1>2 DEF OfferedOf
<1>4. QueueOf' = QueueOf
  BY <1>1 DEF QueueOf, Unread, SlotAfter
<1> QED BY <1>1, <1>3, <1>4 DEF Queue!vars, OfferedOf, QueueOf

\* Every step of the buffer is a step of the queue or changes nothing of it.
LEMMA NextRefines ==
  ASSUME IInv, [Next]_vars
  PROVE  [Queue!Next]_Queue!vars
<1>1. CASE UNCHANGED vars
  <2>1. UNCHANGED OfferedOf /\ UNCHANGED QueueOf
    BY <1>1 DEF vars, OfferedOf, QueueOf, Unread, SlotAfter
  <2> QED BY <1>1, <2>1 DEF vars, Queue!vars, OfferedOf, QueueOf
<1>2. ASSUME NEW g \in Generators, GeneratorStep(g) \/ GeneratorFault(g)
      PROVE  [Queue!Next]_Queue!vars
  <2>1. CASE Solve(g)
    BY <2>1, SolveRefines DEF Queue!Next
  <2>2. CASE StoreSlot(g)
    BY <2>2, StoreRefines
  <2>3. CASE AdvanceWPos(g)
    BY <2>3, AdvanceRefines DEF Queue!Next
  <2>4. CASE \E to : MovesTo(g, to)
    BY <2>4, MoveRefines DEF Queue!Next
  <2> QED BY <1>2, <2>1, <2>2, <2>3, <2>4, GeneratorMovesTo DEF GeneratorStep
<1>3. CASE SupervisorStep \/ SupervisorSignal \/ SupervisorFault
  <2>1. CASE Take
    BY <2>1, TakeRefines DEF Queue!Next
  <2>2. CASE CloseBuffer
    BY <2>2, CloseRefines DEF Queue!Next
  <2> QED BY <1>3, <2>1, <2>2, SupervisorStutters DEF SupervisorStep
<1> QED BY <1>1, <1>2, <1>3 DEF Next

\* The shared buffer is a bounded FIFO queue that can be closed: whatever
\* interleaving, failing call or death, no solution is lost, repeated or
\* reordered between block_write and block_read while it is open.
THEOREM BufferIsQueue == Spec => ImplementsQueue
BY InitRefines, NextRefines, InductiveInvariant, PTL DEF Spec, ImplementsQueue, Queue!Spec
=============================================================================
