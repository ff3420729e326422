----------------------------- MODULE RingBuffer -----------------------------
(***************************************************************************)
(* Exercise 3: several generator processes write solutions into a ring     *)
(* buffer in POSIX shared memory, one supervisor process reads them.       *)
(* Three semaphores guard it: "free" counts free slots, "used" counts      *)
(* announced slots, "lock" (w_sem in the source) serialises the writers.   *)
(*                                                                         *)
(* Every process is attached to the buffer already (the attach and the     *)
(* cleanup of the named objects are the subject of BufferAttach.tla).  An  *)
(* action is one access to shared memory or one semaphore call, so that    *)
(* TLC explores every interleaving of ring_buffer.c's block_write,         *)
(* block_read and try_sem_wait, of the supervisor's exit and of the death  *)
(* of a process at any point.                                              *)
(***************************************************************************)
EXTENDS Naturals, FiniteSets

CONSTANTS
  Generators,   \* the generator processes
  Supervisor,   \* the supervisor process
  Solutions,    \* the solutions the generators can find
  SizeOf,       \* SizeOf[s]: number of edges of solution s
  NoSolution,   \* contents of a slot or variable never written
  BufSize,      \* BUF_SIZE, the number of slots
  Faults        \* the faults the environment injects, a subset of FaultKinds

FaultKinds == {"eintr", "wait", "post", "kill"}

ASSUME BufferAssumption ==
  /\ IsFiniteSet(Generators)
  /\ Supervisor \notin Generators
  /\ NoSolution \notin Solutions
  /\ SizeOf \in [Solutions -> Nat]
  /\ BufSize \in Nat \ {0}
  /\ Faults \subseteq FaultKinds

Procs == Generators \cup {Supervisor}
SemNames == {"free", "used", "lock"}
Slots == 0 .. BufSize - 1

VARIABLES
  open,         \* ring_buffer_mem_t.open
  wPos, rPos,   \* ring_buffer_mem_t.w_pos, r_pos
  slots,        \* ring_buffer_mem_t.solutions
  sem,          \* the values of free_sem, used_sem, w_sem
  pc,           \* where each process is
  item,         \* each process's local variable "solution"
  record,       \* supervisor.c: the best solution so far
  fill,         \* history: solutions appended and not yet taken
  lost          \* history: per semaphore, the tokens nobody will post again,
                \* counted while the buffer is open

shm  == <<open, wPos, rPos, slots, fill>>
vars == <<open, wPos, rPos, slots, sem, pc, item, record, fill, lost>>

(***************************************************************************)
(* Control points.  "check_x" is the test of open in try_sem_wait's loop,  *)
(* "wait_x" the call of sem_wait inside it; "bail_free" and "bail_lock"    *)
(* are the two posts a process makes when it finds the buffer closed.      *)
(***************************************************************************)
WriterPCs == {"solve", "check_free", "wait_free", "check_lock", "wait_lock",
              "store", "advance", "post_lock", "post_used",
              "undo_free", "undo_used"}
ReaderPCs == {"check_used", "wait_used", "take", "post_free", "handle",
              "closing"}
CommonPCs == {"bail_free", "bail_lock", "exited", "dead"}

Ended == {"exited", "dead"}

TypeOK ==
  /\ open \in BOOLEAN
  /\ wPos \in Slots /\ rPos \in Slots
  /\ slots \in [Slots -> Solutions \cup {NoSolution}]
  /\ sem \in [SemNames -> Nat]
  /\ pc \in [Procs -> WriterPCs \cup ReaderPCs \cup CommonPCs]
  /\ \A g \in Generators : pc[g] \in WriterPCs \cup CommonPCs
  /\ pc[Supervisor] \in ReaderPCs \cup CommonPCs
  /\ item \in [Procs -> Solutions \cup {NoSolution}]
  /\ \A g \in Generators : pc[g] \in WriterPCs \ {"solve"} => item[g] \in Solutions
  /\ record \in Solutions \cup {NoSolution}
  /\ fill \in Nat
  /\ lost \in [SemNames -> Nat]

Init ==
  /\ open = TRUE
  /\ wPos = 0 /\ rPos = 0
  /\ slots = [i \in Slots |-> NoSolution]
  /\ sem = [s \in SemNames |-> CASE s = "free" -> BufSize
                                 [] s = "used" -> 0
                                 [] s = "lock" -> 1]
  /\ pc = [p \in Procs |-> IF p = Supervisor THEN "check_used" ELSE "solve"]
  /\ item = [p \in Procs |-> NoSolution]
  /\ record = NoSolution
  /\ fill = 0
  /\ lost = [s \in SemNames |-> 0]

-----------------------------------------------------------------------------
(* Building blocks.                                                        *)

Goto(p, from, to) == pc[p] = from /\ pc' = [pc EXCEPT ![p] = to]

Wait(s) == sem[s] > 0 /\ sem' = [sem EXCEPT ![s] = @ - 1]
Post(s) == sem' = [sem EXCEPT ![s] = @ + 1]

\* Where a process holds a token of w_sem; of free_sem (a slot taken, or read
\* and not given back); an announcement due to, or taken from, used_sem.
LockPoints     == {"store", "advance", "post_lock"}
SlotPoints     == {"check_lock", "wait_lock", "store", "advance", "undo_free"}
AnnouncePoints == {"post_lock", "post_used", "undo_used"}

TokensAt(x) ==
  {s \in SemNames : \/ s = "lock" /\ x \in LockPoints
                    \/ s = "free" /\ x \in SlotPoints \cup {"post_free"}
                    \/ s = "used" /\ x \in AnnouncePoints \cup {"take"}}

\* The tokens of the semaphores in S are gone for good.
Lose(S) ==
  lost' = IF open THEN [s \in SemNames |-> IF s \in S THEN lost[s] + 1 ELSE lost[s]]
                  ELSE lost

\* (pos + 1) % BUF_SIZE, in append and take.
NextPos(pos) == (pos + 1) % BufSize

\* Where a call of exit() leads: the supervisor's exit handler closes the
\* buffer, a generator's does not.
ExitPoint(p) == IF p = Supervisor THEN "closing" ELSE "exited"

(***************************************************************************)
(* try_sem_wait: test open, then sem_wait; EINTR goes back to the test,    *)
(* another error returns -1, a closed buffer is left through bail_free.    *)
(***************************************************************************)
CheckOpen(p, check, wait) ==
  /\ Goto(p, check, IF open THEN wait ELSE "bail_free")
  /\ UNCHANGED <<shm, sem, item, record, lost>>

WaitSem(p, s, wait, next) ==
  /\ Goto(p, wait, next)
  /\ Wait(s)
  /\ UNCHANGED <<shm, item, record, lost>>

Interrupted(p, wait, check) ==
  /\ "eintr" \in Faults
  /\ Goto(p, wait, check)
  /\ UNCHANGED <<shm, sem, item, record, lost>>

WaitFails(p, wait, failed) ==
  /\ "wait" \in Faults
  /\ Goto(p, wait, failed)
  /\ UNCHANGED <<shm, sem, item, record, lost>>

PostSem(p, s, post, next) ==
  /\ Goto(p, post, next)
  /\ Post(s)
  /\ UNCHANGED <<shm, item, record, lost>>

PostFails(p, s, post, failed) ==
  /\ "post" \in Faults
  /\ Goto(p, post, failed)
  /\ Lose({s})
  /\ UNCHANGED <<shm, sem, item, record>>

\* Mutant: the closed buffer is left without the post of free_sem.
BailFree_NoPost(p) ==
  /\ Goto(p, "bail_free", "bail_lock")
  /\ UNCHANGED <<shm, sem, item, record, lost>>

\* A closed buffer: post free_sem, post w_sem, exit(EXIT_SUCCESS).
BailFree(p) == PostSem(p, "free", "bail_free", "bail_lock")
BailLock(p) == PostSem(p, "lock", "bail_lock", ExitPoint(p))

\* The results of the two posts are ignored.
BailFails(p) ==
  \/ PostFails(p, "free", "bail_free", "bail_lock")
  \/ PostFails(p, "lock", "bail_lock", ExitPoint(p))

-----------------------------------------------------------------------------
(* The generator: find a solution, block_write it, stop after an empty one. *)

Solve(g) ==
  /\ Goto(g, "solve", "check_free")
  /\ \E s \in Solutions : item' = [item EXCEPT ![g] = s]
  /\ UNCHANGED <<shm, sem, record, lost>>

CheckFree(g) == CheckOpen(g, "check_free", "wait_free")
WaitFree(g)  == WaitSem(g, "free", "wait_free", "check_lock")
CheckLock(g) == CheckOpen(g, "check_lock", "wait_lock")

\* Mutant: an error of sem_wait(w_sem) is taken for success.
WaitLock_Unchecked(g) ==
  /\ Goto(g, "wait_lock", "store")
  /\ (Wait("lock") \/ UNCHANGED sem)
  /\ UNCHANGED <<shm, item, record, lost>>

WaitLock(g)  == WaitSem(g, "lock", "wait_lock", "store")

\* append: write the slot at w_pos ...
StoreSlot(g) ==
  /\ Goto(g, "store", "advance")
  /\ slots' = [slots EXCEPT ![wPos] = item[g]]
  /\ UNCHANGED <<open, wPos, rPos, fill, sem, item, record, lost>>

\* ... then advance w_pos.
AdvanceWPos(g) ==
  /\ Goto(g, "advance", "post_lock")
  /\ wPos' = NextPos(wPos)
  /\ fill' = fill + 1
  /\ UNCHANGED <<open, rPos, slots, sem, item, record, lost>>

\* Mutant: the writer returns without the post of w_sem.
PostLock_NoPost(g) ==
  /\ Goto(g, "post_lock", "post_used")
  /\ UNCHANGED <<shm, sem, item, record, lost>>

PostLock(g) == PostSem(g, "lock", "post_lock", "post_used")

\* Mutant: used_sem is posted twice (a retry after a post that took effect).
PostUsed_Twice(g) ==
  /\ Goto(g, "post_used", IF SizeOf[item[g]] = 0 THEN "exited" ELSE "solve")
  /\ sem' = [sem EXCEPT !["used"] = @ + 2]
  /\ UNCHANGED <<shm, item, record, lost>>

\* Mutant: the solution is not announced.
PostUsed_NoPost(g) ==
  /\ Goto(g, "post_used", IF SizeOf[item[g]] = 0 THEN "exited" ELSE "solve")
  /\ UNCHANGED <<shm, sem, item, record, lost>>

\* The last step of block_write; main leaves after an empty solution.
PostUsed(g) ==
  PostSem(g, "used", "post_used",
          IF SizeOf[item[g]] = 0 THEN "exited" ELSE "solve")

\* Mutant: the error path of sem_wait(w_sem) forgets the post of free_sem.
WriteFails_NoUndo(g) ==
  \/ WaitFails(g, "wait_free", "exited")
  \/ WaitFails(g, "wait_lock", "exited")
  \/ PostFails(g, "lock", "post_lock", "undo_used")
  \/ PostSem(g, "used", "undo_used", "exited")
  \/ PostFails(g, "used", "undo_used", "exited")
  \/ PostFails(g, "used", "post_used", "exited")

\* Mutant: a failed announcement gives the filled slot back.
WriteFails_UndoFilled(g) ==
  \/ WaitFails(g, "wait_free", "exited")
  \/ WaitFails(g, "wait_lock", "undo_free")
  \/ PostSem(g, "free", "undo_free", "exited")
  \/ PostFails(g, "free", "undo_free", "exited")
  \/ PostFails(g, "lock", "post_lock", "undo_used")
  \/ PostSem(g, "used", "undo_used", "exited")
  \/ PostFails(g, "used", "undo_used", "exited")
  \/ PostFails(g, "used", "post_used", "undo_free")

\* block_write's error paths: the caller exits with EXIT_FAILURE.  The results
\* of the undoing posts are ignored, so they may fail as well.
WriteFails(g) ==
  \/ WaitFails(g, "wait_free", "exited")
  \/ WaitFails(g, "wait_lock", "undo_free")
  \/ PostSem(g, "free", "undo_free", "exited")
  \/ PostFails(g, "free", "undo_free", "exited")
  \/ PostFails(g, "lock", "post_lock", "undo_used")
  \/ PostSem(g, "used", "undo_used", "exited")
  \/ PostFails(g, "used", "undo_used", "exited")
  \/ PostFails(g, "used", "post_used", "exited")

\* SIGINT is handled by exit(), SIGTERM and SIGKILL are not handled: in all
\* three cases the process ends where it is and posts nothing.
GeneratorKilled(g) ==
  /\ "kill" \in Faults
  /\ pc[g] \notin Ended
  /\ pc' = [pc EXCEPT ![g] = "dead"]
  /\ Lose(TokensAt(pc[g]))
  /\ UNCHANGED <<shm, sem, item, record>>

GeneratorStep(g) ==
  \/ Solve(g) \/ CheckFree(g) \/ WaitFree(g) \/ CheckLock(g) \/ WaitLock(g)
  \/ StoreSlot(g) \/ AdvanceWPos(g) \/ PostLock(g) \/ PostUsed(g)
  \/ BailFree(g) \/ BailLock(g)

GeneratorFault(g) ==
  \/ Interrupted(g, "wait_free", "check_free")
  \/ Interrupted(g, "wait_lock", "check_lock")
  \/ WriteFails(g)
  \/ BailFails(g)
  \/ GeneratorKilled(g)

-----------------------------------------------------------------------------
(* The supervisor: block_read, keep the best, stop after an empty solution. *)

CheckUsed == CheckOpen(Supervisor, "check_used", "wait_used")
WaitUsed  == WaitSem(Supervisor, "used", "wait_used", "take")

\* Mutant: r_pos is advanced before the slot is read.
Take_AdvanceFirst ==
  /\ Goto(Supervisor, "take", "post_free")
  /\ item' = [item EXCEPT ![Supervisor] = slots[NextPos(rPos)]]
  /\ rPos' = NextPos(rPos)
  /\ fill' = fill - 1
  /\ UNCHANGED <<open, wPos, slots, sem, record, lost>>

Take ==
  /\ Goto(Supervisor, "take", "post_free")
  /\ item' = [item EXCEPT ![Supervisor] = slots[rPos]]
  /\ rPos' = NextPos(rPos)
  /\ fill' = fill - 1
  /\ UNCHANGED <<open, wPos, slots, sem, record, lost>>

PostFree == PostSem(Supervisor, "free", "post_free", "handle")

\* Mutant: the supervisor goes on after an empty solution.
Handle_NoExit ==
  LET s == item[Supervisor] IN
  /\ Goto(Supervisor, "handle", "check_used")
  /\ record' = IF record = NoSolution \/ SizeOf[s] < SizeOf[record]
                 THEN s ELSE record
  /\ UNCHANGED <<shm, sem, item, lost>>

Handle ==
  LET s == item[Supervisor] IN
  /\ Goto(Supervisor, "handle", IF SizeOf[s] = 0 THEN "closing" ELSE "check_used")
  /\ record' = IF record = NoSolution \/ SizeOf[s] < SizeOf[record]
                 THEN s ELSE record
  /\ UNCHANGED <<shm, sem, item, lost>>

\* exit_handler: close_buffer (clean_buffer only drops names and mappings).
CloseBuffer ==
  /\ Goto(Supervisor, "closing", "exited")
  /\ open' = FALSE
  /\ lost' = [s \in SemNames |-> 0]
  /\ UNCHANGED <<wPos, rPos, slots, fill, sem, item, record>>

ReadFails ==
  \/ WaitFails(Supervisor, "wait_used", "closing")
  \/ PostFails(Supervisor, "free", "post_free", "closing")

\* SIGINT or SIGTERM at any point: sig_handler calls exit().
SupervisorSignal ==
  /\ pc[Supervisor] \notin Ended \cup {"closing"}
  /\ pc' = [pc EXCEPT ![Supervisor] = "closing"]
  /\ Lose(TokensAt(pc[Supervisor]))
  /\ UNCHANGED <<shm, sem, item, record>>

\* SIGKILL: the buffer stays open.
SupervisorKilled ==
  /\ "kill" \in Faults
  /\ pc[Supervisor] \notin Ended
  /\ pc' = [pc EXCEPT ![Supervisor] = "dead"]
  /\ Lose(TokensAt(pc[Supervisor]))
  /\ UNCHANGED <<shm, sem, item, record>>

SupervisorStep ==
  CheckUsed \/ WaitUsed \/ Take \/ PostFree \/ Handle \/ CloseBuffer

SupervisorFault ==
  \/ Interrupted(Supervisor, "wait_used", "check_used")
  \/ ReadFails \/ SupervisorKilled

-----------------------------------------------------------------------------
Next ==
  \/ \E g \in Generators : GeneratorStep(g) \/ GeneratorFault(g)
  \/ SupervisorStep \/ SupervisorSignal \/ SupervisorFault

Spec == Init /\ [][Next]_vars

(***************************************************************************)
(* Every running process keeps taking steps; faults and signals need not   *)
(* happen.  Weak fairness suffices: nothing is assumed about which of the  *)
(* processes blocked in sem_wait a post wakes.                             *)
(***************************************************************************)
Fairness ==
  /\ \A g \in Generators : WF_vars(GeneratorStep(g))
  /\ WF_vars(SupervisorStep)

FairSpec == Spec /\ Fairness

-----------------------------------------------------------------------------
(* Properties.                                                             *)

\* The generators at one of the control points in S.
At(S) == {g \in Generators : pc[g] \in S}

\* 1 if the supervisor is at one of the control points in S, else 0.
SupAt(S) == IF pc[Supervisor] \in S THEN 1 ELSE 0

\* Generators that took w_sem and have not posted it.
LockHolders == At(LockPoints)

\* Generators that took free_sem and have neither filled a slot nor given it back.
SlotHolders == At(SlotPoints)

\* Generators that filled a slot and have not announced it.
Announcers == At(AnnouncePoints)

\* The slot that lies d positions after r_pos.
SlotAfter(d) == (rPos + d) % BufSize

(***************************************************************************)
(* While the buffer is open at most one generator is inside append: w_sem  *)
(* serialises the writers, through interrupted and failed waits, failed    *)
(* posts and the death of any process.                                     *)
(***************************************************************************)
MutualExclusion == open => Cardinality(At({"store", "advance"})) <= 1

(***************************************************************************)
(* append never writes a slot that holds an unread solution, and take      *)
(* never reads the slot a writer is writing: free_sem and used_sem keep    *)
(* the two positions apart although neither is read by the other side.     *)
(***************************************************************************)
NoOverwrite ==
  open => /\ At({"store", "advance"}) # {} => fill < BufSize
          /\ pc[Supervisor] = "take" =>
               /\ fill > 0
               /\ At({"store", "advance"}) # {} => wPos # rPos

(***************************************************************************)
(* Where the tokens go.  While the buffer is open its slots are free, held *)
(* by a process, or filled; a filled one is announced or about to be; and  *)
(* w_sem is free or held.  A token is missing only if a process died or    *)
(* left while it held one, or a post of it failed (`lost`), once for each  *)
(* such event: no other path through block_write and block_read, in        *)
(* particular none of the undoing ones, loses or doubles a token.  Lost    *)
(* slots shrink the buffer, a lost lock stops all writers.                 *)
(***************************************************************************)
LockInv == sem["lock"] + Cardinality(LockHolders) + lost["lock"] = 1
FreeInv == sem["free"] + Cardinality(SlotHolders) + fill + SupAt({"post_free"}) + lost["free"]
             = BufSize
UsedInv == sem["used"] + Cardinality(Announcers) + SupAt({"take"}) + lost["used"] = fill

NoSlotLeak == open => LockInv /\ FreeInv /\ UsedInv

(***************************************************************************)
(* The buffer implements the bounded FIFO queue of SolutionQueue.          *)
(***************************************************************************)
Unread == [i \in 1 .. fill |-> slots[SlotAfter(i - 1)]]

Offering == {"check_free", "wait_free", "check_lock", "wait_lock", "store", "advance"}

Queue == INSTANCE SolutionQueue WITH
  Capacity <- BufSize,
  offered  <- [g \in Generators |-> IF pc[g] \in Offering THEN item[g] ELSE NoSolution],
  queue    <- IF open THEN Unread ELSE <<>>,
  got      <- item[Supervisor],
  closed   <- ~open

\* Every behaviour of the buffer, with any fault, is one of the FIFO queue:
\* no solution is lost, repeated, reordered or torn while the buffer is open.
ImplementsQueue == Queue!Spec

\* Without faults the supervisor takes every solution it has not read, unless
\* it closes the buffer first (the WF(Get) of the queue).
ReadsEverySolution ==
  \A s \in Slots : (open /\ fill > 0 /\ rPos = s) ~> (~open \/ rPos # s)

(***************************************************************************)
(* An empty solution in the buffer (the graph is 3-colourable) ends the    *)
(* supervisor, however the other generators race to fill the buffer.       *)
(***************************************************************************)
EmptyEndsSupervisor ==
  (open /\ \E i \in 1 .. fill : SizeOf[slots[SlotAfter(i - 1)]] = 0)
    ~> pc[Supervisor] = "exited"

(***************************************************************************)
(* After close_buffer one generator that will still see the closed buffer  *)
(* wakes all others: the two posts at the end of try_sem_wait pass from    *)
(* blocked generator to blocked generator until all have exited.  A        *)
(* generator past its last test of open passes nothing on if its solution  *)
(* is empty, because main exits after block_write.                         *)
(***************************************************************************)
PastTest == {"wait_lock", "store", "advance", "post_lock", "post_used"}

WillSeeClosed(g) ==
  /\ pc[g] \notin Ended
  /\ pc[g] = "wait_free" => sem["free"] > 0
  /\ pc[g] \in PastTest => SizeOf[item[g]] # 0

ShutdownPropagates ==
  (~open /\ \E g \in Generators : WillSeeClosed(g))
    ~> (\A g \in Generators : pc[g] \in Ended)

(***************************************************************************)
(* ring_buffer.h:71 promises that block_write blocks "until space is       *)
(* available": while writers wait and the buffer is empty, one of them     *)
(* eventually fills a slot.                                                *)
(***************************************************************************)
SpaceServesWriters ==
  (open /\ At({"wait_free", "wait_lock"}) # {})
    ~> (~open \/ fill > 0 \/ \A g \in Generators : pc[g] \in Ended)

(***************************************************************************)
(* supervisor.c:101 says of the signal handler that it is there "to kill   *)
(* all child processes": once the supervisor has exited, so do they.       *)
(***************************************************************************)
SupervisorEndsAll == (pc[Supervisor] = "exited") ~> (\A g \in Generators : pc[g] \in Ended)

-----------------------------------------------------------------------------
(* The inductive invariant: NoSlotLeak, with the positions and the slots.  *)

PosInv  == wPos = SlotAfter(fill)
SlotInv == /\ \A i \in 1 .. fill : Unread[i] \in Solutions
           /\ \A g \in At({"advance"}) : slots[wPos] = item[g]

\* Only the supervisor's exit closes the buffer, and only then generators bail.
OpenInv ==
  /\ open \/ pc[Supervisor] = "exited"
  /\ open => At({"bail_free", "bail_lock"}) = {}

IInv ==
  /\ TypeOK
  /\ OpenInv
  /\ open => LockInv /\ FreeInv /\ UsedInv /\ PosInv /\ SlotInv
=============================================================================
