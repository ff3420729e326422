---------------------------- MODULE BufferAttach ----------------------------
(***************************************************************************)
(* Exercise 3: how processes come to share the ring buffer and how they    *)
(* leave it.  The shared memory and the three semaphores are named         *)
(* objects: new_ring_buffer creates or joins each of them by name and      *)
(* resets the memory, clean_buffer removes the four names.  A removed name *)
(* can be created anew while processes still use the old object.           *)
(*                                                                         *)
(* Every call on a name and every store of new_ring_buffer is an action.   *)
(* block_write and block_read are two actions each, the test of open and   *)
(* the transfer; RingBuffer.tla takes them apart.  A process may attach at *)
(* any time; a program that is started again is one process more.          *)
(***************************************************************************)
EXTENDS Naturals

CONSTANTS
  Generators,   \* the generator processes
  Supervisor,   \* the supervisor process
  Sizes,        \* the sizes of the solutions the generators write
  BufSize,      \* BUF_SIZE
  MaxObjects,   \* bound: objects created under one name
  Mortal,       \* bound: the processes that may die
  Faults        \* the faults the environment injects, a subset of FaultKinds

FaultKinds == {"attach", "ftruncate"}

Procs == Generators \cup {Supervisor}

ASSUME AttachAssumption ==
  /\ Supervisor \notin Generators
  /\ Sizes \subseteq Nat
  /\ BufSize \in Nat \ {0}
  /\ MaxObjects \in Nat \ {0}
  /\ Mortal \subseteq Procs
  /\ Faults \subseteq FaultKinds

Slots == 0 .. BufSize - 1

SemNames == {"free", "used", "lock"}
Names    == SemNames \cup {"shm"}

\* Objects are numbered per name in the order of their creation; 0 is none.
Objects  == 1 .. MaxObjects
NoObject == 0

VARIABLES
  names,      \* names[n]: the object the name n stands for, or NoObject
  created,    \* created[n]: how many objects n has stood for
  mem,        \* mem[o]: the contents of shared memory object o
  val,        \* val[s][o]: the value of semaphore object o created as s
  pc,         \* where each process is
  handle,     \* handle[p][n]: the object process p uses for n
  concluded,  \* the supervisor has reported that the graph is 3-colourable
  emptySent,  \* history: a generator wrote an empty solution
  disturbed   \* history: a buffer in use was reset or lost a name, or a
              \* process died in a transfer or in its cleanup

objects == <<names, created, mem, val>>
history == <<emptySent, disturbed>>
vars == <<objects, pc, handle, concluded, history>>

\* In the order in which a process goes through them.
AttachPCs == {"shm_open", "set_open", "set_w", "set_r", "open_free", "open_used", "open_lock"}
UsePCs    == {"check", "wait", "close"}
CleanPCs  == {"unlink_shm", "unlink_free", "unlink_used", "unlink_lock"}
Gone      == {"exited", "failed"}

Memory == [open: BOOLEAN, w: Slots, r: Slots, slots: [Slots -> Sizes \cup {0}], inUse: BOOLEAN]

TypeOK ==
  /\ names \in [Names -> Objects \cup {NoObject}]
  /\ created \in [Names -> 0 .. MaxObjects]
  /\ mem \in [Objects -> Memory]
  /\ val \in [SemNames -> [Objects -> Nat]]
  /\ pc \in [Procs -> AttachPCs \cup UsePCs \cup CleanPCs \cup Gone]
  /\ handle \in [Procs -> [Names -> Objects \cup {NoObject}]]
  /\ concluded \in BOOLEAN /\ emptySent \in BOOLEAN /\ disturbed \in BOOLEAN

\* ftruncate fills new shared memory with zeros: every slot is a solution of
\* size 0.  "inUse" is history: a solution was written or the buffer closed.
ZeroMemory == [open |-> FALSE, w |-> 0, r |-> 0, slots |-> [i \in Slots |-> 0],
               inUse |-> FALSE]

\* Mutant: used_sem starts at 1, like w_sem.
InitialValue_Used1 == [s \in SemNames |-> IF s = "free" THEN BufSize ELSE 1]

InitialValue == [s \in SemNames |-> CASE s = "free" -> BufSize
                                      [] s = "used" -> 0
                                      [] s = "lock" -> 1]

Init ==
  /\ names = [n \in Names |-> NoObject]
  /\ created = [n \in Names |-> 0]
  /\ mem = [o \in Objects |-> ZeroMemory]
  /\ val = [s \in SemNames |-> [o \in Objects |-> InitialValue[s]]]
  /\ pc = [p \in Procs |-> "shm_open"]
  /\ handle = [p \in Procs |-> [n \in Names |-> NoObject]]
  /\ concluded = FALSE /\ emptySent = FALSE /\ disturbed = FALSE

-----------------------------------------------------------------------------
Goto(p, from, to) == pc[p] = from /\ pc' = [pc EXCEPT ![p] = to]

\* The objects process p uses.
Mem(p)    == mem[handle[p]["shm"]]
Sem(p, s) == val[s][handle[p][s]]

Attached(p) == handle[p]["shm"] # NoObject /\ pc[p] \notin Gone

(***************************************************************************)
(* new_ring_buffer.  shm_open and sem_open with O_CREAT join the object    *)
(* that has the name, or create one.                                       *)
(***************************************************************************)
OpenName(p, n, next) ==
  LET new == created[n] + 1 IN
  /\ IF names[n] # NoObject
       THEN /\ handle' = [handle EXCEPT ![p][n] = names[n]]
            /\ UNCHANGED <<names, created>>
       ELSE /\ new <= MaxObjects
            /\ handle' = [handle EXCEPT ![p][n] = new]
            /\ names' = [names EXCEPT ![n] = new]
            /\ created' = [created EXCEPT ![n] = new]
  /\ pc' = [pc EXCEPT ![p] = next]
  /\ disturbed' = (disturbed \/ \E q \in Procs \ {p} : pc[q] \in CleanPCs)
  /\ UNCHANGED <<mem, val, concluded, emptySent>>

\* shm_open and ftruncate; mmap and close keep the object.
ShmOpen(p) == pc[p] = "shm_open" /\ OpenName(p, "shm", "set_open")

\* The three stores that initialise the memory, whoever uses it already.
Store(p, from, to, newMem) ==
  /\ Goto(p, from, to)
  /\ mem' = [mem EXCEPT ![handle[p]["shm"]] = newMem]
  /\ disturbed' = (disturbed \/ Mem(p).inUse)
  /\ UNCHANGED <<names, created, val, handle, concluded, emptySent>>

SetOpen(p) == Store(p, "set_open", "set_w", [Mem(p) EXCEPT !.open = TRUE])
SetW(p)    == Store(p, "set_w", "set_r", [Mem(p) EXCEPT !.w = 0])
SetR(p)    == Store(p, "set_r", "open_free", [Mem(p) EXCEPT !.r = 0])

\* sem_open leaves the value of an existing semaphore as it is.
SemOpen(p) ==
  \/ pc[p] = "open_free" /\ OpenName(p, "free", "open_used")
  \/ pc[p] = "open_used" /\ OpenName(p, "used", "open_lock")
  \/ pc[p] = "open_lock" /\ OpenName(p, "lock", "check")

\* A failing ftruncate: the process gives up and leaves the name.
FtruncateFails(p) ==
  /\ "ftruncate" \in Faults
  /\ Goto(p, "set_open", "failed")
  /\ UNCHANGED <<objects, handle, concluded, history>>

\* Mutant: a failing sem_open gives up without clean_buffer.
AttachFails_NoClean(p) ==
  /\ "attach" \in Faults
  /\ pc[p] \in {"set_open", "open_free", "open_used", "open_lock"}
  /\ pc' = [pc EXCEPT ![p] = "exited"]
  /\ UNCHANGED <<objects, handle, concluded, history>>

\* A failing mmap, close or sem_open calls clean_buffer, which removes all
\* four names; sem_close refuses the semaphores that were not opened.
AttachFails(p) ==
  /\ "attach" \in Faults
  /\ pc[p] \in {"set_open", "open_free", "open_used", "open_lock"}
  /\ pc' = [pc EXCEPT ![p] = "unlink_shm"]
  /\ UNCHANGED <<objects, handle, concluded, history>>

-----------------------------------------------------------------------------
(***************************************************************************)
(* clean_buffer: the name goes, whether or not it still stands for the     *)
(* object this process used.                                               *)
(***************************************************************************)
Unlink(p, n, from, to) ==
  /\ Goto(p, from, to)
  /\ names' = [names EXCEPT ![n] = NoObject]
  /\ disturbed' = (disturbed \/ \E q \in Procs \ {p} : Attached(q))
  /\ UNCHANGED <<created, mem, val, handle, concluded, emptySent>>

Clean(p) ==
  \/ Unlink(p, "shm", "unlink_shm", "unlink_free")
  \/ Unlink(p, "free", "unlink_free", "unlink_used")
  \/ Unlink(p, "used", "unlink_used", "unlink_lock")
  \/ Unlink(p, "lock", "unlink_lock", "exited")

-----------------------------------------------------------------------------
(* block_write, block_read and close_buffer on the objects of the caller.  *)

\* Mutant: the position does not wrap.
NextPos_NoWrap(pos) == pos + 1

NextPos(pos) == (pos + 1) % BufSize

\* try_sem_wait's test of open.
CheckOpen(p) ==
  /\ Goto(p, "check", "wait")
  /\ Mem(p).open
  /\ UNCHANGED <<objects, handle, concluded, history>>

\* A closed buffer: post free_sem and w_sem, exit.
Bail(p) ==
  /\ Goto(p, "check", IF p = Supervisor THEN "close" ELSE "unlink_shm")
  /\ ~Mem(p).open
  /\ val' = [val EXCEPT !["free"][handle[p]["free"]] = @ + 1,
                        !["lock"][handle[p]["lock"]] = @ + 1]
  /\ UNCHANGED <<names, created, mem, handle, concluded, history>>

\* A generator writes a solution of size n; main exits after an empty one.
Write(g, n) ==
  /\ Goto(g, "wait", IF n = 0 THEN "unlink_shm" ELSE "check")
  /\ Sem(g, "free") > 0 /\ Sem(g, "lock") > 0
  /\ val' = [val EXCEPT !["free"][handle[g]["free"]] = @ - 1,
                        !["used"][handle[g]["used"]] = @ + 1]
  /\ mem' = [mem EXCEPT ![handle[g]["shm"]] =
               [Mem(g) EXCEPT !.slots[Mem(g).w] = n, !.w = NextPos(@), !.inUse = TRUE]]
  /\ emptySent' = (emptySent \/ n = 0)
  /\ UNCHANGED <<names, created, handle, concluded, disturbed>>

\* The supervisor reads one; main exits after an empty one.
Read ==
  LET n == Mem(Supervisor).slots[Mem(Supervisor).r] IN
  /\ Goto(Supervisor, "wait", IF n = 0 THEN "close" ELSE "check")
  /\ Sem(Supervisor, "used") > 0
  /\ val' = [val EXCEPT !["used"][handle[Supervisor]["used"]] = @ - 1,
                        !["free"][handle[Supervisor]["free"]] = @ + 1]
  /\ mem' = [mem EXCEPT ![handle[Supervisor]["shm"]].r = NextPos(@)]
  /\ concluded' = (concluded \/ n = 0)
  /\ UNCHANGED <<names, created, handle, history>>

\* SIGINT (and, for the supervisor, SIGTERM) once new_ring_buffer returned:
\* the handler calls exit, and the exit handler cleans up.
Signal(p) ==
  /\ pc[p] \in {"check", "wait"}
  /\ pc' = [pc EXCEPT ![p] = IF p = Supervisor THEN "close" ELSE "unlink_shm"]
  /\ UNCHANGED <<objects, handle, concluded, history>>

(***************************************************************************)
(* A process ends where it is and removes nothing: SIGKILL, or SIGTERM to  *)
(* a generator; a signal inside new_ring_buffer, while the global buffer   *)
(* is NULL (the generator's clean_buffer returns, the supervisor's         *)
(* close_buffer dereferences it); a second signal in the exit handler.     *)
(***************************************************************************)
Dies(p) ==
  /\ p \in Mortal
  /\ pc[p] \notin {"shm_open"} \cup Gone
  /\ pc' = [pc EXCEPT ![p] = "failed"]
  /\ disturbed' = (disturbed \/ pc[p] \in {"wait"} \cup (CleanPCs \ {"unlink_shm"}))
  /\ UNCHANGED <<objects, handle, concluded, emptySent>>

CloseBuffer ==
  /\ Goto(Supervisor, "close", "unlink_shm")
  /\ mem' = [mem EXCEPT ![handle[Supervisor]["shm"]].open = FALSE,
                        ![handle[Supervisor]["shm"]].inUse = TRUE]
  /\ UNCHANGED <<names, created, val, handle, concluded, history>>

-----------------------------------------------------------------------------
Next ==
  \/ \E p \in Procs :
       \/ ShmOpen(p) \/ SetOpen(p) \/ SetW(p) \/ SetR(p) \/ SemOpen(p) \/ FtruncateFails(p)
       \/ AttachFails(p) \/ CheckOpen(p) \/ Bail(p) \/ Signal(p) \/ Dies(p)
       \/ Clean(p)
  \/ \E g \in Generators, n \in Sizes : Write(g, n)
  \/ Read
  \/ CloseBuffer

Spec == Init /\ [][Next]_vars

-----------------------------------------------------------------------------
(* Properties.                                                             *)

(***************************************************************************)
(* The names.  What a name stands for was opened by somebody, and nobody   *)
(* who opened it has finished: each of them is still to remove the name,   *)
(* or died, or gave up after a failed ftruncate.  So however attaches,     *)
(* failed attaches and cleanups of several processes interleave, and       *)
(* although a cleanup removes names other processes created, clean_buffer  *)
(* leaves nothing for the next session to fall over; a process that ends   *)
(* without it does, and a later cleanup may still remove its names.        *)
(***************************************************************************)
\* The points from which a process that has opened a name will remove it.
Bound ==
  [n \in Names |-> UsePCs \cup
     CASE n = "shm"  -> (AttachPCs \ {"shm_open"}) \cup {"unlink_shm"}
       [] n = "free" -> {"open_used", "open_lock", "unlink_shm", "unlink_free"}
       [] n = "used" -> {"open_lock"} \cup (CleanPCs \ {"unlink_lock"})
       [] n = "lock" -> CleanPCs]

NamesOwned ==
  \A n \in Names : names[n] # NoObject =>
    /\ \E p \in Procs : handle[p][n] = names[n]
    /\ \A p \in Procs : handle[p][n] = names[n] => pc[p] = "failed" \/ pc[p] \in Bound[n]

(***************************************************************************)
(* As long as nobody resets a buffer in use, nobody leaves while others    *)
(* are attached and nobody dies in a transfer or a cleanup (elsewhere a    *)
(* process may die), everybody who uses an open buffer sees one whose      *)
(* positions agree with its semaphores, although the semaphores are never  *)
(* reset, and the supervisor reports a 3-colourable graph only after an    *)
(* empty solution was written.                                             *)
(***************************************************************************)
Consistent(p) ==
  /\ Sem(p, "free") + Sem(p, "used") = BufSize
  /\ Sem(p, "lock") = 1
  /\ Mem(p).w = (Mem(p).r + Sem(p, "used")) % BufSize

UndisturbedSound ==
  ~disturbed =>
    /\ \A p \in Procs : pc[p] \in UsePCs /\ Mem(p).open => Consistent(p)
    /\ concluded => emptySent

(***************************************************************************)
(* ring_buffer.h:80 says block_read blocks "until a value was read": the   *)
(* supervisor's report that the graph is 3-colourable comes from a         *)
(* solution some generator wrote.                                          *)
(***************************************************************************)
ConclusionJustified == concluded => emptySent

-----------------------------------------------------------------------------
(* The inductive invariant behind UndisturbedSound.                        *)

\* What a process that opens the name now gets: an absent object is created.
NowMem    == IF names["shm"] = NoObject THEN ZeroMemory ELSE mem[names["shm"]]
NowVal(s) == IF names[s] = NoObject THEN InitialValue[s] ELSE val[s][names[s]]

\* Not attached: before shm_open, or gone.
Outside(p) == pc[p] \in {"shm_open"} \cup Gone

\* In clean_buffer, after the first name is removed.
Late(p) == pc[p] \in CleanPCs \ {"unlink_shm"}

\* The names a process has opened when it is at the control point x.
Opened(x) ==
  (IF x \in {"shm_open"} \cup Gone THEN {} ELSE {"shm"}) \cup
  (IF x \in {"open_used", "open_lock"} \cup UsePCs THEN {"free"} ELSE {}) \cup
  (IF x \in {"open_lock"} \cup UsePCs THEN {"used"} ELSE {}) \cup
  (IF x \in UsePCs THEN {"lock"} ELSE {})

\* A process has handles of these, and of created objects only.
HandleInv ==
  \A p \in Procs :
    /\ pc[p] = "shm_open" => \A n \in Names : handle[p][n] = NoObject
    /\ \A n \in Opened(pc[p]) : handle[p][n] # NoObject
    /\ \A n \in Names : handle[p][n] <= created[n]

\* An object that was not created yet has its initial contents.
FreshInv ==
  /\ \A n \in Names : names[n] <= created[n]
  /\ \A o \in Objects : o > created["shm"] => mem[o] = ZeroMemory
  /\ \A s \in SemNames, o \in Objects : o > created[s] => val[s][o] = InitialValue[s]

\* While a process removes the names, nobody else is attached.
LeaveInv ==
  \A p \in Procs : Late(p) =>
    /\ \A q \in Procs \ {p} : Outside(q)
    /\ names["shm"] = NoObject
    /\ pc[p] # "unlink_free" => names["free"] = NoObject
    /\ pc[p] = "unlink_lock" => names["used"] = NoObject

\* Who is attached uses the objects the names stand for.
SharedInv ==
  /\ \A p \in Procs : ~Outside(p) => \A n \in Names : handle[p][n] \in {NoObject, names[n]}
  /\ names["shm"] = NoObject => \A s \in SemNames : names[s] = NoObject

\* An unused buffer is as it was created; an open one is consistent, and
\* what it holds was written; who attached since has opened it.
NowConsistent ==
  /\ NowVal("free") + NowVal("used") = BufSize
  /\ NowVal("lock") = 1
  /\ NowMem.w = (NowMem.r + NowVal("used")) % BufSize
  /\ \A d \in 0 .. NowVal("used") - 1 :
       NowMem.slots[(NowMem.r + d) % BufSize] = 0 => emptySent

OpenedPCs == {"set_w", "set_r", "open_free", "open_used", "open_lock"} \cup UsePCs

SoundInv ==
  /\ ~NowMem.inUse => /\ NowMem.w = 0 /\ NowMem.r = 0
                      /\ \A s \in SemNames : NowVal(s) = InitialValue[s]
  /\ NowMem.open => NowConsistent
  /\ \A p \in Procs : pc[p] \in OpenedPCs =>
       NowMem.open \/ (p # Supervisor /\ NowMem.inUse)

IInv ==
  /\ TypeOK /\ HandleInv /\ FreshInv
  /\ ~disturbed => /\ LeaveInv
                   /\ (\A p \in Procs : ~Late(p)) => SharedInv /\ SoundInv
                   /\ concluded => emptySent
=============================================================================
