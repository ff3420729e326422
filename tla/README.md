# Verification of OSUE-Exercises

TLA+ models, model-checking runs and machine-checked proofs for the programs of
this repository: the OSUE (operating systems) exercises 1A, 1B, 2, 3 and the
bonus exercise, a Linux kernel module. All paths below are relative to the
repository.

## 1. Inventory

| Part | Code | State it keeps | Operations | What is hard about it |
|---|---|---|---|---|
| Ring buffer, exercise 3 | `3/src/ring_buffer.c` | `open`, `w_pos`, `r_pos`, 32 slots in POSIX shared memory; semaphores `free_sem`, `used_sem`, `w_sem` | `block_write`, `block_read`, `close_buffer` | several writers and one reader in different processes; EINTR, failing calls, killed processes; shutdown of processes that block |
| Attach and cleanup, exercise 3 | `3/src/ring_buffer.c` (`new_ring_buffer`, `clean_buffer`) | the names `/…_shm`, `/…_free_sem`, `/…_used_sem`, `/…_rw_sem` and the objects behind them | create or join, initialise, unlink | joining and creating are the same call; names are removed while others use the objects |
| Generator and graph, exercise 3 | `3/src/generator.c`, `3/src/graph.c` | a graph (edges, colours), the deleted edges | `parse_edge`, `new_graph`, `graph_colored`, `find_edge`, `delete_edge` | 8-bit vertex numbers and loop variables, `realloc`, the solution limit |
| Supervisor, exercise 3 | `3/src/supervisor.c` | `record`, the best solution | read, keep the best, stop at an empty one | its exit must end the generators |
| Secure vault driver, bonus | `bonus/driver_src/vault.c`, `ctl.c` | per vault: data, size, parameters, semaphore, device, creator; per open file: position, flags | `sv_open/read/write/llseek/release`; ioctls create, delete, erase, change key, size | file operations and ioctls of several processes at once; checks before a lock; many early returns with the lock held |
| Loading and unloading the driver, bonus | `bonus/driver_src/main.c`, `ctl.c`, `vault.c` (`vault_setup`, `vault_cleanup`) | device numbers, the control device and its `flag_init`, the vaults' devices and their reference counts | `sv_init`, `sv_exit`; `ctl_setup`, `ctl_cleanup`; `cdev_add`, `cdev_del`, open and close | the control device can be used before `sv_init` is done; a failing step must undo the earlier ones; vaults are deleted and created under open files |
| svctl, bonus | `bonus/svctl_src/main.c` | none | one ioctl per run | argument parsing only |
| Battleship, exercise 1B | `1B/src/server.c`, `client.c`, `msg.c`, `map.c`, `ship.c` | map, ships, round counter, one connection | shots and answers for at most 80 rounds | bit-level messages, lock-step protocol, early ends on either side |
| Battleship solver, exercise 1B | `1B/src/solver.c`, `deque.c` | its view of the map, queues of targets and hits | choose the next shot, record the report | unsigned arithmetic at the edges of the map; what one hunt leaves to the next |
| dsort, exercise 2 | `2/dsort.c` | pipes, child processes | run two commands, sort, `uniq -d` | pipe capacity, order of wait and read, who holds which end |
| palindrom, exercise 1A | `1A/palindrom.c` | none | a line filter | empty lines |

How the parts interact. In exercise 3 any number of generator processes and one
supervisor share memory; generators never talk to each other except through the
three semaphores, and the supervisor talks back to them only through `open`. A
generator computes a solution on its own (`Generator.tla`), hands it to
`block_write` (`RingBuffer.tla`), and both programs attach to and detach from the
shared objects (`BufferAttach.tla`). The driver is independent of the rest:
processes call it through open files and through the control device (`Vault.tla`), which
the module's load and unload put up and take down (`Driver.tla`). The client of Battleship
asks its solver for every shot (`Solver.tla`) and plays it against the server
(`Battleship.tla`); both share the map and its rules (`BattleshipMap.tla`). The other
programs are stand-alone.

The properties that make each part correct:

* ring buffer: a bounded FIFO queue; writers exclude each other; no unread slot is
  overwritten; no slot is lost on an error path; whatever is written is read;
  shutdown reaches everybody;
* attach and cleanup: names do not outlive the last process that ends by `exit`; who uses an open
  buffer sees positions that agree with the semaphores; the supervisor's verdict
  comes from a generator;
* generator: what is submitted is a solution; edges are neither lost nor doubled;
  every colouring of a graph that fits the 8-bit loop variables ends;
* vault: size within the allocation; only bytes written since the creation can be
  read, and they are encrypted under the key they are decrypted with; appends do not overwrite;
* loading and unloading the driver: no open file without the code behind it; references
  are counted; a failed load leaves nothing behind;
* dsort: success means the right output; it ends, and so do its children;
* Battleship: legal maps and no others are accepted; the counters agree with the map; no
  shot is carried out that was not chosen; both sides end, with one verdict, unless the solver
  ends or blocks the client;
* solver: no cell is shot at twice; a hunt stays with its ship; the fleet is judged right
  where `get_ship_at` can.

`PROJECT.json` lists every hazard with its line and the properties that cover it.

## 2. Modules

| Module | Models | Used by |
|---|---|---|
| `SolutionQueue.tla` | what `ring_buffer.h` promises: a bounded, closable FIFO queue | refined by `RingBuffer` |
| `RingBuffer.tla` | `block_write`, `block_read`, `try_sem_wait`, `try_sem_post`, `close_buffer`, the main loops of both programs, signals and kills | `MCRingBuffer`, `RingBufferProofs` |
| `RingBufferProofs.tla` | theorems about `RingBuffer`; `RingBuffer` implements `SolutionQueue` | |
| `BufferAttach.tla` | `new_ring_buffer`, `clean_buffer`, and the transfer operations as far as they depend on which objects a process holds | `MCBufferAttach`, `BufferAttachProofs` |
| `BufferAttachProofs.tla` | theorems about `BufferAttach`: types, names, undisturbed sessions | |
| `Generator.tla` | the colouring loop of a generator with `graph.c` | `MCGenerator`, `GeneratorProofs` |
| `GeneratorProofs.tla` | theorems about `Generator` | |
| `Vault.tla` | the driver's file operations and ioctls | `MCVault`, `VaultProofs` |
| `VaultProofs.tla` | theorems about `Vault` | |
| `Driver.tla` | loading, using and unloading the module: device numbers, devices, references, what stays in the kernel | `MCDriver`, `DriverProofs` |
| `DriverProofs.tla` | theorems about `Driver` | |
| `Dsort.tla` | dsort: the parent, the two commands and `uniq -d`, their descriptors and pipes | `MCDsort`, `DsortProofs` |
| `DsortProofs.tla` | theorems about `Dsort` | |
| `BattleshipMap.tla` | the map of exercise 1B, ships on it, the rules of a layout | `Battleship`, `Solver` |
| `Battleship.tla` | the game of exercise 1B: arguments, messages, both processes and their connection | `MCBattleship`, `BattleshipProofs` |
| `BattleshipProofs.tla` | theorems about `Battleship` and the rules of a layout | |
| `Solver.tla` | the solver of the client: `next_move`, its map, its queues | `MCSolver`, `SolverProofs` |
| `SolverProofs.tla` | theorems about `Solver` | |
| `MC*.tla` | the instances TLC checks | |

Operators named `<definition>_<something>` and marked "Mutant" are plausible bugs of
that definition. They are used by no specification; putting one in place of its
definition must break the property it is listed for, which shows that the property
can fail.

### RingBuffer

A process is a program counter. An action is one access to shared memory or one
semaphore call, so that `append` is two steps (store the slot, advance `w_pos`),
and the test of `open` in `try_sem_wait` and the `sem_wait` behind it are two
steps between which the buffer may be closed. `sem_wait` may return with EINTR
(back to the test) or with another error, `sem_post` may fail with an error other
than EINTR; the error paths of `block_write` (give the free slot back; announce
the slot although `w_sem` could not be posted) are actions of their own, and their posts, whose
results lines 217 and 224 ignore, may fail as well. The two
posts before `exit` in `try_sem_wait` are `BailFree` and `BailLock`; they may fail, too (`BailFails`). A generator
may be killed anywhere: by SIGKILL, by the unhandled SIGTERM that
`3/scripts/run.sh` sends after five seconds, or by SIGINT, whose handler calls
`exit` and posts nothing. The supervisor's signal handlers lead to `close_buffer`.
A solution is a value with a size, because the buffer tells nothing else apart.
`fill` is a history variable: solutions appended and not yet taken. So is `lost`: per semaphore, how
many tokens are gone for good because a post failed or a process ended while it held one.

`take` is one step although it reads the slot and then advances `r_pos`: there is
one reader, no writer reads `r_pos`, and `NoOverwrite` shows that no writer touches
the slot meanwhile.

### BufferAttach

Objects behind a name are numbered; a name stands for an object or for none.
`shm_open` and `sem_open` create or join, `clean_buffer` removes the four names in
the code's order, whoever created them. The three stores after `mmap` are separate
actions, so that an attach interleaves with other processes' use. `ftruncate`
may fail (the name is left), and `mmap`, `close` and the `sem_open`s may fail
(`clean_buffer` is called on the half-filled structure). `block_write` and
`block_read` are coarse here: test of `open`, then the transfer; `RingBuffer`
justifies the atomicity. A process ends in two ways. `Signal` is a SIGINT (or, for the supervisor,
SIGTERM) after `new_ring_buffer` has returned: the handlers lead to `exit` and `clean_buffer`. `Dies` is
any end without a cleanup, at every point: SIGKILL, the SIGTERM of `timeout` in `3/scripts/run.sh`, and a
signal inside `new_ring_buffer`, when the handlers are installed (`generator.c:42`, `supervisor.c:31`)
and `buffer` is still NULL, so that `clean_buffer` has nothing to remove. The names then stay, and the next session
joins what they stand for. Two history variables record what the properties need:
`emptySent` and `disturbed` (a buffer in use was reset or lost a name, or a process died in a
transfer or halfway through its cleanup).

### Generator

The random painting is a nondeterministic colour per vertex. Vertex numbers and
the loop variables of type `vid_t` are taken modulo `VidMod` (256 in the source).
`realloc(p, 0)` frees `p` and returns NULL, as glibc does: `DeleteLast` models the
return of -1 with the edge gone, and `DoubleFree` the `free` of the dangling
pointer afterwards, at which glibc aborts. The painting loop does not end for a graph with the highest
vertex number, and the search of `delete_edge` does not reach an edge behind the last value of a `vid_t`
(`Reachable`); both cases are in the instance. The edge beyond MAX_SOLUTION_SIZE that `generator.c:71`
stores behind the array has no effect in the model. Allocation failures are left out.

### Vault

A system call is two steps: what happens before `down_interruptible` (in the file
operations: the permission check), and the critical section, in which the state
may be quite different. Each critical section is one step because nothing reads
what it changes piecemeal without holding the semaphore. A byte is represented by
the key it is encrypted under, or by how else it came about (never written,
erased, stored by a write whose copy failed). Keys are model values; the XOR with
the key's bytes and their rotation by position are symmetric and cancel out, and
no property depends on them. An access to the data of a deleted vault ends the
process in the kernel with the semaphore taken (`memset`), or fails (`copy_from_user`).
File positions saturate at `MaxPos`, which stands for every position beyond all
vaults: the code treats them alike. `vault_size` changes nothing and is left out;
loading and unloading the module is the subject of `Driver`. Vaults share no state, so one is enough.
`vault_change_key` replaces the key and leaves the data: the bytes stay encrypted under the
old key and are decrypted with the new one, although `secvault.h:82` says that it re-encrypts them.
`hist` records where that happened, and where the copy of a write failed; `ReadsBack` is about
all other positions. How a call gives the semaphore back is one definition for all returns
(`Leave`), so the runs say nothing of an early return that forgets it.

### Driver

`sv_init` is one action per step that other processes can see the effect of: the vaults'
numbers, the control device's numbers, `cdev_add`, after which anybody may open the control
device and create vaults, and `flag_init`. Each may fail (another driver has the numbers,
memory runs out, `cdev_add` fails) and then calls the cleanups of the code. `sv_exit` is one step:
an open file holds the module, so that nobody sees it half done. `map` is the kernel's map of devices. An
entry says whether its `struct cdev` lies in the memory of the loaded module or of one that is
gone. `Cleanup` removes what `vault_cleanup` and `ctl_cleanup` remove, and that is not all:
every ioctl clears `flag_init`, so that the control device is not removed once it was used, and
`vault_delete` refuses the vaults of other users than the one who calls `rmmod`; their data is never freed
(`leaked`). The entries that stay are stale, and opening such a device (`OpenStale`) makes the kernel use memory
that is gone. A
`vault_setup` that fails calls `vault_cleanup`, which waits for semaphores that were never
initialised: `insmod` is ended in the kernel and the module stays half loaded ("stuck"). A failing
`ctl_setup` unregisters the control device's numbers even if they belong to another driver
(`Unregister` does not ask). A vault that is created while files of a deleted one with its number
are open gets a fresh reference count, which closing those files takes away (`reused`).

### Dsort

The parent goes through the system calls of `main` one by one; a child is forked
with the descriptors its parent has open at that moment, redirects itself, becomes
a command or `uniq -d`, and ends. `ends` is the set of open pipe ends: end of
input, a write that blocks and SIGPIPE follow from it, so that a descriptor that
somebody forgets to close shows. `wait_children` may find a child that failed, at which the
parent ends and leaves the others. `sigint_handler` kills the two commands; before
it is registered a signal ends the parent alone. The commands print any of a set of
outputs, line by line, in any interleaving; `qsort` leaves the order of lines that
compare equal open. `uniq -d` prints the second of adjacent equal lines and no other of them. Pipe capacity is counted in lines. The second `fclose(stdout)`,
in `exit_handler` after a normal end, does nothing in glibc and is left out.

### Battleship

Server and client take turns, and nobody else sees their state, so an action is
what a process does between two calls of `recv`. A message to the server is the set
of its bits, because two errors of `msg.c` are about single bits: `get_parity_bit` is 0
for every message, and the mask of `calc_parity_bit` is bit 11 and not the parity
bit. They cancel (the parity over all bits but 11 is compared with 0), and a
flip of bit 11 puts the column at 32 or more, which `check_coordinate` refuses:
that is `FlipNoticed`. `toServer` and `toClient` are what is under way
in the two directions. At the end of the input `recv` returns 0, `recv_msg` reports
success, and the message is what the buffer on the stack held: `Garbage` on the
server's side, any response on the client's. Data that is still in the queue is read before the end,
as on Linux even after a reset. Sending to a process that ended with data unread raises SIGPIPE, which ends
the sender (`BrokenPipe`). The ships are pairs of cells as on the command line; `ShipAt`
is the field after all `add_ship`s, in which a later ship covers an earlier one.
A part of a message stands for the number whose bits it is (`Value`, the inverse of `BitsOf`). No ship is longer
than four cells, the longest the code knows (`MaxLen <= 4`): `check_ship_touch` is wrong beyond.
The solver is any choice of a target here, also one that was chosen before; and it may end the client
by a division by zero (`sigfpe`) or never return (`hangs`), which `Solver` shows it can
(`solver.c:282`, `284`). In the first case the connection ends, and the server goes on with what its buffer
holds, in the second it waits for ever. After an answer nobody read the server's `recv` may also fail with a reset. `chosen` and
`faulty` are history variables. A signal ends a process (the server's handler calls
`exit_cleanup` and then `exit`, which calls it again and frees twice; it ends in any case).

### Solver

An action is a round of the client: `next_move`, that is the recording of the last report and
the choice of a shot, and the report of the server, reduced to `shoot`. `mem` holds the static
variables of `solver.c`; the functions called by `next_move` are operators from `mem` to `mem`,
named as in the code. A deque is a sequence with its front first. `get_hit` computes its index from any
coordinate: a column beyond the map is one of the next row, and a row beyond it is memory
behind the array, which may hold a 1 or not (`behind`). `random` and the heuristics
that reject a random cell only limit which unknown cell is taken (after ten draws any), so a random shot is any
unknown cell. `status` also records how the program can fail: `sigfpe` is the division by
`get_min_size`, which returns 0 when only ships of the greatest length are left
(`solver.c:372`), `hangs` the search for an unknown cell when there is none. The model keeps what
`get_ship_at` gets wrong: a horizontal ship is looked for in the row above, a ship
in the last row behind the map, and the end it returns lies one cell behind the ship, so that
`mark_surroundings` leaves out the cell below the ship and takes the second one for water.

## 3. Runs

| Run | Instance | Result |
|---|---|---|
| `ring_faults` | 3 generators, 2 slots, solutions of size 0 and 1, all faults; generators symmetric | `IInv`, `MutualExclusion`, `NoOverwrite`, `NoSlotLeak` and the refinement `ImplementsQueue` hold |
| `ring_fair` | the same without faults other than signals to the supervisor, weak fairness | the four liveness properties hold |
| `ring_shutdown` | 2 generators, 2 slots | `SupervisorEndsAll` is violated: see findings |
| `attach` | 2 generators and the supervisor, 2 slots, at most 2 objects per name, failing attaches, a supervisor that may die anywhere | the inductive invariant `IInv`, `NamesOwned` and `UndisturbedSound` hold |
| `attach_late` | the same without faults and without empty solutions | `ConclusionJustified` is violated: see findings |
| `generator` | ten graphs, at most two deletions, 7 vertex numbers | the inductive invariant `IInv`, `Partition` of the edges, `SubmittedSound` and `ColoringEnds` hold |
| `vault` | three processes of two users, one vault of two bytes, two keys, all faults | the inductive invariant `IInv`, `SizeBounded`, `ReadsBack`, `AppendOnly` hold |
| `driver` | two vaults, three processes of two users, all faults | `CodeBehindFiles`, `RefsCounted`, `FailedLoadUndone` hold |
| `dsort` | three lines, two of which differ in case only; outputs of up to three lines; pipes of four; all faults | `OutputCorrect`, `EndsIfFits`, `ChildrenEnd` hold |
| `dsort_pipe` | the same without faults | `EndsLikeScript` is violated: see findings |
| `battleship` | a map of 4 times 4, all pairs of lines as ships, seven rounds, all faults | `LayoutChecked`, `CountersAgree`, `FlipNoticed`, `VerdictsAgree`, `GameEnds` hold |
| `solver` | a map of 4 times 4, a ship of two and one of three cells in four layouts, 14 rounds | `TallFleetJudged`, `ShotsFresh`, `HuntsAround` hold |

Why the bounds are enough. Two slots make both a full and an empty buffer and the
wrap-around of the positions reachable in a few steps; three generators are needed
for one inside `append`, one waiting for `w_sem` and one waiting for `free_sem`.
Sizes 0 and 1 are the two cases the programs tell apart. The proofs remove these
bounds for the safety properties. Two objects per name allow a buffer that is
removed and created anew while somebody still uses the old one; a third would
repeat that. That only the supervisor dies in `attach` keeps the run short; it goes through the same control points as
a generator (its transfer is a read), and the theorems let everybody die. The graphs of `generator` are the
complete graph on four vertices
(one deletion is necessary), the same with a parallel edge (more deletions than
allowed), multigraphs with edges in both directions, the graph of
`3/scripts/run.sh`, which has more edges than a vertex number has values here, graphs whose vertex numbers are truncated,
so that vertices become one and an edge a self-loop, and one with the highest vertex number. A vault of two bytes and writes of one byte give the positions
before, at and beyond the end, and a full vault. The outputs of `dsort` together are shorter
than, as long as and longer than the pipe, with duplicates within one command, between both, and
with a line in the other case in between.
`battleship` demands one ship of two cells and one of four, the longest there are: two ends
and their surroundings cover a ship of four cells, the reason why `check_ship_touch` is
right. Seven rounds allow to win with six shots, to win with one miss, and to lose.
In one of the legal layouts every cell of the ships and one of water may be shot
at, in the others one cell only. All 16 bits may flip. A buffer that was not filled holds
one of four messages: a wrong parity, a coordinate outside the map, a hit, a miss.

Two users and two vaults show a vault of the one who unloads and one of another side by side; three processes
allow two open files of a vault while the third uses the control device.
The four layouts of `solver` are two fleets of vertical ships, for which its judgement is right, one with a ship across, which
it misjudges, and one with a ship in the last row, below which it reads behind its array. In fourteen
rounds random search, hunts and the sinking of both ships occur, and all four ends: won, lost, the division by
0 and (not before the fourteenth shot) the endless search.
On a larger map with longer ships more can happen, in particular a hunt that takes the hits of two ships for one;
the theorems about `Solver` hold there, too.

`CHECK_DEADLOCK FALSE` is given where processes really end or really block: the
programs of exercise 3 exit, a generator may be left blocked, and processes of the
driver may be ended in the kernel (`insmod` too), and dsort, the two sides of a game and the solver's game end.

### Fairness

`RingBuffer!Fairness` is weak fairness of every process: a process that can take
its next step continuously takes it. Nothing is assumed about which process a
`sem_post` wakes, because POSIX promises nothing for the default scheduling
policy; so a single waiting generator may starve and no property says otherwise.
Signals and faults are not fair: they need not happen. `Generator!FairSpec` is weak
fairness of the one process. `Dsort!Fairness` is weak fairness of the
parent and of each child: the system runs all of them, and a command that can go on does
(that a command runs for ever by itself is excluded, as dsort promises nothing then); faults and
signals are not fair. `Battleship!Spec` is weak fairness of each of the two processes: both are
run by the system, and TCP delivers what was sent. A client that never returns from `next_move` takes
no further step (`hangs`); neither side has a timeout, so `GameEnds` excepts it. `BufferAttach`, `Vault`, `Driver` and
`Solver` state safety only.

### Findings

* `ring_shutdown`: when the supervisor is interrupted while all generators are
  blocked on a full buffer, `close_buffer` clears `open` and posts nothing: they
  stay blocked. `ShutdownPropagates` states what does hold: as soon as one
  generator is going to test `open` again, its two posts wake the next one, and
  so on until all have exited. (The condition excludes a generator that is past
  its last test with an empty solution: `main` exits after it.)
* `attach_late`: `new_ring_buffer` resets the positions of a buffer in use; the
  supervisor then reads a slot nobody wrote, which is an empty solution, and
  reports a 3-colourable graph.
* `dsort_pipe`: dsort waits for the commands before it reads what they print, so
  that more than a pipe-full blocks all three for ever. `EndsIfFits` states what does hold.

`SpaceServesWriters` is checked without kills only: a generator killed between wait and
post of `w_sem` (`3/scripts/run.sh` ends generators with a SIGTERM they do not handle)
blocks all others.

`OutputCorrect` also shows where dsort and `dsort.sh` part without a run of its own: if
lines differ in case only, equal lines may not be neighbours after `str_cmp`, and `uniq -d`
misses them; the property demands all duplicates only otherwise.

Other properties, too, name in their conditions what the code does not do. `Partition`: deleting
the only edge shrinks the block to nothing, is reported as a failure, forgets the edge and leads to a
double free (`graph.c:123`). `ColoringEnds`: the highest vertex number (255 in the source) makes the painting loop of
`new_graph` endless, as its variable is a `vid_t` (`graph.c:51`), and more edges than a `vid_t` has values may make
the search of `delete_edge` endless. `NoSlotLeak` counts as lost what goes with a
process or a failed post: `block_write` ignores the results of its undo posts (`ring_buffer.c:217`, `224`), so that
a slot can be gone although the buffer is open and all processes go on. `NamesOwned` excepts a failed `ftruncate` and
names the processes that leave them behind only as those that died. `UndisturbedSound` excepts sessions that were
disturbed, of which `ConclusionJustified` is violated. `RefsCounted`: a vault that is created while files of a deleted
one are open loses its references. `TallFleetJudged`: ships across and ships in the last row are misjudged,
and only the longest ships being left ends the client with a division by 0; `VerdictsAgree` and
`GameEnds` except the clients that die or hang that way.

The comments of `secvault.h` disagree with the driver in two more places that have no violated property of their own,
since the step that contradicts the comment can be read off the code and is modelled as it is:

* `secvault.h:82` promises that changing the key re-encrypts the data; `vault_change_key` replaces the key and nothing else.
  All bytes written before read back as something else. `ReadsBack` excepts exactly the positions `ChangeKey` enters into `hist`.
* `secvault.h:38` and `:49` promise to clean up any resources used, on exit. `sv_exit` leaves a control device
  that was used (`ctl.c:99`) and vaults of other users (`vault.c:304`) registered and allocated after the code is
  gone: the stale entries of `map`, and `leaked`. No property takes this for right; `CodeBehindFiles` is about the files that are
  open, and opening a stale device (`OpenStale`) ends the process in the kernel instead of giving it a file.

## 4. Proofs

`tlapm` checks the proof modules with its SMT, Zenon and PTL backends. Everything
is proved for every value of the constants that satisfies the `ASSUME` of the
module.

`RingBufferProofs`. The inductive invariant is `IInv`, for any finite set of
generators, any number of slots and any set of faults. While the buffer is open

* `LockInv`: the value of `w_sem`, the generators between its wait and its post, and the
  tokens of it that are lost add up to 1;
* `FreeInv`: free tokens, slots held by writers, filled slots, the slot being
  returned by the reader and lost tokens add up to `BUF_SIZE`;
* `UsedInv`: announced tokens, writers that have filled and not announced, the
  reader between its wait and `take` and lost tokens add up to the filled slots;
* `PosInv`: `w_pos` lies `fill` slots after `r_pos`;
* `SlotInv`: the filled slots hold solutions.

The first three are `NoSlotLeak` (`SlotsConserved`). `lost` grows only where a process ends with a token in its hands or where a post
fails; so the equations say that every other path, the undo paths of `block_write` included, gives back what it
took and no more. `OpenInv` says that only the supervisor's
exit closes the buffer. `MutualExclusion` follows from `LockInv`; `NoOverwrite`
follows from `FreeInv`, `UsedInv` and `PosInv`, none of which is inductive without
the others. The proof counts processes: `SelMove` says how the number of generators
at a set of control points changes when one moves, and every action is an instance
of `GeneratorControl` or `SupervisorControl` except the three that touch the slots and the positions: a process changes
its control point, and for each semaphore the sum of its value, of what the process holds and of what is lost
stays as it is (`Kept`).

The refinement: `BufferIsQueue` proves `ImplementsQueue` under the mapping of `Queue`: a
process inside `block_write` before the store has advanced `w_pos` offers its solution; the queue
is the `fill` slots from `r_pos` on, and empty once closed. Advancing `w_pos` is `Put` (with
`FreeInv` there is room), `take` is `Get`, clearing `open` is `Close`, giving up or being killed is
`Drop`, and every other step is a stutter. Storing the slot is a stutter as well because, by
`FreeInv` and `PosInv`, it is none of the unread ones.

`BufferAttachProofs`. `NamesOwned` says that a name stands for an object only if somebody has opened that object, and that everybody
who has will remove the name or has ended without doing so. `Bound` gives, for each name, the control points
from which `clean_buffer` will still unlink it: from the `shm_open` or `sem_open` on until the `unlink`. Every action keeps the processes at such points among them, unlinks
the name, or ends the process without a cleanup (`OwnedMove`, `OwnedOpen`); a new object is one that no other process
has a handle on, which `HandleInv` below says. The type invariant is proved on its own, as it has to name
the object numbers each store goes to.

`UndisturbedSound` holds because in an undisturbed session all
who are attached use the same objects, those the names stand for now. `IInv` of `BufferAttach`
says so: handles are of created objects (`HandleInv`); objects not yet created have their
initial contents (`FreshInv`), so that creating one is the same as joining a fresh one; while a
process removes the names nobody else is attached (`LeaveInv`), since an `unlink` under somebody
would disturb the session; otherwise everybody attached shares the current
objects (`SharedInv`), a buffer not yet used is as it was created, and an open one is consistent
(`SoundInv`). `NowMem` and `NowVal` name the contents of the current objects, or what a newcomer would
create. The stores of `new_ring_buffer` keep `Good` because they are undisturbed only on an
unused buffer; `block_write` and `block_read` because of the arithmetic of positions in
`NextPosTurns`. An empty solution is written before it is concluded, since every slot between the
positions was written (the last conjunct of `NowConsistent`).

`VaultProofs`. For any processes, users, vaults, sizes and keys. `SizeBounded` and
`ReadsBack` (`ReadsWritten`) need two more facts to be inductive: an allocated vault has
exactly `max_size` bytes and a key (`AllocInv`, otherwise a
write could store outside the data), and a process that
waits in `sv_read` or `sv_write` still has that vault open (`CallInv`, otherwise
its position would mean nothing). With the types they form `IInv`. All ioctls and the write are instances
of `ChangeStep`, which says what a critical section has to establish for the one
vault it changes; whatever leaves the vaults alone is an instance of `QuietStep`.
`AppendsKeep` follows from it: `AppendKeeps` goes through what a write to an appending file stores.

`DriverProofs`. For any processes, users and vaults. `IInv` adds to the two
invariants of the run who holds the device numbers at each step of `sv_init` (`RegionInv`), and which
devices lie in which memory (`DeviceInv`): the loaded module's control device is in the map from `cdev_add` on,
before that no entry belongs to the loaded code and no vault exists, and `flag_init` is not set before the last
step of `sv_init`. `CodeThere` and `ReferencesCounted` are parts of it. The references are counted over
the set of holders, which grows or shrinks by one
process (`OneMore`, `OneLess`). `LoadUndone` follows from it: at the steps at which `sv_init` can fail no entry and no
vault belongs to the loaded code, so that the cleanups have nothing to miss.

`GeneratorProofs`. For any graphs, any number of vertices and any limit. `IInv` adds to `Partition` where
the limit is exceeded and when the block is freed (`ControlInv`). `Partition` counts the occurrences of an edge in three
sequences; the lemmas about swapping with the last element and shortening are about
cardinalities of index sets. The index that `find_edge` returns is a least element, which the
library gives for sets of numbers by the well-foundedness of `<`. A submission is sound because the painting that found no
conflict is a colouring, also of the graph on the command line, whose vertex numbers were truncated: vertices that became one have one
colour. `SubmissionsSound` assumes only that no edge on the command line is a self-loop.

`BattleshipProofs`. For maps of up to 32 times 32 cells, any fleet of ships of up to four cells, any
arguments, shots, faults and number of rounds. `AcceptsLegal` is the theorem about `parse_args`: if two ships
touch, an end of one of them or its surroundings are covered by the other, because the two ends of a ship of
at most four cells see all that is next to it; `ShipAt` shows the later of two ships that overlap, so that one of
the two notices. `FlippedRefused` is the theorem about the messages: the number of bits of a request without
the bit 11 is even, a flip of any other bit makes it odd, and a flip of bit 11 adds 32 to a column
that is below 32. `IInv` then has five parts, none of which is inductive alone: the server plays with an accepted
layout (`LayoutInv`); its counters are those of the cells and ships left (`CountInv`, which needs that a
cell belongs to one ship, hence `AcceptsLegal`); how the game ended agrees with them (`EndInv`); what is under way to the server
was sent by the client, but for one bit (`FlipInv`); and, without faults, whose turn it is and
what the two queues hold (`TurnInv`), which includes the unasked game_over in front of the answer
to a shot that nobody reads. `LayoutsChecked`, `CountersRight`, `FlipsNoticed` and `OneVerdict` follow from it;
`OneVerdict` says nothing of a client that dies in `next_move`.

`DsortProofs`. For any lines, any order of them, any outputs of the commands, pipe capacity and faults.
`OutputCorrect` needs an account of every line and of every process. `LinesKept` counts: a line is as often in what
the commands still have to print, the two pipes, the array and what `uniq` has read, together, as in the commands'
outputs. `OrderKept`: from `qsort` on these lines, read in the order of the stream, stay sorted. `ResultInv`:
what `uniq` printed is what stands twice in a row in what it read, in rising order unless lines
differ in case only. `CommandsInv` and `UniqInv` say why nothing is left anywhere at the end: a command ends well only with
nothing left to print, the parent goes on only if both did, and `uniq` sees the end of its input only after the
parent has printed all, because the parent holds the write end until then. The lemmas about counting
(`BagConcat`, `BagMove`, `BagPermuted`) show by bijections of index sets that moving a line and sorting lose none.

`SolverProofs`. For maps of up to 32 times 32 cells, any fleet and any legal layout. `ShotsFresh` rests on `SInv`: the
solver's map knows every cell the server has seen, except the last, of which the report is still to be
recorded. Every operator from memory to memory keeps known cells known (`KeepsKnown`), and
both choices take an unknown cell.

`TallFleetJudged` rests on `JudgeInv`: for a fleet that `get_ship_at` can read, the hits on the solver's map are the
cells of ships among the shots whose reports are recorded, no cell of a ship is marked as water, and the count of
each length is the number of ships of that length with a cell left. It needs `ReportInv`, that the last report says what has become
of its cell. The core is `ShipFound`: the last cell of a vertical ship above the last row leads
`get_ship_at` to the first cell and the length of that ship, because its column is a run of hits with no hit above and
below (`Column`, from the rule that ships do not touch). From it `SunkJudges` follows: the cells marked as water lie outside the fleet
(`SurroundingsClear`, here the distance of two rows is needed), and one count goes down by one, which does not wrap
around as the ship was counted. As long as `get_min_size` finds a length, a ship of it has a
cell that is neither hit nor water, so that the search for a random cell ends (`SizesLeft`).

`HuntsAround` needs no condition on the layout. It rests on `HuntInv`: the targets lie next to hits of the hunt, and all unknown cells
next to hits that were not shot at are targets. `Popping` shows that the candidates dropped are known or lie outside the map.
The attempt to prove an earlier form failed for a reason: it demanded a shot next to a hit whenever the solver is in target mode.
On the instance checked it held, but not in general. After a candidate outside the map the random
shot may hit a second ship; when as many cells of the two are hit as the longest ship has, `solver.c:294` gives both up, and
a hunt that later starts at a cell next to those hits may run out of targets while the ship is afloat.

Only model-checked: all liveness (fairness and ENABLED are beyond the prover). Every safety invariant and
action property of the passing runs is stated by a theorem.

## 5. Not modelled

* palindrom. It filters one line after the other and keeps nothing in between; there is no state
  machine to check. Reading it shows that an empty line lets `length - 1` wrap around
  (`palindrom.c:28`), that `trim_newline` counts down from `strlen - 1` as a `size_t`, for which
  `i >= 0` always holds (`palindrom.c:96`), and that the test after opening the output file
  looks at the input file (`palindrom.c:142`).
* svctl. It parses its arguments and makes one ioctl; `Vault` and `Driver` let any process make
  any ioctl at any time. Its `str2int` writes a `long` into an `int` (`svctl_src/main.c:137`).
* `supervisor.c:95`: the exit handler calls `close_buffer` although `new_ring_buffer` may have failed, with
  NULL; the supervisor then crashes in its own exit, and nobody is attached through it.
* `dsort.c:160`: the signal handler may kill processes that were waited for, whose numbers may have
  been given to others; process numbers are not modelled.
* Allocation failures of the exercise 1B, 2 and 3 programs; printing and usage messages; the Makefiles and scripts,
  except that `run.sh` determines how generators are started and killed.

## 6. Plan

Done, in this order: the ring buffer and its queue, attaching and leaving, the generator, the vault,
dsort, Battleship; the driver's load and unload; the solver; the proofs of the safety
properties of exercise 3, the driver and the solver's shots; those of dsort, Battleship and the rest of the solver.

Left:

1. `ThreeColoring.tla`: generators, the abstract queue and the supervisor together, so that the verdict and
   the record are sound; the parts are proved (`SubmissionsSound`, `BufferIsQueue`,
   `UndisturbedSessions`), their composition is argued for in the inventory only.
2. Larger maps for `Solver`, on which a ship has more than one way to be sunk.
