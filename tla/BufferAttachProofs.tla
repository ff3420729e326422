------------------------- MODULE BufferAttachProofs -------------------------
(***************************************************************************)
(* Theorems about BufferAttach, for any number of processes, slots and     *)
(* objects and any order of attaching and leaving: types; that everybody   *)
(* who opened a name removes it unless it dies; and that as long as nobody *)
(* resets a buffer in use, leaves while others are attached, or dies in a  *)
(* transfer or cleanup, positions and semaphores agree, and the supervisor *)
(* concludes only what a generator wrote.                                  *)
(***************************************************************************)
EXTENDS BufferAttach, TLAPS

AllPCs == AttachPCs \cup UsePCs \cup CleanPCs \cup Gone

-----------------------------------------------------------------------------
(* Types.                                                                  *)

\* A new buffer has the types of TypeOK.
LEMMA InitTypeOK == Init => TypeOK
<1> SUFFICES ASSUME Init PROVE TypeOK
  OBVIOUS
<1>1. 0 \in Slots
  BY AttachAssumption DEF Slots
<1>2. ZeroMemory \in Memory
  BY <1>1 DEF ZeroMemory, Memory
<1>3. \A s \in SemNames : InitialValue[s] \in Nat
  <2>1. InitialValue["free"] = BufSize /\ InitialValue["used"] = 0 /\ InitialValue["lock"] = 1
    BY DEF InitialValue, SemNames
  <2> QED BY <2>1, AttachAssumption DEF SemNames
<1>4. names \in [Names -> Objects \cup {NoObject}] /\ created \in [Names -> 0 .. MaxObjects]
  BY AttachAssumption DEF Init
<1>5. mem \in [Objects -> Memory]
  BY <1>2 DEF Init
<1>6. val \in [SemNames -> [Objects -> Nat]]
  BY <1>3 DEF Init
<1>7. /\ pc \in [Procs -> AttachPCs \cup UsePCs \cup CleanPCs \cup Gone]
      /\ handle \in [Procs -> [Names -> Objects \cup {NoObject}]]
      /\ concluded \in BOOLEAN /\ emptySent \in BOOLEAN /\ disturbed \in BOOLEAN
  BY DEF Init, AttachPCs
<1> QED
  BY <1>4, <1>5, <1>6, <1>7 DEF TypeOK

\* shm_open and sem_open.
LEMMA OpenNameType ==
  ASSUME TypeOK, NEW p \in Procs, NEW n \in Names, NEW next \in AllPCs, OpenName(p, n, next)
  PROVE  TypeOK'
<1>1. names' \in [Names -> Objects \cup {NoObject}] /\ created' \in [Names -> 0 .. MaxObjects]
      /\ handle' \in [Procs -> [Names -> Objects \cup {NoObject}]]
  <2>1. handle[p] \in [Names -> Objects \cup {NoObject}] /\ created[n] \in 0 .. MaxObjects
    BY DEF TypeOK
  <2>2. CASE names[n] # NoObject
    <3>1. [handle[p] EXCEPT ![n] = names[n]] \in [Names -> Objects \cup {NoObject}]
      BY <2>1 DEF TypeOK
    <3> QED BY <2>2, <3>1 DEF OpenName, TypeOK
  <2>3. CASE names[n] = NoObject
    <3> DEFINE new == created[n] + 1
    <3>1. new \in Objects /\ new \in 0 .. MaxObjects
      BY <2>1, <2>3, AttachAssumption DEF OpenName, Objects
    <3>2. [handle[p] EXCEPT ![n] = new] \in [Names -> Objects \cup {NoObject}]
      BY <2>1, <3>1
    <3> HIDE DEF new
    <3>3. names' = [names EXCEPT ![n] = new] /\ created' = [created EXCEPT ![n] = new]
          /\ handle' = [handle EXCEPT ![p] = [handle[p] EXCEPT ![n] = new]]
      BY <2>3 DEF OpenName, TypeOK, new
    <3> QED BY <3>1, <3>2, <3>3 DEF TypeOK
  <2> QED BY <2>2, <2>3
<1>2. pc' \in [Procs -> AllPCs]
  BY DEF OpenName, TypeOK, AllPCs
<1>3. disturbed' \in BOOLEAN
  BY DEF OpenName, TypeOK
<1> QED
  BY <1>1, <1>2, <1>3 DEF OpenName, TypeOK, AllPCs

\* The initialising stores.
LEMMA StoreType ==
  ASSUME TypeOK, NEW p \in Procs, NEW from, NEW to \in AllPCs, NEW m,
         handle[p]["shm"] \in Objects => m \in Memory, Store(p, from, to, m)
  PROVE  TypeOK'
<1>1. mem' \in [Objects -> Memory]
  BY DEF Store, TypeOK
<1>2. pc' \in [Procs -> AllPCs]
  BY DEF Store, Goto, TypeOK, AllPCs
<1>3. disturbed' \in BOOLEAN
  BY Zenon DEF Store, TypeOK
<1> QED
  BY <1>1, <1>2, <1>3 DEF Store, TypeOK, AllPCs

\* clean_buffer's calls.
LEMMA UnlinkType ==
  ASSUME TypeOK, NEW p \in Procs, NEW n \in Names, NEW from, NEW to \in AllPCs,
         Unlink(p, n, from, to)
  PROVE  TypeOK'
<1>1. pc' \in [Procs -> AllPCs]
  BY DEF Unlink, Goto, TypeOK, AllPCs
<1>2. names' \in [Names -> Objects \cup {NoObject}]
  BY DEF Unlink, TypeOK, NoObject
<1>3. disturbed' \in BOOLEAN
  BY Zenon DEF Unlink, TypeOK
<1> QED
  BY <1>1, <1>2, <1>3 DEF Unlink, TypeOK, AllPCs

\* A step that moves one process and changes nothing else.
LEMMA MoveType ==
  ASSUME TypeOK, NEW p \in Procs, NEW to \in AllPCs, pc' = [pc EXCEPT ![p] = to],
         UNCHANGED <<objects, handle, concluded, history>>
  PROVE  TypeOK'
<1>1. pc' \in [Procs -> AllPCs]
  BY DEF TypeOK, AllPCs
<1> QED
  BY <1>1 DEF TypeOK, AllPCs, objects, history

\* A process that dies.
LEMMA DiesType ==
  ASSUME TypeOK, NEW p \in Procs, Dies(p)
  PROVE  TypeOK'
<1>1. pc' \in [Procs -> AllPCs]
  BY DEF Dies, TypeOK, AllPCs, Gone
<1>2. disturbed' \in BOOLEAN
  BY Zenon DEF Dies, TypeOK
<1> QED
  BY <1>1, <1>2 DEF Dies, TypeOK, AllPCs, objects

\* A semaphore that is counted down if it is positive remains a natural number.
LEMMA SemDown ==
  ASSUME NEW f \in [Objects -> Nat], NEW o, f[o] > 0
  PROVE  [f EXCEPT ![o] = @ - 1] \in [Objects -> Nat]
<1> DEFINE g == [f EXCEPT ![o] = @ - 1]
<1>1. g = [x \in Objects |-> IF x = o THEN f[o] - 1 ELSE f[x]]
  OBVIOUS
<1>2. \A x \in Objects : (IF x = o THEN f[o] - 1 ELSE f[x]) \in Nat
  <2>1. \A x \in Objects : f[x] \in Nat
    OBVIOUS
  <2> QED BY <2>1
<1> HIDE DEF g
<1>3. g \in [Objects -> Nat]
  BY <1>1, <1>2
<1> QED BY <1>3 DEF g

\* And one that is counted up.
LEMMA SemUp ==
  ASSUME NEW f \in [Objects -> Nat], NEW o
  PROVE  [f EXCEPT ![o] = @ + 1] \in [Objects -> Nat]
<1> DEFINE g == [f EXCEPT ![o] = @ + 1]
<1>1. g = [x \in Objects |-> IF x = o THEN f[o] + 1 ELSE f[x]]
  OBVIOUS
<1>2. \A x \in Objects : (IF x = o THEN f[o] + 1 ELSE f[x]) \in Nat
  <2>1. \A x \in Objects : f[x] \in Nat
    OBVIOUS
  <2> QED BY <2>1
<1> HIDE DEF g
<1>3. g \in [Objects -> Nat]
  BY <1>1, <1>2
<1> QED BY <1>3 DEF g

\* Whatever a process did so far, a slot and the next position are well-typed.
LEMMA NextPosType ==
  ASSUME NEW i \in Slots
  PROVE  NextPos(i) \in Slots
BY AttachAssumption DEF Slots, NextPos

\* block_write's transfer.
LEMMA WriteType ==
  ASSUME TypeOK, NEW g \in Generators, NEW n \in Sizes, Write(g, n)
  PROVE  TypeOK'
<1>1. g \in Procs /\ pc' \in [Procs -> AllPCs]
  BY DEF Write, Goto, TypeOK, AllPCs, Procs, UsePCs, CleanPCs
<1>2. val' \in [SemNames -> [Objects -> Nat]]
  <2> DEFINE f == handle[g]["free"]
             u == handle[g]["used"]
             free == [val["free"] EXCEPT ![f] = @ - 1]
             used == [val["used"] EXCEPT ![u] = @ + 1]
  <2>1. "free" \in SemNames /\ "used" \in SemNames
    BY DEF SemNames
  <2>2. free \in [Objects -> Nat]
    BY <2>1, SemDown DEF Write, Sem, TypeOK
  <2>3. used \in [Objects -> Nat]
    BY <2>1, SemUp DEF TypeOK
  <2>4. val' = [val EXCEPT !["free"] = free, !["used"] = used]
    BY <2>1 DEF Write, TypeOK
  <2> HIDE DEF free, used
  <2> QED BY <2>1, <2>2, <2>3, <2>4 DEF TypeOK
<1>3. mem' \in [Objects -> Memory]
  <2> DEFINE o == handle[g]["shm"]
             m == [mem[o] EXCEPT !.slots[mem[o].w] = n, !.w = NextPos(@), !.inUse = TRUE]
  <2>1. ASSUME o \in Objects PROVE m \in Memory
    <3>1. mem[o] \in Memory /\ mem[o].w \in Slots /\ NextPos(mem[o].w) \in Slots
      BY <2>1, NextPosType DEF TypeOK, Memory
    <3>2. [mem[o].slots EXCEPT ![mem[o].w] = n] \in [Slots -> Sizes \cup {0}]
      BY <3>1 DEF Memory
    <3> QED BY <3>1, <3>2 DEF Memory
  <2>2. mem' = [mem EXCEPT ![o] = m]
    BY DEF Write, Mem
  <2> HIDE DEF o, m
  <2> QED BY <2>1, <2>2 DEF TypeOK
<1>4. emptySent' \in BOOLEAN
  BY Zenon DEF Write, TypeOK
<1> QED
  BY <1>1, <1>2, <1>3, <1>4 DEF Write, TypeOK, AllPCs

\* block_read's transfer.
LEMMA ReadType ==
  ASSUME TypeOK, Read
  PROVE  TypeOK'
<1>1. pc' \in [Procs -> AllPCs]
  BY DEF Read, Goto, TypeOK, AllPCs, Procs, UsePCs
<1>2. val' \in [SemNames -> [Objects -> Nat]]
  <2> DEFINE f == handle[Supervisor]["free"]
             u == handle[Supervisor]["used"]
             free == [val["free"] EXCEPT ![f] = @ + 1]
             used == [val["used"] EXCEPT ![u] = @ - 1]
  <2>1. "free" \in SemNames /\ "used" \in SemNames
    BY DEF SemNames
  <2>2. free \in [Objects -> Nat]
    BY <2>1, SemUp DEF TypeOK
  <2>3. used \in [Objects -> Nat]
    BY <2>1, SemDown DEF Read, Sem, TypeOK
  <2>4. val' = [val EXCEPT !["used"] = used, !["free"] = free]
    BY <2>1 DEF Read, TypeOK
  <2> HIDE DEF free, used
  <2> QED BY <2>1, <2>2, <2>3, <2>4 DEF TypeOK
<1>3. mem' \in [Objects -> Memory]
  <2> DEFINE o == handle[Supervisor]["shm"]
             m == [mem[o] EXCEPT !.r = NextPos(@)]
  <2>1. ASSUME o \in Objects PROVE m \in Memory
    <3>1. mem[o] \in Memory /\ NextPos(mem[o].r) \in Slots
      BY <2>1, NextPosType DEF TypeOK, Memory
    <3> QED BY <3>1 DEF Memory
  <2>2. mem' = [mem EXCEPT ![o] = m]
    BY DEF Read
  <2> HIDE DEF o, m
  <2> QED BY <2>1, <2>2 DEF TypeOK
<1>4. concluded' \in BOOLEAN
  BY Zenon DEF Read, TypeOK
<1> QED
  BY <1>1, <1>2, <1>3, <1>4 DEF Read, TypeOK, AllPCs, history

\* The posts of a process that finds the buffer closed.
LEMMA BailType ==
  ASSUME TypeOK, NEW p \in Procs, Bail(p)
  PROVE  TypeOK'
<1>1. pc' \in [Procs -> AllPCs]
  BY DEF Bail, Goto, TypeOK, AllPCs, UsePCs, CleanPCs
<1>2. val' \in [SemNames -> [Objects -> Nat]]
  <2> DEFINE free == [val["free"] EXCEPT ![handle[p]["free"]] = @ + 1]
             lock == [val["lock"] EXCEPT ![handle[p]["lock"]] = @ + 1]
  <2>1. "free" \in SemNames /\ "lock" \in SemNames
    BY DEF SemNames
  <2>2. free \in [Objects -> Nat] /\ lock \in [Objects -> Nat]
    BY <2>1, SemUp DEF TypeOK
  <2>3. val' = [val EXCEPT !["free"] = free, !["lock"] = lock]
    BY <2>1 DEF Bail, TypeOK
  <2> HIDE DEF free, lock
  <2> QED BY <2>1, <2>2, <2>3 DEF TypeOK
<1> QED
  BY <1>1, <1>2 DEF Bail, TypeOK, AllPCs, history

\* close_buffer.
LEMMA CloseBufferType ==
  ASSUME TypeOK, CloseBuffer
  PROVE  TypeOK'
<1>1. pc' \in [Procs -> AllPCs]
  BY DEF CloseBuffer, Goto, TypeOK, AllPCs, Procs, CleanPCs
<1>2. mem' \in [Objects -> Memory]
  <2> DEFINE o == handle[Supervisor]["shm"]
             m == [mem[o] EXCEPT !.open = FALSE, !.inUse = TRUE]
  <2>1. o \in Objects => m \in Memory
    BY DEF TypeOK, Memory
  <2>2. mem' = [mem EXCEPT ![o] = m]
    BY DEF CloseBuffer
  <2> HIDE DEF o, m
  <2> QED BY <2>1, <2>2 DEF TypeOK
<1> QED
  BY <1>1, <1>2 DEF CloseBuffer, TypeOK, AllPCs, history

\* Every step preserves the types.
LEMMA NextTypeOK == TypeOK /\ [Next]_vars => TypeOK'
<1> SUFFICES ASSUME TypeOK, [Next]_vars PROVE TypeOK'
  OBVIOUS
<1> USE DEF AllPCs, AttachPCs, UsePCs, CleanPCs, Gone
<1>1. ASSUME NEW p \in Procs, ShmOpen(p) \/ SemOpen(p) PROVE TypeOK'
  BY <1>1, OpenNameType DEF ShmOpen, SemOpen, Names, SemNames
<1>2. ASSUME NEW p \in Procs, SetOpen(p) \/ SetW(p) \/ SetR(p) PROVE TypeOK'
  <2>1. ASSUME handle[p]["shm"] \in Objects
        PROVE  /\ [Mem(p) EXCEPT !.open = TRUE] \in Memory
               /\ [Mem(p) EXCEPT !.w = 0] \in Memory
               /\ [Mem(p) EXCEPT !.r = 0] \in Memory
    <3>1. Mem(p) \in Memory /\ 0 \in Slots
      BY <2>1, AttachAssumption DEF TypeOK, Mem, Slots
    <3> QED BY <3>1 DEF Memory
  <2> QED BY <1>2, <2>1, StoreType DEF SetOpen, SetW, SetR
<1>3. ASSUME NEW p \in Procs, Clean(p) PROVE TypeOK'
  BY <1>3, UnlinkType DEF Clean, Names, SemNames
<1>4. ASSUME NEW p \in Procs, FtruncateFails(p) \/ AttachFails(p) \/ CheckOpen(p) \/ Signal(p)
      PROVE  TypeOK'
  <2>1. CASE FtruncateFails(p) BY <2>1, MoveType DEF FtruncateFails, Goto
  <2>2. CASE AttachFails(p) BY <2>2, MoveType DEF AttachFails
  <2>3. CASE CheckOpen(p) BY <2>3, MoveType DEF CheckOpen, Goto
  <2>4. CASE Signal(p) BY <2>4, MoveType DEF Signal
  <2> QED BY <1>4, <2>1, <2>2, <2>3, <2>4
<1>5. CASE UNCHANGED vars
  BY <1>5 DEF TypeOK, vars, objects, history
<1> QED
  BY <1>1, <1>2, <1>3, <1>4, <1>5, DiesType, BailType, WriteType, ReadType, CloseBufferType DEF Next

\* In every reachable state the variables have their types: no position leaves
\* the array and no semaphore is negative, even after a reset or with handles
\* of different buffers.
THEOREM AttachTypes == Spec => []TypeOK
BY InitTypeOK, NextTypeOK, PTL DEF Spec

-----------------------------------------------------------------------------
(* Undisturbed sessions.                                                   *)

\* What IInv says of an undisturbed state.
Calm ==
  /\ LeaveInv
  /\ (\A p \in Procs : ~Late(p)) => SharedInv /\ SoundInv
  /\ concluded => emptySent

LatePCs == CleanPCs \ {"unlink_shm"}

-----------------------------------------------------------------------------
(* Initial contents and positions.                                         *)

\* The contents of new objects.
LEMMA InitialContents ==
  /\ InitialValue["free"] = BufSize /\ InitialValue["used"] = 0 /\ InitialValue["lock"] = 1
  /\ ZeroMemory.open = FALSE /\ ZeroMemory.inUse = FALSE /\ ZeroMemory.w = 0 /\ ZeroMemory.r = 0
  /\ BufSize \in Nat \ {0}
BY AttachAssumption DEF InitialValue, SemNames, ZeroMemory

\* The remainder of a number below the divisor, and below twice the divisor.
LEMMA ModBelow ==
  ASSUME NEW N \in Nat \ {0}, NEW a \in 0 .. N - 1
  PROVE  a % N = a
OBVIOUS

\* The same from the divisor on.
LEMMA ModAbove ==
  ASSUME NEW N \in Nat \ {0}, NEW a \in N .. N + N - 1
  PROVE  a % N = a - N
OBVIOUS

\* A position d slots after r wraps around at most once.
LEMMA ModTurns ==
  ASSUME NEW N \in Nat \ {0}, NEW r \in 0 .. N - 1, NEW d \in 0 .. N
  PROVE  (r + d) % N = IF r + d < N THEN r + d ELSE r + d - N
<1>1. CASE r + d < N
  <2>1. r + d \in 0 .. N - 1
    BY <1>1
  <2> QED BY <1>1, <2>1, ModBelow
<1>2. CASE ~(r + d < N)
  <2>1. r + d \in N .. N + N - 1
    BY <1>2
  <2> QED BY <1>2, <2>1, ModAbove
<1> QED BY <1>1, <1>2

\* The slot after the one d slots after r, and the slot d slots after the next.
LEMMA NextPosTurns ==
  ASSUME NEW r \in Slots, NEW d \in 0 .. BufSize - 1
  PROVE  /\ NextPos((r + d) % BufSize) = (r + (d + 1)) % BufSize
         /\ (NextPos(r) + d) % BufSize = (r + (d + 1)) % BufSize
<1> DEFINE N == BufSize
<1>1. N \in Nat \ {0} /\ r \in 0 .. N - 1 /\ d \in 0 .. N /\ d + 1 \in 0 .. N /\ 1 \in 0 .. N
  BY AttachAssumption DEF Slots
<1> DEFINE a == IF r + d < N THEN r + d ELSE r + d - N
           b == IF r + (d + 1) < N THEN r + (d + 1) ELSE r + (d + 1) - N
           c == IF r + 1 < N THEN r + 1 ELSE r + 1 - N
<1>2. (r + d) % N = a /\ (r + (d + 1)) % N = b /\ (r + 1) % N = c
  BY <1>1, ModTurns
<1>3. a \in 0 .. N - 1 /\ c \in 0 .. N - 1
  BY <1>1
<1>4. (a + 1) % N = IF a + 1 < N THEN a + 1 ELSE a + 1 - N
  <2> HIDE DEF a
  <2> QED BY <1>1, <1>3, ModTurns
<1>5. (c + d) % N = IF c + d < N THEN c + d ELSE c + d - N
  <2> HIDE DEF c
  <2> QED BY <1>1, <1>3, ModTurns
<1>6. (a + 1) % N = b /\ (c + d) % N = b
  BY <1>1, <1>4, <1>5
<1> HIDE DEF a, b, c
<1> QED BY <1>2, <1>6 DEF NextPos

-----------------------------------------------------------------------------
(* Handles and fresh objects.                                              *)

\* A process moves on without opening anything.
LEMMA HandleMove ==
  ASSUME TypeOK, HandleInv, NEW p \in Procs, NEW to, pc' = [pc EXCEPT ![p] = to],
         to # "shm_open", Opened(to) \subseteq Opened(pc[p]), UNCHANGED <<handle, created>>
  PROVE  HandleInv'
BY DEF TypeOK, HandleInv

\* A process opens the name n.
LEMMA HandleOpen ==
  ASSUME TypeOK, HandleInv, FreshInv, NEW p \in Procs, NEW n \in Names, NEW to, OpenName(p, n, to),
         to # "shm_open", Opened(to) \subseteq Opened(pc[p]) \cup {n}
  PROVE  HandleInv'
<1>1. /\ pc' = [pc EXCEPT ![p] = to]
      /\ \A q \in Procs \ {p} : handle'[q] = handle[q] /\ pc'[q] = pc[q]
      /\ \A m \in Names \ {n} : handle'[p][m] = handle[p][m] /\ created'[m] = created[m]
      /\ created[n] \in Nat /\ created'[n] \in Nat /\ created'[n] >= created[n]
      /\ handle'[p][n] # NoObject /\ handle'[p][n] <= created'[n]
  BY DEF OpenName, TypeOK, FreshInv, NoObject, Objects
<1>2. \A q \in Procs, m \in Names : handle[q][m] \in Nat /\ created[m] \in Nat
  BY AttachAssumption DEF TypeOK, Objects, NoObject
<1>3. \A m \in Names : created'[m] >= created[m] /\ created'[m] \in Nat
  BY <1>1, <1>2
<1>4. ASSUME NEW q \in Procs \ {p}
      PROVE  /\ pc'[q] = "shm_open" => \A m \in Names : handle'[q][m] = NoObject
             /\ \A m \in Opened(pc'[q]) : handle'[q][m] # NoObject
             /\ \A m \in Names : handle'[q][m] <= created'[m]
  BY <1>1, <1>2, <1>3 DEF HandleInv
<1>5. /\ pc'[p] = to
      /\ \A m \in Opened(to) : handle'[p][m] # NoObject
      /\ \A m \in Names : handle'[p][m] <= created'[m]
  <2>1. pc'[p] = to
    BY <1>1 DEF TypeOK
  <2>2. Opened(to) \subseteq Names
    BY DEF Opened, Names, SemNames
  <2>3. \A m \in Opened(to) : handle'[p][m] # NoObject
    BY <1>1, <2>2 DEF HandleInv
  <2>4. \A m \in Names : handle'[p][m] <= created'[m]
    BY <1>1, <1>2, <1>3 DEF HandleInv
  <2> QED BY <2>1, <2>3, <2>4
<1> QED BY <1>4, <1>5 DEF HandleInv

\* Only objects that a process has a handle of change.
LEMMA FreshStep ==
  ASSUME TypeOK, HandleInv, FreshInv, NEW p \in Procs, UNCHANGED created,
         \A n \in Names : names'[n] \in {names[n], NoObject},
         \A o \in Objects : o # handle[p]["shm"] => mem'[o] = mem[o],
         \A s \in SemNames, o \in Objects : o # handle[p][s] => val'[s][o] = val[s][o]
  PROVE  FreshInv'
<1>1. \A n \in Names : created[n] \in Nat /\ handle[p][n] \in Nat /\ handle[p][n] <= created[n]
  BY AttachAssumption DEF TypeOK, HandleInv, Objects, NoObject
<1>2. \A n \in Names : names'[n] <= created[n]
  BY <1>1 DEF FreshInv, NoObject
<1>3. \A o \in Objects : o > created["shm"] => mem'[o] = ZeroMemory
  BY <1>1 DEF FreshInv, Names, SemNames, Objects
<1>4. \A s \in SemNames, o \in Objects : o > created[s] => val'[s][o] = InitialValue[s]
  BY <1>1 DEF FreshInv, Names, Objects
<1> QED BY <1>2, <1>3, <1>4 DEF FreshInv

\* A new object is the next one.
LEMMA FreshOpen ==
  ASSUME TypeOK, FreshInv, NEW p \in Procs, NEW n \in Names, NEW to, OpenName(p, n, to)
  PROVE  FreshInv'
<1>1. /\ \A m \in Names \ {n} : names'[m] = names[m] /\ created'[m] = created[m]
      /\ created'[n] >= created[n] /\ created'[n] \in Nat /\ names'[n] <= created'[n]
      /\ UNCHANGED <<mem, val>>
  BY DEF OpenName, TypeOK, FreshInv
<1>2. \A m \in Names : created[m] \in Nat
  BY AttachAssumption DEF TypeOK
<1>3. \A m \in Names : created'[m] >= created[m] /\ created'[m] \in Nat
  BY <1>1, <1>2
<1>4. "shm" \in Names /\ SemNames \subseteq Names
  BY DEF Names
<1> QED BY <1>1, <1>2, <1>3, <1>4 DEF FreshInv, Objects

-----------------------------------------------------------------------------
(* What the names stand for now.                                           *)

\* The data part of SoundInv, of memory m and semaphores f, u and l.
Good(m, f, u, l, sent) ==
  /\ ~m.inUse => m.w = 0 /\ m.r = 0 /\ f = BufSize /\ u = 0 /\ l = 1
  /\ m.open => /\ f + u = BufSize
               /\ l = 1
               /\ m.w = (m.r + u) % BufSize
               /\ \A d \in 0 .. u - 1 : m.slots[(m.r + d) % BufSize] = 0 => sent

\* Whoever is past set_open has opened memory m, or finds it was used.
OpenedBy(m) ==
  \A p \in Procs : pc[p] \in OpenedPCs => m.open \/ (p # Supervisor /\ m.inUse)

\* SoundInv in two parts, now and in the next state.
LEMMA SoundParts ==
  /\ SoundInv <=> /\ Good(NowMem, NowVal("free"), NowVal("used"), NowVal("lock"), emptySent)
                  /\ OpenedBy(NowMem)
  /\ SoundInv' <=> /\ Good(NowMem', NowVal("free")', NowVal("used")', NowVal("lock")', emptySent')
                   /\ OpenedBy(NowMem)'
<1>1. \A f, u, l : (f = BufSize /\ u = 0 /\ l = 1)
                  <=> f = InitialValue["free"] /\ u = InitialValue["used"] /\ l = InitialValue["lock"]
  BY InitialContents
<1> QED BY <1>1 DEF SoundInv, Good, OpenedBy, NowConsistent, SemNames

\* The types of what the names stand for.
LEMMA NowTypes ==
  ASSUME TypeOK
  PROVE  /\ NowMem \in Memory
         /\ \A s \in SemNames : NowVal(s) \in Nat
<1>1. ZeroMemory \in Memory
  BY AttachAssumption DEF ZeroMemory, Memory, Slots
<1>2. \A s \in SemNames : InitialValue[s] \in Nat
  BY InitialContents DEF SemNames
<1> QED BY <1>1, <1>2 DEF TypeOK, NowMem, NowVal, Names, NoObject

\* While one is attached, nobody removes names.
LEMMA NobodyLate ==
  ASSUME LeaveInv, NEW p \in Procs, ~Outside(p), ~Late(p)
  PROVE  \A q \in Procs : ~Late(q)
BY DEF LeaveInv

\* What an attached process uses is what the names stand for.
LEMMA Settled ==
  ASSUME IInv, ~disturbed, NEW p \in Procs, ~Outside(p), ~Late(p)
  PROVE  /\ \A q \in Procs : ~Late(q)
         /\ SharedInv /\ SoundInv
         /\ concluded => emptySent
         /\ handle[p]["shm"] \in Objects /\ names["shm"] = handle[p]["shm"]
         /\ NowMem = Mem(p)
         /\ \A s \in SemNames \cap Opened(pc[p]) :
              /\ handle[p][s] \in Objects /\ names[s] = handle[p][s]
              /\ NowVal(s) = Sem(p, s)
<1>1. \A q \in Procs : ~Late(q)
  BY NobodyLate DEF IInv
<1>2. SharedInv /\ SoundInv /\ (concluded => emptySent)
  BY <1>1 DEF IInv
<1>3. "shm" \in Opened(pc[p])
  BY DEF Opened, Outside
<1>4. \A n \in Names \cap Opened(pc[p]) : handle[p][n] \in Objects /\ names[n] = handle[p][n]
  BY <1>2 DEF SharedInv, IInv, HandleInv, TypeOK
<1>5. "shm" \in Names /\ SemNames \subseteq Names
  BY DEF Names
<1>6. \A n \in Names \cap Opened(pc[p]) : names[n] # NoObject
  BY <1>4 DEF Objects, NoObject
<1> QED BY <1>1, <1>2, <1>3, <1>4, <1>5, <1>6 DEF NowMem, NowVal, Mem, Sem

\* An attached process takes a step that leaves names and handles alone.
LEMMA StayStep ==
  ASSUME IInv, ~disturbed, NEW p \in Procs, ~Outside(p), ~Late(p), NEW to,
         pc' = [pc EXCEPT ![p] = to], to \notin LatePCs, UNCHANGED <<names, handle>>,
         SoundInv', concluded' => emptySent'
  PROVE  Calm'
<1>1. SharedInv /\ \A q \in Procs : ~Late(q)
  BY Settled
<1>2. pc'[p] = to /\ \A q \in Procs \ {p} : pc'[q] = pc[q]
  BY DEF IInv, TypeOK
<1>3. \A q \in Procs : ~Late(q)'
  BY <1>1, <1>2 DEF Late, LatePCs
<1>4. SharedInv'
  BY <1>1, <1>2 DEF SharedInv, Outside
<1> QED BY <1>3, <1>4 DEF Calm, LeaveInv

\* The same if the buffer stays as it is.
LEMMA QuietStep ==
  ASSUME IInv, ~disturbed, NEW p \in Procs, ~Outside(p), ~Late(p), NEW to,
         pc' = [pc EXCEPT ![p] = to], to \notin LatePCs,
         to \in OpenedPCs => pc[p] \in OpenedPCs,
         UNCHANGED <<objects, handle, concluded, history>>
  PROVE  Calm'
<1>1. SoundInv /\ (concluded => emptySent)
  BY Settled
<1>2. pc'[p] = to /\ \A q \in Procs \ {p} : pc'[q] = pc[q]
  BY DEF IInv, TypeOK
<1>3. NowMem' = NowMem /\ \A s \in SemNames : NowVal(s)' = NowVal(s)
  BY DEF NowMem, NowVal, objects
<1>4. OpenedBy(NowMem)'
  BY <1>1, <1>2, <1>3, SoundParts DEF OpenedBy
<1>5. SoundInv'
  BY <1>1, <1>3, <1>4, SoundParts DEF SemNames, history
<1> QED BY <1>1, <1>5, StayStep DEF objects, history

-----------------------------------------------------------------------------
(* Opening and removing names.                                             *)

\* A process opens the name n while nobody is in clean_buffer.
LEMMA OpenStep ==
  ASSUME IInv, NEW p \in Procs, NEW n \in Names, NEW to, OpenName(p, n, to), ~disturbed',
         pc[p] \in AttachPCs, to \notin LatePCs, to # "shm_open",
         to \in OpenedPCs => pc[p] \in OpenedPCs,
         pc[p] = "shm_open" => n = "shm"
  PROVE  Calm'
<1>1. ~disturbed /\ \A q \in Procs \ {p} : pc[q] \notin CleanPCs
  BY DEF OpenName
<1>2. pc'[p] = to /\ \A q \in Procs \ {p} : pc'[q] = pc[q] /\ handle'[q] = handle[q]
  BY DEF OpenName, IInv, TypeOK
<1>3. \A q \in Procs : ~Late(q) /\ ~Late(q)'
  BY <1>1, <1>2 DEF Late, LatePCs, AttachPCs, CleanPCs
<1>4. SharedInv /\ SoundInv /\ (concluded => emptySent)
  BY <1>1, <1>3 DEF IInv
<1>5. /\ \A m \in Names : names[m] # NoObject => names'[m] = names[m]
      /\ \A m \in Names \ {n} : names'[m] = names[m] /\ handle'[p][m] = handle[p][m]
      /\ handle'[p][n] = names'[n] /\ names'[n] # NoObject
      /\ names[n] = NoObject => names'[n] \in Objects /\ names'[n] > created[n]
  <2>1. created[n] \in Nat /\ created[n] + 1 \in Nat \ {0} /\ created[n] + 1 > created[n]
    BY DEF IInv, TypeOK
  <2>2. n \in DOMAIN names /\ p \in DOMAIN handle /\ n \in DOMAIN handle[p]
    BY DEF IInv, TypeOK
  <2>3. ASSUME NEW o, handle' = [handle EXCEPT ![p][n] = o]
        PROVE  handle'[p][n] = o /\ \A m \in Names \ {n} : handle'[p][m] = handle[p][m]
    BY <2>2, <2>3
  <2>4. CASE names[n] = NoObject
    <3>1. /\ created[n] + 1 <= MaxObjects
          /\ handle' = [handle EXCEPT ![p][n] = created[n] + 1]
          /\ names' = [names EXCEPT ![n] = created[n] + 1]
      BY <2>4 DEF OpenName
    <3>2. handle'[p][n] = created[n] + 1 /\ names'[n] = created[n] + 1
          /\ \A m \in Names \ {n} : names'[m] = names[m] /\ handle'[p][m] = handle[p][m]
      BY <2>2, <2>3, <3>1
    <3>3. created[n] + 1 \in Objects /\ created[n] + 1 # NoObject
      BY <2>1, <3>1, AttachAssumption DEF Objects, NoObject
    <3> QED BY <2>1, <2>4, <3>2, <3>3
  <2>5. CASE names[n] # NoObject
    <3>1. handle' = [handle EXCEPT ![p][n] = names[n]] /\ names' = names
      BY <2>5 DEF OpenName
    <3>2. handle'[p][n] = names[n] /\ \A m \in Names \ {n} : handle'[p][m] = handle[p][m]
      BY <2>3, <3>1
    <3> QED BY <2>5, <3>1, <3>2
  <2> QED BY <2>4, <2>5
<1>6. SharedInv'
  <2>1. ASSUME NEW q \in Procs \ {p}, ~Outside(q)', NEW m \in Names
        PROVE  handle'[q][m] \in {NoObject, names'[m]}
    BY <1>2, <1>4, <1>5, <2>1 DEF SharedInv, Outside
  <2>2. ASSUME NEW m \in Names PROVE handle'[p][m] \in {NoObject, names'[m]}
    BY <1>4, <1>5, <2>2 DEF SharedInv, Outside, IInv, HandleInv, AttachPCs, Gone
  <2>3. names'["shm"] = NoObject => \A s \in SemNames : names'[s] = NoObject
    <3>1. CASE pc[p] = "shm_open"
      BY <1>5, <3>1
    <3>2. CASE pc[p] # "shm_open"
      <4>1. handle[p]["shm"] # NoObject /\ handle[p]["shm"] \in {NoObject, names["shm"]}
        BY <1>4, <3>2 DEF IInv, HandleInv, Opened, AttachPCs, Gone, SharedInv, Outside, Names
      <4> QED BY <1>5, <4>1 DEF Names
    <3> QED BY <3>1, <3>2
  <2> QED BY <2>1, <2>2, <2>3 DEF SharedInv
<1>7. NowMem' = NowMem /\ \A s \in SemNames : NowVal(s)' = NowVal(s)
  <2>1. "shm" \in Names /\ SemNames \subseteq Names
    BY DEF Names
  <2>2. mem' = mem /\ val' = val
    BY DEF OpenName
  <2>3. /\ \A o \in Objects : o > created["shm"] => mem[o] = ZeroMemory
        /\ \A s \in SemNames, o \in Objects : o > created[s] => val[s][o] = InitialValue[s]
    BY DEF IInv, FreshInv
  <2>4. CASE names[n] # NoObject
    <3>1. \A m \in Names : names'[m] = names[m]
      BY <1>5, <2>4
    <3> QED BY <2>1, <2>2, <3>1 DEF NowMem, NowVal
  <2>5. CASE names[n] = NoObject
    <3>1. names'[n] \in Objects /\ names'[n] > created[n] /\ names'[n] # NoObject
      BY <1>5, <2>5
    <3>2. NowMem' = NowMem
      BY <1>5, <2>1, <2>2, <2>3, <2>5, <3>1 DEF NowMem
    <3>3. ASSUME NEW s \in SemNames PROVE NowVal(s)' = NowVal(s)
      BY <1>5, <2>1, <2>2, <2>3, <2>5, <3>1 DEF NowVal
    <3> QED BY <3>2, <3>3
  <2> QED BY <2>4, <2>5
<1>8. OpenedBy(NowMem)'
  BY <1>2, <1>4, <1>7, SoundParts DEF OpenedBy
<1>9. SoundInv'
  BY <1>4, <1>7, <1>8, SoundParts DEF SemNames, OpenName
<1> QED BY <1>3, <1>4, <1>6, <1>9 DEF Calm, LeaveInv, OpenName

\* The first name is removed while nobody else is attached.
LEMMA UnlinkFirst ==
  ASSUME IInv, NEW p \in Procs, Unlink(p, "shm", "unlink_shm", "unlink_free"), ~disturbed'
  PROVE  Calm'
<1>1. ~disturbed /\ pc[p] = "unlink_shm" /\ \A q \in Procs \ {p} : ~Attached(q)
  BY DEF Unlink, Goto
<1>2. pc'[p] = "unlink_free" /\ (\A q \in Procs \ {p} : pc'[q] = pc[q]) /\ names'["shm"] = NoObject
  BY DEF Unlink, Goto, IInv, TypeOK, Names
<1>3. \A q \in Procs \ {p} : Outside(q)
  BY <1>1 DEF IInv, HandleInv, Attached, Opened, Outside
<1>4. \A q \in Procs \ {p} : Outside(q)' /\ ~Late(q)'
  BY <1>2, <1>3 DEF Outside, Late, CleanPCs, Gone
<1>5. Late(p)'
  BY <1>2 DEF Late, CleanPCs
<1>6. concluded => emptySent
  BY <1>1 DEF IInv
<1> QED BY <1>2, <1>4, <1>5, <1>6 DEF Calm, LeaveInv, Unlink

\* The semaphores' names are removed.
LEMMA UnlinkNext ==
  ASSUME IInv, NEW p \in Procs, NEW n \in {"free", "used"}, ~disturbed',
         Unlink(p, n, IF n = "free" THEN "unlink_free" ELSE "unlink_used",
                      IF n = "free" THEN "unlink_used" ELSE "unlink_lock")
  PROVE  Calm'
<1> DEFINE from == IF n = "free" THEN "unlink_free" ELSE "unlink_used"
           to   == IF n = "free" THEN "unlink_used" ELSE "unlink_lock"
<1>1. ~disturbed /\ pc[p] = from
  BY DEF Unlink, Goto
<1>2. pc'[p] = to /\ (\A q \in Procs \ {p} : pc'[q] = pc[q]) /\ names'[n] = NoObject
      /\ \A m \in Names \ {n} : names'[m] = names[m]
  BY DEF Unlink, Goto, IInv, TypeOK, Names, SemNames
<1>3. Late(p)
  BY <1>1 DEF Late, CleanPCs
<1>4. /\ \A q \in Procs \ {p} : Outside(q)
      /\ names["shm"] = NoObject
      /\ pc[p] # "unlink_free" => names["free"] = NoObject
  BY <1>1, <1>3 DEF IInv, LeaveInv
<1>5. \A q \in Procs \ {p} : Outside(q)' /\ ~Late(q)'
  BY <1>2, <1>4 DEF Outside, Late, CleanPCs, Gone
<1>6. Late(p)'
  BY <1>2 DEF Late, CleanPCs
<1>7. /\ names'["shm"] = NoObject
      /\ pc'[p] # "unlink_free" => names'["free"] = NoObject
      /\ pc'[p] = "unlink_lock" => names'["used"] = NoObject
  BY <1>1, <1>2, <1>4 DEF Names, SemNames
<1>8. concluded => emptySent
  BY <1>1 DEF IInv
<1> QED BY <1>5, <1>6, <1>7, <1>8 DEF Calm, LeaveInv, Unlink

\* The last name is removed: everything is as at first.
LEMMA UnlinkLast ==
  ASSUME IInv, NEW p \in Procs, Unlink(p, "lock", "unlink_lock", "exited"), ~disturbed'
  PROVE  Calm'
<1>1. ~disturbed /\ pc[p] = "unlink_lock"
  BY DEF Unlink, Goto
<1>2. pc'[p] = "exited" /\ (\A q \in Procs \ {p} : pc'[q] = pc[q]) /\ names'["lock"] = NoObject
      /\ \A m \in Names \ {"lock"} : names'[m] = names[m]
  BY DEF Unlink, Goto, IInv, TypeOK, Names, SemNames
<1>3. /\ \A q \in Procs \ {p} : Outside(q)
      /\ names["shm"] = NoObject /\ names["free"] = NoObject /\ names["used"] = NoObject
  BY <1>1 DEF IInv, LeaveInv, Late, CleanPCs
<1>4. \A q \in Procs : Outside(q)' /\ ~Late(q)'
  BY <1>2, <1>3 DEF Outside, Late, CleanPCs, Gone
<1>5. \A m \in Names : names'[m] = NoObject
  BY <1>2, <1>3 DEF Names, SemNames
<1>6. SharedInv'
  BY <1>4, <1>5 DEF SharedInv, Names
<1>7. NowMem' = ZeroMemory /\ \A s \in SemNames : NowVal(s)' = InitialValue[s]
  BY <1>5 DEF NowMem, NowVal, Names
<1>8. Good(NowMem', NowVal("free")', NowVal("used")', NowVal("lock")', emptySent')
  BY <1>7, InitialContents DEF Good, SemNames
<1>9. OpenedBy(NowMem)'
  BY <1>4 DEF OpenedBy, Outside, OpenedPCs, UsePCs, Gone
<1>10. SoundInv'
  BY <1>8, <1>9, SoundParts
<1>11. concluded => emptySent
  BY <1>1 DEF IInv
<1> QED BY <1>4, <1>6, <1>10, <1>11 DEF Calm, LeaveInv, Unlink

\* clean_buffer.
LEMMA CleanStep ==
  ASSUME IInv, NEW p \in Procs, Clean(p), ~disturbed'
  PROVE  Calm'
<1>1. CASE Unlink(p, "free", "unlink_free", "unlink_used")
  BY <1>1, UnlinkNext
<1>2. CASE Unlink(p, "used", "unlink_used", "unlink_lock")
  BY <1>2, UnlinkNext
<1> QED BY <1>1, <1>2, UnlinkFirst, UnlinkLast DEF Clean

-----------------------------------------------------------------------------
(* Steps on the buffer.                                                    *)

\* A slot of the buffer is one.
LEMMA SlotOf ==
  ASSUME NEW r \in Slots, NEW d \in Nat
  PROVE  (r + d) % BufSize \in Slots /\ r \in Nat /\ r < BufSize /\ (r + 0) % BufSize = r
<1>1. BufSize \in Nat \ {0} /\ r \in 0 .. BufSize - 1
  BY AttachAssumption DEF Slots
<1>2. r % BufSize = r
  BY <1>1, ModBelow
<1> QED BY <1>1, <1>2 DEF Slots

\* The memory the name stands for is assigned.
LEMMA NowMemSet ==
  ASSUME TypeOK, NEW o \in Objects, names["shm"] = o, UNCHANGED names,
         NEW m, mem' = [mem EXCEPT ![o] = m]
  PROVE  NowMem' = m
BY DEF TypeOK, NowMem, Objects, NoObject

\* A transfer: one semaphore is counted down, another one up.
LEMMA NowValMoves ==
  ASSUME TypeOK, \A s \in SemNames : names[s] \in Objects, UNCHANGED names,
         NEW a \in SemNames, NEW b \in SemNames \ {a}, NEW x, NEW y, x = names[a], y = names[b],
         val' = [val EXCEPT ![a][x] = @ - 1, ![b][y] = @ + 1]
  PROVE  /\ NowVal(a)' = NowVal(a) - 1
         /\ NowVal(b)' = NowVal(b) + 1
         /\ \A s \in SemNames \ {a, b} : NowVal(s)' = NowVal(s)
<1>1. \A s \in SemNames : names[s] # NoObject
  BY DEF Objects, NoObject
<1>2. val \in [SemNames -> [Objects -> Nat]]
  BY DEF TypeOK
<1>3. /\ val'[a] = [val[a] EXCEPT ![x] = @ - 1]
      /\ val'[b] = [val[b] EXCEPT ![y] = @ + 1]
      /\ \A s \in SemNames \ {a, b} : val'[s] = val[s]
  BY <1>2
<1>4. val'[a][x] = val[a][x] - 1 /\ val'[b][y] = val[b][y] + 1
  BY <1>2, <1>3
<1>5. NowVal(a) = val[a][x] /\ NowVal(b) = val[b][y]
  BY <1>1 DEF NowVal
<1>6. NowVal(a)' = val'[a][x] /\ NowVal(b)' = val'[b][y]
  BY <1>1 DEF NowVal
<1>7. ASSUME NEW s \in SemNames \ {a, b}
      PROVE  NowVal(s)' = NowVal(s)
  <2>1. val'[s] = val[s] /\ names' = names
    BY <1>3
  <2> QED BY <2>1 DEF NowVal
<1>8. NowVal(a)' = NowVal(a) - 1
  BY <1>4, <1>5, <1>6
<1>9. NowVal(b)' = NowVal(b) + 1
  BY <1>4, <1>5, <1>6
<1> QED BY <1>7, <1>8, <1>9

\* The stores of new_ring_buffer keep a fresh buffer as it is.
LEMMA GoodStore ==
  ASSUME NEW m, NEW f, NEW u, NEW l, NEW sent, Good(m, f, u, l, sent), ~m.inUse,
         NEW k, k.w = 0, k.r = 0
  PROVE  Good(k, f, u, l, sent)
<1>1. f = BufSize /\ u = 0 /\ l = 1
  BY DEF Good
<1>2. 0 \in Slots /\ BufSize \in Nat
  BY AttachAssumption DEF Slots
<1>3. (0 + 0) % BufSize = 0 /\ BufSize + 0 = BufSize /\ 0 .. 0 - 1 = {}
  BY <1>2, SlotOf
<1> QED BY <1>1, <1>3 DEF Good

\* block_write's transfer.
LEMMA GoodWrite ==
  ASSUME NEW m \in Memory, NEW f \in Nat, NEW u \in Nat, NEW l, NEW sent, NEW n,
         Good(m, f, u, l, sent), f > 0
  PROVE  Good([m EXCEPT !.slots[m.w] = n, !.w = NextPos(@), !.inUse = TRUE], f - 1, u + 1, l,
              sent \/ n = 0)
<1> DEFINE k == [m EXCEPT !.slots[m.w] = n, !.w = NextPos(@), !.inUse = TRUE]
<1>1. /\ k.inUse /\ k.open = m.open /\ k.r = m.r /\ k.w = NextPos(m.w)
      /\ k.slots = [m.slots EXCEPT ![m.w] = n]
      /\ m.w \in Slots /\ m.r \in Slots /\ m.slots \in [Slots -> Sizes \cup {0}]
  BY DEF Memory
<1> HIDE DEF k
<1>2. ASSUME m.open
      PROVE  /\ (f - 1) + (u + 1) = BufSize
             /\ l = 1
             /\ k.w = (k.r + (u + 1)) % BufSize
             /\ \A d \in 0 .. (u + 1) - 1 : k.slots[(k.r + d) % BufSize] = 0 => sent \/ n = 0
  <2>1. /\ f + u = BufSize /\ l = 1 /\ m.w = (m.r + u) % BufSize
        /\ \A d \in 0 .. u - 1 : m.slots[(m.r + d) % BufSize] = 0 => sent
    BY <1>2 DEF Good
  <2>2. u \in 0 .. BufSize - 1 /\ (f - 1) + (u + 1) = BufSize
    BY <2>1
  <2>3. NextPos(m.w) = (m.r + (u + 1)) % BufSize
    BY <1>1, <2>1, <2>2, NextPosTurns
  <2>4. ASSUME NEW d \in 0 .. (u + 1) - 1, k.slots[(m.r + d) % BufSize] = 0
        PROVE  sent \/ n = 0
    <3>1. CASE (m.r + d) % BufSize = m.w
      BY <1>1, <2>4, <3>1
    <3>2. CASE (m.r + d) % BufSize # m.w
      <4>1. d \in 0 .. u - 1
        BY <2>1, <3>2
      <4>2. (m.r + d) % BufSize \in Slots
        BY <1>1, <4>1, SlotOf
      <4> QED BY <1>1, <2>1, <2>4, <3>2, <4>1, <4>2
    <3> QED BY <3>1, <3>2
  <2> QED BY <1>1, <2>1, <2>2, <2>3, <2>4
<1>3. Good(k, f - 1, u + 1, l, sent \/ n = 0)
  BY <1>1, <1>2 DEF Good
<1> QED BY <1>3 DEF k

\* block_read's transfer, and what it reads.
LEMMA GoodRead ==
  ASSUME NEW m \in Memory, NEW f \in Nat, NEW u \in Nat, NEW l, NEW sent,
         Good(m, f, u, l, sent), u > 0
  PROVE  /\ Good([m EXCEPT !.r = NextPos(@)], f + 1, u - 1, l, sent)
         /\ m.open /\ m.slots[m.r] = 0 => sent
<1> DEFINE k == [m EXCEPT !.r = NextPos(@)]
<1>1. /\ k.inUse = m.inUse /\ k.open = m.open /\ k.r = NextPos(m.r) /\ k.w = m.w /\ k.slots = m.slots
      /\ m.w \in Slots /\ m.r \in Slots
  BY DEF Memory
<1> HIDE DEF k
<1>2. m.inUse
  BY DEF Good
<1>3. ASSUME m.open
      PROVE  /\ (f + 1) + (u - 1) = BufSize
             /\ l = 1
             /\ k.w = (k.r + (u - 1)) % BufSize
             /\ \A d \in 0 .. (u - 1) - 1 : k.slots[(k.r + d) % BufSize] = 0 => sent
             /\ m.slots[m.r] = 0 => sent
  <2>1. /\ f + u = BufSize /\ l = 1 /\ m.w = (m.r + u) % BufSize
        /\ \A d \in 0 .. u - 1 : m.slots[(m.r + d) % BufSize] = 0 => sent
    BY <1>3 DEF Good
  <2>2. u - 1 \in 0 .. BufSize - 1 /\ (f + 1) + (u - 1) = BufSize /\ (u - 1) + 1 = u
    BY <2>1, AttachAssumption
  <2>3. (NextPos(m.r) + (u - 1)) % BufSize = (m.r + ((u - 1) + 1)) % BufSize
    BY <1>1, <2>2, NextPosTurns
  <2>4. ASSUME NEW d \in 0 .. (u - 1) - 1, m.slots[(NextPos(m.r) + d) % BufSize] = 0
        PROVE  sent
    <3>1. d \in 0 .. BufSize - 1 /\ d + 1 \in 0 .. u - 1
      BY <2>1, AttachAssumption
    <3>2. (NextPos(m.r) + d) % BufSize = (m.r + (d + 1)) % BufSize
      BY <1>1, <3>1, NextPosTurns
    <3> QED BY <2>1, <2>4, <3>1, <3>2
  <2>5. m.slots[m.r] = 0 => sent
    <3>1. (m.r + 0) % BufSize = m.r
      BY <1>1, SlotOf
    <3>2. 0 \in 0 .. u - 1
      OBVIOUS
    <3> QED BY <2>1, <3>1, <3>2
  <2> QED BY <1>1, <2>1, <2>2, <2>3, <2>4, <2>5
<1>4. Good(k, f + 1, u - 1, l, sent)
  BY <1>1, <1>2, <1>3 DEF Good
<1> QED BY <1>3, <1>4 DEF k

\* The buffer stays open or used, and who gets past set_open opened it.
LEMMA OpenedStep ==
  ASSUME TypeOK, NEW p \in Procs, NEW to, pc' = [pc EXCEPT ![p] = to], OpenedBy(NowMem),
         NowMem.open => NowMem'.open, NowMem.inUse => NowMem'.inUse,
         to \in OpenedPCs => pc[p] \in OpenedPCs \/ NowMem'.open
  PROVE  OpenedBy(NowMem)'
<1>1. pc'[p] = to /\ \A q \in Procs \ {p} : pc'[q] = pc[q]
  BY DEF TypeOK
<1> QED BY <1>1 DEF OpenedBy

\* The stores of new_ring_buffer on an unused buffer.
LEMMA StoreStep ==
  ASSUME IInv, NEW p \in Procs, SetOpen(p) \/ SetW(p) \/ SetR(p), ~disturbed'
  PROVE  Calm'
<1> USE DEF OpenedPCs, UsePCs, LatePCs, CleanPCs, Gone
<1>1. PICK from \in {"set_open", "set_w", "set_r"}, to \in {"set_w", "set_r", "open_free"},
           k \in {[Mem(p) EXCEPT !.open = TRUE], [Mem(p) EXCEPT !.w = 0], [Mem(p) EXCEPT !.r = 0]} :
         /\ Store(p, from, to, k)
         /\ from = "set_open" => k = [Mem(p) EXCEPT !.open = TRUE]
  BY DEF SetOpen, SetW, SetR
<1>2. ~disturbed /\ ~Mem(p).inUse /\ pc[p] = from /\ pc' = [pc EXCEPT ![p] = to]
      /\ UNCHANGED <<names, handle, val, concluded, emptySent>>
  BY <1>1 DEF Store, Goto
<1>3. ~Outside(p) /\ ~Late(p)
  BY <1>2 DEF Outside, Late
<1>4. /\ handle[p]["shm"] \in Objects /\ names["shm"] = handle[p]["shm"] /\ NowMem = Mem(p)
      /\ SoundInv /\ (concluded => emptySent)
  BY <1>2, <1>3, Settled
<1>5. NowMem' = k
  BY <1>1, <1>2, <1>4, NowMemSet DEF Store, IInv
<1>6. \A s \in SemNames : NowVal(s)' = NowVal(s)
  BY <1>2 DEF NowVal
<1>7. NowMem \in Memory
  BY NowTypes DEF IInv
<1>8. Good(NowMem', NowVal("free")', NowVal("used")', NowVal("lock")', emptySent')
  <2>1. Good(NowMem, NowVal("free"), NowVal("used"), NowVal("lock"), emptySent)
    BY <1>4, SoundParts
  <2>2. NowMem.w = 0 /\ NowMem.r = 0 /\ ~NowMem.inUse
    BY <1>2, <1>4, <2>1 DEF Good
  <2>3. k.w = 0 /\ k.r = 0
    BY <1>4, <1>7, <2>2 DEF Memory
  <2>4. Good(k, NowVal("free"), NowVal("used"), NowVal("lock"), emptySent)
    BY <2>1, <2>2, <2>3, GoodStore
  <2> QED BY <1>2, <1>5, <1>6, <2>4 DEF SemNames
<1>9. OpenedBy(NowMem)'
  <2>1. /\ Mem(p).open => k.open
        /\ Mem(p).inUse => k.inUse
        /\ from = "set_open" => k.open
    BY <1>1, <1>4, <1>7 DEF Memory
  <2>2. to \in OpenedPCs => pc[p] \in OpenedPCs \/ NowMem'.open
    BY <1>2, <1>5, <2>1
  <2> QED BY <1>2, <1>4, <1>5, <2>1, <2>2, OpenedStep, SoundParts DEF IInv
<1> QED BY <1>2, <1>3, <1>4, <1>8, <1>9, StayStep, SoundParts

\* A closed buffer: what a process posts before it leaves.
LEMMA BailStep ==
  ASSUME IInv, NEW p \in Procs, Bail(p), ~disturbed'
  PROVE  Calm'
<1> USE DEF OpenedPCs, UsePCs, LatePCs, CleanPCs, Gone
<1>1. /\ ~disturbed /\ pc[p] = "check" /\ ~Mem(p).open
      /\ pc' = [pc EXCEPT ![p] = IF p = Supervisor THEN "close" ELSE "unlink_shm"]
      /\ UNCHANGED <<names, mem, handle, concluded, emptySent>>
  BY DEF Bail, Goto, history
<1>2. ~Outside(p) /\ ~Late(p)
  BY <1>1 DEF Outside, Late
<1>3. NowMem = Mem(p) /\ SoundInv /\ (concluded => emptySent)
  BY <1>1, <1>2, Settled
<1>4. NowMem.inUse /\ p # Supervisor
  BY <1>1, <1>3, SoundParts DEF OpenedBy
<1>5. NowMem' = NowMem
  BY <1>1 DEF NowMem
<1>6. Good(NowMem', NowVal("free")', NowVal("used")', NowVal("lock")', emptySent')
  BY <1>1, <1>3, <1>4, <1>5 DEF Good
<1>7. OpenedBy(NowMem)'
  BY <1>1, <1>3, <1>5, OpenedStep, SoundParts DEF IInv
<1>8. SoundInv'
  BY <1>6, <1>7, SoundParts
<1>9. (IF p = Supervisor THEN "close" ELSE "unlink_shm") \notin LatePCs
  OBVIOUS
<1> QED BY <1>1, <1>2, <1>3, <1>8, <1>9, StayStep

\* block_write.
LEMMA WriteStep ==
  ASSUME IInv, NEW g \in Generators, NEW n \in Sizes, Write(g, n), ~disturbed'
  PROVE  Calm'
<1> USE DEF OpenedPCs, UsePCs, LatePCs, CleanPCs, Gone
<1> DEFINE to == IF n = 0 THEN "unlink_shm" ELSE "check"
           k  == [Mem(g) EXCEPT !.slots[Mem(g).w] = n, !.w = NextPos(@), !.inUse = TRUE]
<1>1. /\ g \in Procs /\ ~disturbed /\ pc[g] = "wait" /\ pc' = [pc EXCEPT ![g] = to]
      /\ Sem(g, "free") > 0
      /\ mem' = [mem EXCEPT ![handle[g]["shm"]] = k]
      /\ val' = [val EXCEPT !["free"][handle[g]["free"]] = @ - 1,
                            !["used"][handle[g]["used"]] = @ + 1]
      /\ emptySent' = (emptySent \/ n = 0)
      /\ UNCHANGED <<names, handle, concluded>>
  BY DEF Write, Goto, Procs
<1>2. ~Outside(g) /\ ~Late(g)
  BY <1>1 DEF Outside, Late
<1>3. SemNames \cap Opened(pc[g]) = SemNames
  BY <1>1 DEF Opened, SemNames
<1>4. /\ handle[g]["shm"] \in Objects /\ names["shm"] = handle[g]["shm"] /\ NowMem = Mem(g)
      /\ SoundInv /\ (concluded => emptySent)
      /\ \A s \in SemNames : /\ handle[g][s] \in Objects /\ names[s] = handle[g][s]
                            /\ NowVal(s) = Sem(g, s)
  BY <1>1, <1>2, <1>3, Settled
<1>5. NowMem \in Memory /\ \A s \in SemNames : NowVal(s) \in Nat
  BY NowTypes DEF IInv
<1>6. NowMem' = k
  <2> HIDE DEF k
  <2> QED BY <1>1, <1>4, NowMemSet DEF IInv
<1>7. /\ NowVal("free")' = NowVal("free") - 1
      /\ NowVal("used")' = NowVal("used") + 1
      /\ NowVal("lock")' = NowVal("lock")
  <2>1. TypeOK /\ (\A s \in SemNames : names[s] \in Objects) /\ UNCHANGED names
    BY <1>1, <1>4 DEF IInv
  <2>2. "free" \in SemNames /\ "used" \in SemNames \ {"free"} /\ "lock" \in SemNames \ {"free", "used"}
        /\ handle[g]["free"] = names["free"] /\ handle[g]["used"] = names["used"]
    BY <1>4 DEF SemNames
  <2> HIDE DEF k
  <2> QED BY <1>1, <2>1, <2>2, NowValMoves
<1>8. Good(NowMem', NowVal("free")', NowVal("used")', NowVal("lock")', emptySent')
  <2>1. Good(NowMem, NowVal("free"), NowVal("used"), NowVal("lock"), emptySent)
    BY <1>4, SoundParts
  <2>2. NowVal("free") > 0 /\ NowVal("free") \in Nat /\ NowVal("used") \in Nat
    BY <1>1, <1>4, <1>5 DEF SemNames
  <2>3. Good(k, NowVal("free") - 1, NowVal("used") + 1, NowVal("lock"), emptySent \/ n = 0)
    BY <1>4, <1>5, <2>1, <2>2, GoodWrite
  <2> HIDE DEF k
  <2> QED BY <1>1, <1>6, <1>7, <2>3
<1>9. OpenedBy(NowMem)'
  <2>1. k.open = Mem(g).open /\ k.inUse
    BY <1>4, <1>5 DEF Memory
  <2> HIDE DEF k
  <2> QED BY <1>1, <1>4, <1>6, <2>1, OpenedStep, SoundParts DEF IInv
<1>10. SoundInv'
  BY <1>8, <1>9, SoundParts
<1>11. concluded' => emptySent'
  BY <1>1, <1>4
<1> QED BY <1>1, <1>2, <1>10, <1>11, StayStep

\* block_read.
LEMMA ReadStep ==
  ASSUME IInv, Read, ~disturbed'
  PROVE  Calm'
<1> USE DEF OpenedPCs, UsePCs, LatePCs, CleanPCs, Gone
<1> DEFINE p  == Supervisor
           n  == Mem(p).slots[Mem(p).r]
           to == IF n = 0 THEN "close" ELSE "check"
           k  == [Mem(p) EXCEPT !.r = NextPos(@)]
<1>1. /\ p \in Procs /\ ~disturbed /\ pc[p] = "wait" /\ pc' = [pc EXCEPT ![p] = to]
      /\ Sem(p, "used") > 0
      /\ mem' = [mem EXCEPT ![handle[p]["shm"]] = k]
      /\ val' = [val EXCEPT !["used"][handle[p]["used"]] = @ - 1,
                            !["free"][handle[p]["free"]] = @ + 1]
      /\ concluded' = (concluded \/ n = 0)
      /\ UNCHANGED <<names, handle, emptySent>>
  BY DEF Read, Goto, Procs, Mem, history
<1>2. ~Outside(p) /\ ~Late(p)
  BY <1>1 DEF Outside, Late
<1>3. SemNames \cap Opened(pc[p]) = SemNames
  BY <1>1 DEF Opened, SemNames
<1>4. /\ handle[p]["shm"] \in Objects /\ names["shm"] = handle[p]["shm"] /\ NowMem = Mem(p)
      /\ SoundInv /\ (concluded => emptySent)
      /\ \A s \in SemNames : /\ handle[p][s] \in Objects /\ names[s] = handle[p][s]
                            /\ NowVal(s) = Sem(p, s)
  BY <1>1, <1>2, <1>3, Settled
<1>5. NowMem \in Memory /\ \A s \in SemNames : NowVal(s) \in Nat
  BY NowTypes DEF IInv
<1>6. NowMem' = k
  <2> HIDE DEF k
  <2> QED BY <1>1, <1>4, NowMemSet DEF IInv
<1>7. /\ NowVal("used")' = NowVal("used") - 1
      /\ NowVal("free")' = NowVal("free") + 1
      /\ NowVal("lock")' = NowVal("lock")
  <2>1. TypeOK /\ (\A s \in SemNames : names[s] \in Objects) /\ UNCHANGED names
    BY <1>1, <1>4 DEF IInv
  <2>2. "used" \in SemNames /\ "free" \in SemNames \ {"used"} /\ "lock" \in SemNames \ {"used", "free"}
        /\ handle[p]["used"] = names["used"] /\ handle[p]["free"] = names["free"]
    BY <1>4 DEF SemNames
  <2> HIDE DEF k
  <2> QED BY <1>1, <2>1, <2>2, NowValMoves
<1>8. NowMem.open
  BY <1>1, <1>4, SoundParts DEF OpenedBy
<1>9. /\ Good(k, NowVal("free") + 1, NowVal("used") - 1, NowVal("lock"), emptySent)
      /\ n = 0 => emptySent
  <2>1. Good(NowMem, NowVal("free"), NowVal("used"), NowVal("lock"), emptySent)
    BY <1>4, SoundParts
  <2>2. NowVal("used") > 0 /\ NowVal("free") \in Nat /\ NowVal("used") \in Nat
    BY <1>1, <1>4, <1>5 DEF SemNames
  <2> QED BY <1>4, <1>5, <1>8, <2>1, <2>2, GoodRead
<1>10. OpenedBy(NowMem)'
  <2>1. k.open = Mem(p).open /\ k.inUse = Mem(p).inUse
    BY <1>4, <1>5 DEF Memory
  <2> HIDE DEF k
  <2> QED BY <1>1, <1>4, <1>6, <2>1, OpenedStep, SoundParts DEF IInv
<1> HIDE DEF k, n
<1>11. SoundInv'
  BY <1>1, <1>6, <1>7, <1>9, <1>10, SoundParts
<1>12. concluded' => emptySent'
  BY <1>1, <1>4, <1>9
<1>13. to \notin LatePCs
  OBVIOUS
<1> QED BY <1>1, <1>2, <1>11, <1>12, <1>13, StayStep

\* close_buffer.
LEMMA CloseStep ==
  ASSUME IInv, CloseBuffer, ~disturbed'
  PROVE  Calm'
<1> USE DEF OpenedPCs, UsePCs, LatePCs, CleanPCs, Gone
<1> DEFINE p == Supervisor
           k == [Mem(p) EXCEPT !.open = FALSE, !.inUse = TRUE]
<1>1. /\ p \in Procs /\ ~disturbed /\ pc[p] = "close" /\ pc' = [pc EXCEPT ![p] = "unlink_shm"]
      /\ mem' = [mem EXCEPT ![handle[p]["shm"]] = k]
      /\ UNCHANGED <<names, handle, val, concluded, emptySent>>
  BY DEF CloseBuffer, Goto, Procs, Mem, history
<1>2. ~Outside(p) /\ ~Late(p)
  BY <1>1 DEF Outside, Late
<1>3. /\ handle[p]["shm"] \in Objects /\ names["shm"] = handle[p]["shm"] /\ NowMem = Mem(p)
      /\ SoundInv /\ (concluded => emptySent)
  BY <1>1, <1>2, Settled
<1>4. NowMem' = k
  <2> HIDE DEF k
  <2> QED BY <1>1, <1>3, NowMemSet DEF IInv
<1>5. NowMem \in Memory
  BY NowTypes DEF IInv
<1>6. ~k.open /\ k.inUse
  BY <1>3, <1>5 DEF Memory
<1> HIDE DEF k
<1>7. Good(NowMem', NowVal("free")', NowVal("used")', NowVal("lock")', emptySent')
  BY <1>4, <1>6 DEF Good
<1>8. OpenedBy(NowMem)'
  <2>1. pc'[p] = "unlink_shm"
    BY <1>1 DEF IInv, TypeOK
  <2> QED BY <1>4, <1>6, <2>1 DEF OpenedBy
<1>9. SoundInv'
  BY <1>7, <1>8, SoundParts
<1> QED BY <1>1, <1>2, <1>3, <1>9, StayStep

\* A process gives up, is interrupted, dies or tests open.
LEMMA QuietSteps ==
  ASSUME IInv, NEW p \in Procs, ~disturbed',
         FtruncateFails(p) \/ AttachFails(p) \/ CheckOpen(p) \/ Signal(p) \/ Dies(p)
  PROVE  Calm'
<1> USE DEF OpenedPCs, UsePCs, LatePCs, CleanPCs, Gone
<1>1. UNCHANGED <<objects, handle, concluded, history>> /\ ~disturbed
  <2>1. CASE FtruncateFails(p) \/ AttachFails(p) \/ CheckOpen(p) \/ Signal(p)
    BY <2>1 DEF FtruncateFails, AttachFails, CheckOpen, Signal, history
  <2>2. CASE Dies(p)
    <3>1. ~disturbed /\ disturbed' = FALSE /\ disturbed = FALSE
      BY <2>2, Zenon DEF Dies, IInv, TypeOK
    <3> QED BY <2>2, <3>1 DEF Dies, history
  <2> QED BY <2>1, <2>2
<1>2. PICK to : /\ pc' = [pc EXCEPT ![p] = to] /\ to \notin LatePCs
                /\ to \in OpenedPCs => pc[p] \in OpenedPCs
                /\ ~Outside(p) /\ ~Late(p)
  <2>1. CASE FtruncateFails(p) BY <2>1 DEF FtruncateFails, Goto, Outside, Late
  <2>2. CASE AttachFails(p) BY <2>2 DEF AttachFails, Outside, Late
  <2>3. CASE CheckOpen(p) BY <2>3 DEF CheckOpen, Goto, Outside, Late
  <2>4. CASE Signal(p)
    <3>1. (IF p = Supervisor THEN "close" ELSE "unlink_shm") \in {"close", "unlink_shm"}
      OBVIOUS
    <3> QED BY <2>4, <3>1 DEF Signal, Outside, Late
  <2>5. CASE Dies(p) BY <2>5 DEF Dies, Outside, Late
  <2> QED BY <2>1, <2>2, <2>3, <2>4, <2>5
<1> QED BY <1>1, <1>2, QuietStep

-----------------------------------------------------------------------------
(* The inductive invariant.                                                *)

\* Every step but an open: handles stay, and objects of the process change.
LEMMA HandlesAndObjects ==
  ASSUME IInv, NEW p \in Procs, NEW from, NEW to, Goto(p, from, to),
         to # "shm_open", Opened(to) \subseteq Opened(from), UNCHANGED <<handle, created>>,
         \A n \in Names : names'[n] \in {names[n], NoObject},
         \A o \in Objects : o # handle[p]["shm"] => mem'[o] = mem[o],
         \A s \in SemNames, o \in Objects : o # handle[p][s] => val'[s][o] = val[s][o]
  PROVE  HandleInv' /\ FreshInv'
<1>1. HandleInv'
  BY HandleMove DEF IInv, Goto
<1>2. FreshInv'
  BY FreshStep DEF IInv
<1> QED BY <1>1, <1>2

\* Every step keeps HandleInv and FreshInv.
LEMMA NextHandles ==
  ASSUME IInv, Next
  PROVE  HandleInv' /\ FreshInv'
<1> USE DEF AttachPCs, UsePCs, CleanPCs, Gone, Opened
<1>1. ASSUME NEW p \in Procs, ShmOpen(p) \/ SemOpen(p)
      PROVE  HandleInv' /\ FreshInv'
  <2>1. CASE ShmOpen(p)
    BY <2>1, HandleOpen, FreshOpen DEF ShmOpen, IInv, Names, SemNames
  <2>2. CASE SemOpen(p)
    BY <2>2, HandleOpen, FreshOpen DEF SemOpen, IInv, Names, SemNames
  <2> QED BY <1>1, <2>1, <2>2
<1>2. ASSUME NEW p \in Procs, SetOpen(p) \/ SetW(p) \/ SetR(p)
      PROVE  HandleInv' /\ FreshInv'
  <2>1. ASSUME NEW from, NEW to, NEW k, Store(p, from, to, k)
        PROVE  /\ Goto(p, from, to) /\ UNCHANGED <<handle, created, names, val>>
               /\ \A o \in Objects : o # handle[p]["shm"] => mem'[o] = mem[o]
    BY <2>1 DEF Store, IInv, TypeOK
  <2> QED BY <1>2, <2>1, HandlesAndObjects DEF SetOpen, SetW, SetR
<1>3. ASSUME NEW p \in Procs, Clean(p)
      PROVE  HandleInv' /\ FreshInv'
  <2>1. ASSUME NEW n \in Names, NEW from, NEW to, Unlink(p, n, from, to)
        PROVE  /\ Goto(p, from, to) /\ UNCHANGED <<handle, created, mem, val>>
               /\ \A m \in Names : names'[m] \in {names[m], NoObject}
    BY <2>1 DEF Unlink, IInv, TypeOK
  <2> QED BY <1>3, <2>1, HandlesAndObjects DEF Clean, Names, SemNames
<1>4. ASSUME NEW p \in Procs,
             FtruncateFails(p) \/ AttachFails(p) \/ CheckOpen(p) \/ Signal(p) \/ Dies(p)
      PROVE  HandleInv' /\ FreshInv'
  <2>1. UNCHANGED <<names, created, mem, val, handle>>
    BY <1>4 DEF FtruncateFails, AttachFails, CheckOpen, Signal, Dies, objects
  <2>2. \E to : Goto(p, pc[p], to) /\ to # "shm_open" /\ Opened(to) \subseteq Opened(pc[p])
    <3>1. CASE FtruncateFails(p) BY <3>1 DEF FtruncateFails, Goto
    <3>2. CASE AttachFails(p)
      <4>1. Goto(p, pc[p], "unlink_shm")
        BY <3>2 DEF AttachFails, Goto
      <4>2. Opened("unlink_shm") \subseteq {"shm"} /\ "shm" \in Opened(pc[p])
        BY <3>2 DEF AttachFails
      <4> QED BY <4>1, <4>2
    <3>3. CASE CheckOpen(p) BY <3>3 DEF CheckOpen, Goto
    <3>4. CASE Signal(p)
      <4>1. \E to \in {"close", "unlink_shm"} : Goto(p, pc[p], to)
        BY <3>4 DEF Signal, Goto
      <4>2. pc[p] \in UsePCs
        BY <3>4 DEF Signal
      <4> QED BY <4>1, <4>2
    <3>5. CASE Dies(p) BY <3>5 DEF Dies, Goto
    <3> QED BY <1>4, <3>1, <3>2, <3>3, <3>4, <3>5
  <2> QED BY <2>1, <2>2, HandlesAndObjects
<1>5. ASSUME NEW p \in Procs, Bail(p)
      PROVE  HandleInv' /\ FreshInv'
  <2>1. UNCHANGED <<names, created, mem, handle>>
        /\ \A s \in SemNames, o \in Objects : o # handle[p][s] => val'[s][o] = val[s][o]
    BY <1>5 DEF Bail, IInv, TypeOK, SemNames
  <2>2. \E to \in {"close", "unlink_shm"} : Goto(p, "check", to)
    BY <1>5 DEF Bail
  <2> QED BY <2>1, <2>2, HandlesAndObjects
<1>6. ASSUME NEW g \in Generators, NEW n \in Sizes, Write(g, n)
      PROVE  HandleInv' /\ FreshInv'
  <2>1. g \in Procs /\ UNCHANGED <<names, created, handle>>
        /\ (\A o \in Objects : o # handle[g]["shm"] => mem'[o] = mem[o])
        /\ \A s \in SemNames, o \in Objects : o # handle[g][s] => val'[s][o] = val[s][o]
    BY <1>6 DEF Write, IInv, TypeOK, SemNames, Procs
  <2>2. \E to \in {"check", "unlink_shm"} : Goto(g, "wait", to)
    BY <1>6 DEF Write
  <2> QED BY <2>1, <2>2, HandlesAndObjects
<1>7. CASE Read
  <2> DEFINE p == Supervisor
  <2>1. p \in Procs /\ UNCHANGED <<names, created, handle>>
        /\ (\A o \in Objects : o # handle[p]["shm"] => mem'[o] = mem[o])
        /\ \A s \in SemNames, o \in Objects : o # handle[p][s] => val'[s][o] = val[s][o]
    BY <1>7 DEF Read, IInv, TypeOK, SemNames, Procs
  <2>2. \E to \in {"check", "close"} : Goto(p, "wait", to)
    BY <1>7 DEF Read
  <2> QED BY <2>1, <2>2, HandlesAndObjects
<1>8. CASE CloseBuffer
  <2> DEFINE p == Supervisor
  <2>1. p \in Procs /\ UNCHANGED <<names, created, handle, val>>
        /\ \A o \in Objects : o # handle[p]["shm"] => mem'[o] = mem[o]
    BY <1>8 DEF CloseBuffer, IInv, TypeOK, Procs
  <2>2. Goto(p, "close", "unlink_shm")
    BY <1>8 DEF CloseBuffer
  <2> QED BY <2>1, <2>2, HandlesAndObjects
<1> QED BY <1>1, <1>2, <1>3, <1>4, <1>5, <1>6, <1>7, <1>8 DEF Next

\* Every step that disturbs nothing keeps what holds of an undisturbed state.
LEMMA NextCalm ==
  ASSUME IInv, Next, ~disturbed'
  PROVE  Calm'
<1> USE DEF AttachPCs, UsePCs, CleanPCs, Gone, LatePCs, OpenedPCs
<1>1. ASSUME NEW p \in Procs, ShmOpen(p) \/ SemOpen(p)
      PROVE  Calm'
  <2>1. CASE ShmOpen(p)
    BY <2>1, OpenStep DEF ShmOpen, Names
  <2>2. CASE SemOpen(p)
    BY <2>2, OpenStep DEF SemOpen, Names, SemNames
  <2> QED BY <1>1, <2>1, <2>2
<1> QED
  BY <1>1, StoreStep, CleanStep, QuietSteps, BailStep, WriteStep, ReadStep, CloseStep DEF Next

\* At first nothing is open.
LEMMA InitIInv == Init => IInv
<1> SUFFICES ASSUME Init PROVE IInv
  OBVIOUS
<1>1. TypeOK
  BY InitTypeOK
<1>2. HandleInv
  <2>1. Opened("shm_open") = {}
    BY DEF Opened, UsePCs, Gone
  <2>2. \A p \in Procs : pc[p] = "shm_open" /\ \A n \in Names : handle[p][n] = 0 /\ created[n] = 0
    BY DEF Init, NoObject
  <2> QED BY <2>1, <2>2 DEF HandleInv, NoObject
<1>3. FreshInv
  BY DEF Init, FreshInv, NoObject
<1>4. LeaveInv /\ \A p \in Procs : ~Late(p) /\ Outside(p)
  BY DEF Init, LeaveInv, Late, Outside, CleanPCs
<1>5. SharedInv
  BY <1>4 DEF Init, SharedInv, Names
<1>6. NowMem = ZeroMemory /\ \A s \in SemNames : NowVal(s) = InitialValue[s]
  BY DEF Init, NowMem, NowVal, Names
<1>7. SoundInv
  <2>1. Good(NowMem, NowVal("free"), NowVal("used"), NowVal("lock"), emptySent)
    BY <1>6, InitialContents DEF Good, SemNames
  <2>2. OpenedBy(NowMem)
    BY DEF Init, OpenedBy, OpenedPCs, UsePCs
  <2> QED BY <2>1, <2>2, SoundParts
<1> QED BY <1>1, <1>2, <1>3, <1>4, <1>5, <1>7 DEF IInv, Init

\* Every step preserves the inductive invariant.
LEMMA NextIInv == IInv /\ [Next]_vars => IInv'
<1> SUFFICES ASSUME IInv, [Next]_vars PROVE IInv'
  OBVIOUS
<1>1. TypeOK'
  BY NextTypeOK DEF IInv
<1>2. CASE Next
  BY <1>1, <1>2, NextHandles, NextCalm DEF IInv, Calm
<1>3. CASE UNCHANGED vars
  <2>1. UNCHANGED <<names, created, mem, val, pc, handle, concluded, emptySent, disturbed>>
    BY <1>3 DEF vars, objects, history
  <2>2. HandleInv' /\ FreshInv'
    BY <2>1 DEF IInv, HandleInv, FreshInv
  <2>3. LeaveInv => LeaveInv'
    BY <2>1 DEF LeaveInv, Late, Outside
  <2>4. (\A p \in Procs : ~Late(p)') => \A p \in Procs : ~Late(p)
    BY <2>1 DEF Late
  <2>5. SharedInv => SharedInv'
    BY <2>1 DEF SharedInv, Outside
  <2>6. NowMem' = NowMem /\ \A s \in SemNames : NowVal(s)' = NowVal(s)
    BY <2>1 DEF NowMem, NowVal
  <2>7. SoundInv => SoundInv'
    BY <2>1, <2>6, SoundParts DEF OpenedBy, SemNames
  <2> QED BY <1>1, <2>1, <2>2, <2>3, <2>4, <2>5, <2>7 DEF IInv
<1> QED BY <1>2, <1>3

\* In every reachable state processes hold handles of created objects only, and
\* unless the session was disturbed, what the names stand for is
\* one consistent buffer that everybody who is attached shares.
THEOREM SharedBuffer == Spec => []IInv
BY InitIInv, NextIInv, PTL DEF Spec

\* An undisturbed session is sound: who finds the buffer open finds positions
\* that agree with the semaphores of the same buffer, and the supervisor
\* concludes only what a generator wrote.
THEOREM UndisturbedSessions == Spec => []UndisturbedSound
<1>1. IInv => UndisturbedSound
  <2> SUFFICES ASSUME IInv, ~disturbed
               PROVE  /\ \A p \in Procs : pc[p] \in UsePCs /\ Mem(p).open => Consistent(p)
                      /\ concluded => emptySent
    BY DEF UndisturbedSound
  <2>1. ASSUME NEW p \in Procs, pc[p] \in UsePCs, Mem(p).open
        PROVE  Consistent(p)
    <3>1. ~Outside(p) /\ ~Late(p)
      BY <2>1 DEF Outside, Late, UsePCs, CleanPCs, Gone
    <3>2. SemNames \cap Opened(pc[p]) = SemNames
      BY <2>1 DEF Opened, SemNames
    <3>3. SoundInv /\ NowMem = Mem(p) /\ \A s \in SemNames : NowVal(s) = Sem(p, s)
      BY <3>1, <3>2, Settled
    <3>4. NowConsistent
      BY <2>1, <3>3 DEF SoundInv
    <3> QED BY <3>3, <3>4 DEF NowConsistent, Consistent, SemNames
  <2> QED BY <2>1 DEF IInv
<1> QED BY <1>1, SharedBuffer, PTL

-----------------------------------------------------------------------------
(* Names.  NamesOwned is preserved because a new object is one that no     *)
(* process has a handle on (HandleInv) and because every step takes a      *)
(* process from a point that leads to the removal of a name to another     *)
(* one, removes the name, or ends the process without a cleanup.           *)

\* The points from which each name will be removed.
LEMMA BoundTable ==
  /\ Bound["shm"] = (AttachPCs \ {"shm_open"}) \cup UsePCs \cup {"unlink_shm"}
  /\ Bound["free"] = {"open_used", "open_lock", "unlink_shm", "unlink_free"} \cup UsePCs
  /\ Bound["used"] = {"open_lock"} \cup (CleanPCs \ {"unlink_lock"}) \cup UsePCs
  /\ Bound["lock"] = UsePCs \cup CleanPCs
BY DEF Bound, Names, SemNames

\* A process whose end will be, or is, accounted for.
Stands(x, n) == x = "failed" \/ x \in Bound[n]

\* One process moves and opens nothing.
LEMMA OwnedMove ==
  ASSUME TypeOK, NamesOwned, NEW p \in Procs, NEW to, pc' = [pc EXCEPT ![p] = to],
         UNCHANGED handle,
         \A n \in Names : \/ names'[n] = NoObject
                          \/ names'[n] = names[n] /\ (Stands(pc[p], n) => Stands(to, n))
  PROVE  NamesOwned'
<1> SUFFICES ASSUME NEW n \in Names, names'[n] # NoObject
             PROVE  /\ \E q \in Procs : handle[q][n] = names'[n]
                    /\ \A q \in Procs : handle[q][n] = names'[n] => Stands(pc'[q], n)
  BY DEF NamesOwned, Stands
<1>1. names'[n] = names[n] /\ (Stands(pc[p], n) => Stands(to, n))
  OBVIOUS
<1>2. pc'[p] = to /\ \A q \in Procs \ {p} : pc'[q] = pc[q]
  BY DEF TypeOK
<1>3. /\ \E q \in Procs : handle[q][n] = names[n]
      /\ \A q \in Procs : handle[q][n] = names[n] => Stands(pc[q], n)
  BY <1>1 DEF NamesOwned, Stands
<1> QED BY <1>1, <1>2, <1>3

\* A process opens a name: it joins those who use the object, or is the only
\* one to have a handle on a new one.
LEMMA OwnedOpen ==
  ASSUME TypeOK, HandleInv, NamesOwned, NEW p \in Procs, NEW n \in Names, NEW to,
         OpenName(p, n, to), Stands(to, n),
         \A m \in Names \ {n} : Stands(pc[p], m) => Stands(to, m)
  PROVE  NamesOwned'
<1>1. pc'[p] = to /\ (\A q \in Procs \ {p} : pc'[q] = pc[q])
      /\ \A q \in Procs \ {p} : handle'[q] = handle[q]
  BY DEF OpenName, TypeOK
<1> SUFFICES ASSUME NEW m \in Names, names'[m] # NoObject
             PROVE  /\ \E q \in Procs : handle'[q][m] = names'[m]
                    /\ \A q \in Procs : handle'[q][m] = names'[m] => Stands(pc'[q], m)
  BY DEF NamesOwned, Stands
<1>2. CASE m # n
  <2>1. names'[m] = names[m] /\ \A q \in Procs : handle'[q][m] = handle[q][m]
    BY <1>2 DEF OpenName, TypeOK
  <2>2. /\ \E q \in Procs : handle[q][m] = names[m]
        /\ \A q \in Procs : handle[q][m] = names[m] => Stands(pc[q], m)
    BY <2>1 DEF NamesOwned, Stands
  <2> QED BY <1>1, <1>2, <2>1, <2>2
<1>3. CASE m = n
  <2>1. handle'[p][n] = names'[n]
    BY DEF OpenName, TypeOK
  <2>2. ASSUME NEW q \in Procs \ {p}, handle[q][n] = names'[n]
        PROVE  Stands(pc[q], n)
    <3>1. CASE names[n] # NoObject
      BY <2>2, <3>1 DEF OpenName, NamesOwned, Stands
    <3>2. CASE names[n] = NoObject
      <4>1. names'[n] = created[n] + 1 /\ created[n] \in Nat
        BY <3>2 DEF OpenName, TypeOK
      <4>2. handle[q][n] <= created[n]
        BY DEF HandleInv
      <4> QED BY <2>2, <4>1, <4>2
    <3> QED BY <3>1, <3>2
  <2> QED BY <1>1, <1>3, <2>1, <2>2
<1> QED BY <1>2, <1>3

\* Every step keeps the account of the names.
LEMMA NextOwned == IInv /\ NamesOwned /\ [Next]_vars => NamesOwned'
<1> SUFFICES ASSUME IInv, NamesOwned, [Next]_vars PROVE NamesOwned'
  OBVIOUS
<1> USE DEF AttachPCs, UsePCs, CleanPCs, Gone, Stands
<1>0. TypeOK /\ HandleInv
  BY DEF IInv
<1>1. ASSUME NEW p \in Procs, ShmOpen(p) \/ SemOpen(p) PROVE NamesOwned'
  BY <1>0, <1>1, OwnedOpen, BoundTable DEF ShmOpen, SemOpen, Names, SemNames
<1>2. ASSUME NEW p \in Procs, SetOpen(p) \/ SetW(p) \/ SetR(p) PROVE NamesOwned'
  BY <1>0, <1>2, OwnedMove, BoundTable DEF SetOpen, SetW, SetR, Store, Goto, Names, SemNames
<1>3. ASSUME NEW p \in Procs, Clean(p) PROVE NamesOwned'
  <2>1. ASSUME NEW n \in Names, NEW from, NEW to, Unlink(p, n, from, to)
        PROVE  /\ pc[p] = from /\ pc' = [pc EXCEPT ![p] = to] /\ names'[n] = NoObject
               /\ UNCHANGED handle /\ \A m \in Names \ {n} : names'[m] = names[m]
    BY <1>0, <2>1 DEF Unlink, Goto, TypeOK
  <2> QED BY <1>0, <1>3, <2>1, OwnedMove, BoundTable DEF Clean, Names, SemNames
<1>4. ASSUME NEW p \in Procs, FtruncateFails(p) \/ AttachFails(p) \/ CheckOpen(p) \/ Signal(p)
      PROVE  NamesOwned'
  BY <1>0, <1>4, OwnedMove, BoundTable
     DEF FtruncateFails, AttachFails, CheckOpen, Signal, Goto, objects, Names, SemNames
<1>5. ASSUME NEW p \in Procs, Dies(p) PROVE NamesOwned'
  BY <1>0, <1>5, OwnedMove DEF Dies, objects
<1>6. ASSUME NEW p \in Procs, Bail(p) PROVE NamesOwned'
  BY <1>0, <1>6, OwnedMove, BoundTable DEF Bail, Goto, Names, SemNames
<1>7. ASSUME NEW g \in Generators, NEW n \in Sizes, Write(g, n) PROVE NamesOwned'
  BY <1>0, <1>7, OwnedMove, BoundTable DEF Write, Goto, Names, SemNames, Procs
<1>8. CASE Read \/ CloseBuffer
  BY <1>0, <1>8, OwnedMove, BoundTable DEF Read, CloseBuffer, Goto, Names, SemNames, Procs
<1>9. CASE UNCHANGED vars
  BY <1>9 DEF NamesOwned, vars, objects
<1> QED
  BY <1>1, <1>2, <1>3, <1>4, <1>5, <1>6, <1>7, <1>8, <1>9 DEF Next

\* A name that exists was opened by somebody, and everybody who opened what it
\* stands for will remove it or ended without a cleanup: died, or gave up after
\* a failed ftruncate.
THEOREM NamesRemoved == Spec => []NamesOwned
<1>1. Init => NamesOwned
  BY DEF Init, NamesOwned
<1>2. IInv /\ NamesOwned /\ [Next]_vars => NamesOwned'
  BY NextOwned
<1> QED
  BY <1>1, <1>2, SharedBuffer, PTL DEF Spec
=============================================================================
