--------------------------- MODULE GeneratorProofs ---------------------------
(***************************************************************************)
(* What a generator submits, for any graphs, any number of vertices and    *)
(* any limit of deletions: Partition and SubmittedSound.                   *)
(***************************************************************************)
EXTENDS Generator, TLAPS, NaturalsInduction, WellFoundedInduction, FiniteSetTheorems, SequenceTheorems

-----------------------------------------------------------------------------
(* Numbers and sequences.                                                  *)

\* A set of natural numbers has a least element.
LEMMA LeastElement ==
  ASSUME NEW T \in SUBSET Nat, T # {}
  PROVE  \E m \in T : \A n \in T : m <= n
<1>1. PICK m \in T : \A n \in T : <<n, m>> \notin OpToRel(<, Nat)
  BY NatLessThanWellFounded, WFMin, Zenon
<1>2. \A n \in T : ~(n < m)
  BY <1>1, Zenon DEF OpToRel
<1> QED  BY <1>2

\* A bounded one has a greatest.
LEMMA GreatestElement ==
  ASSUME NEW b \in Nat, NEW T \in SUBSET (0 .. b), T # {}
  PROVE  \E m \in T : \A n \in T : n <= m
<1> DEFINE Mirror == {d \in Nat : b - d \in T}
<1>1. Mirror \in SUBSET Nat /\ Mirror # {}
  <2>1. PICK n \in T : TRUE
    OBVIOUS
  <2>2. b - n \in Mirror
    BY <2>1
  <2> QED  BY <2>2
<1>2. PICK d \in Mirror : \A c \in Mirror : d <= c
  BY <1>1, LeastElement
<1>3. \A n \in T : b - n \in Mirror
  OBVIOUS
<1>4. \A n \in T : n <= b - d
  BY <1>2, <1>3
<1> QED  BY <1>2, <1>4

\* What delete_edge leaves.
LEMMA WithoutEntries ==
  ASSUME NEW S, NEW s \in Seq(S), NEW k \in 1 .. Len(s)
  PROVE  /\ Without(s, k) \in Seq(S) /\ Len(Without(s, k)) = Len(s) - 1
         /\ \A j \in 1 .. Len(s) - 1 : Without(s, k)[j] = IF j = k THEN s[Len(s)] ELSE s[j]
<1> DEFINE t == [s EXCEPT ![k] = s[Len(s)]]
<1>1. t \in Seq(S) /\ Len(t) = Len(s)
  BY ExceptSeq, ElementOfSeq, LenProperties
<1>2. \A j \in 1 .. Len(s) : t[j] = IF j = k THEN s[Len(s)] ELSE s[j]
  BY LenProperties
<1> HIDE DEF t
<1>3. /\ SubSeq(t, 1, Len(s) - 1) \in Seq(S)
      /\ Len(SubSeq(t, 1, Len(s) - 1)) = Len(s) - 1
      /\ \A j \in 1 .. Len(s) - 1 : SubSeq(t, 1, Len(s) - 1)[j] = t[j]
  BY <1>1, SubSeqProperties, LenProperties
<1>4. Without(s, k) = SubSeq(t, 1, Len(s) - 1)
  BY DEF Without, t
<1> QED  BY <1>2, <1>3, <1>4
-----------------------------------------------------------------------------
(* How often an edge occurs.                                               *)

LEMMA CountType ==
  ASSUME NEW S, NEW s \in Seq(S), NEW e
  PROVE  Count(s, e) \in Nat /\ IsFiniteSet({k \in 1 .. Len(s) : s[k] = e})
<1>1. IsFiniteSet(1 .. Len(s))
  BY LenProperties, FS_Interval
<1> QED  BY <1>1, FS_Subset, FS_CardinalityType DEF Count

LEMMA CountEmpty == \A e : Count(<<>>, e) = 0
<1>1. \A e : {k \in 1 .. Len(<<>>) : <<>>[k] = e} = {}
  OBVIOUS
<1> QED  BY <1>1, FS_EmptySet DEF Count

\* Who occurs is counted.
LEMMA CountOccurs ==
  ASSUME NEW S, NEW s \in Seq(S), NEW e
  PROVE  Count(s, e) = 0 <=> \A k \in 1 .. Len(s) : s[k] # e
<1> DEFINE A == {k \in 1 .. Len(s) : s[k] = e}
<1>1. IsFiniteSet(A) /\ Count(s, e) = Cardinality(A)
  BY CountType DEF Count
<1>2. A = {} <=> \A k \in 1 .. Len(s) : s[k] # e
  OBVIOUS
<1> HIDE DEF A
<1> QED  BY <1>1, <1>2, FS_EmptySet

\* Who is counted once occurs in one place.
LEMMA CountOnce ==
  ASSUME NEW S, NEW s \in Seq(S), NEW e, Count(s, e) = 1,
         NEW j \in 1 .. Len(s), NEW k \in 1 .. Len(s), s[j] = e, s[k] = e
  PROVE  j = k
<1> DEFINE A == {l \in 1 .. Len(s) : s[l] = e}
<1>1. IsFiniteSet(A) /\ Cardinality(A) = 1 /\ j \in A /\ k \in A
  BY CountType DEF Count
<1> HIDE DEF A
<1>2. PICK x : A = {x}
  BY <1>1, FS_Singleton
<1> QED  BY <1>1, <1>2

LEMMA CountAppend ==
  ASSUME NEW S, NEW s \in Seq(S), NEW d \in S, NEW e
  PROVE  Count(Append(s, d), e) = Count(s, e) + IF d = e THEN 1 ELSE 0
<1> DEFINE A == {k \in 1 .. Len(s) : s[k] = e}
           B == {k \in 1 .. Len(Append(s, d)) : Append(s, d)[k] = e}
           n == Len(s) + 1
<1>1. n \notin A /\ B = IF d = e THEN A \cup {n} ELSE A
  BY AppendProperties, LenProperties
<1>2. IsFiniteSet(A) /\ Cardinality(A) \in Nat
  BY CountType DEF Count
<1>3. Count(s, e) = Cardinality(A) /\ Count(Append(s, d), e) = Cardinality(B)
  BY DEF Count
<1> HIDE DEF A, B, n
<1>4. Cardinality(A \cup {n}) = Cardinality(A) + 1
  BY <1>1, <1>2, FS_AddElement
<1> QED  BY <1>1, <1>2, <1>3, <1>4

LEMMA CountWithout ==
  ASSUME NEW S, NEW s \in Seq(S), NEW k \in 1 .. Len(s), NEW e
  PROVE  Count(s, e) = Count(Without(s, k), e) + IF s[k] = e THEN 1 ELSE 0
<1> DEFINE n == Len(s)
           t == Without(s, k)
           A == {j \in 1 .. n : s[j] = e}
           B == {j \in 1 .. Len(t) : t[j] = e}
<1>1. n \in Nat \ {0} /\ B = {j \in 1 .. n - 1 : t[j] = e}
      /\ \A j \in 1 .. n - 1 : t[j] = IF j = k THEN s[n] ELSE s[j]
  BY WithoutEntries, LenProperties
<1> HIDE DEF t, n
<1>2. IsFiniteSet(A) /\ Cardinality(A) \in Nat
  BY CountType DEF n, Count
<1>3. Count(s, e) = Cardinality(A) /\ Count(t, e) = Cardinality(B)
  BY DEF Count, n
<1>4. CASE s[k] = e
  <2>1. PICK j \in A : B = A \ {j}
    <3>1. CASE s[n] = e
      BY <1>1, <1>4, <3>1
    <3>2. CASE s[n] # e
      BY <1>1, <1>4, <3>2 DEF n
    <3> QED  BY <3>1, <3>2
  <2>2. Cardinality(B) = Cardinality(A) - 1
    BY <1>2, <2>1, FS_RemoveElement
  <2> HIDE DEF A, B
  <2> QED  BY <1>2, <1>3, <1>4, <2>2 DEF t
<1>5. CASE s[k] # e
  <2>1. CASE s[n] = e
    <3>1. B = (A \ {n}) \cup {k} /\ n \in A /\ k \notin A
      BY <1>1, <1>5, <2>1 DEF n
    <3>2. IsFiniteSet(A \ {n}) /\ Cardinality(A \ {n}) = Cardinality(A) - 1
      BY <1>2, <3>1, FS_RemoveElement
    <3>3. Cardinality((A \ {n}) \cup {k}) = Cardinality(A \ {n}) + 1
      BY <3>1, <3>2, FS_AddElement
    <3> HIDE DEF A, B
    <3> QED  BY <1>2, <1>3, <1>5, <3>1, <3>2, <3>3 DEF t
  <2>2. CASE s[n] # e
    <3>1. B = A
      BY <1>1, <1>5, <2>2 DEF n
    <3> HIDE DEF A, B
    <3> QED  BY <1>2, <1>3, <1>5, <3>1 DEF t
  <2> QED  BY <2>1, <2>2
<1> QED  BY <1>4, <1>5
-----------------------------------------------------------------------------
(* The graph.                                                              *)

\* The edges parse_edge makes.
LEMMA InputType ==
  ASSUME args \in Arguments
  PROVE  /\ InputEdges \in Seq(Vid \X Vid) /\ Len(InputEdges) = Len(args) /\ Len(args) \in Nat \ {0}
         /\ \A k \in 1 .. Len(args) : InputEdges[k] \in Vid \X Vid
         /\ Ends \subseteq Vid \X Vid /\ Ends # {}
<1>1. args \in Seq(Nat \X Nat) /\ args # <<>>
  BY GeneratorAssumption
<1>2. Len(args) \in Nat \ {0}
  BY <1>1, EmptySeq, LenProperties
<1>3. \A k \in 1 .. Len(args) : InputEdges[k] \in Vid \X Vid
  <2> SUFFICES ASSUME NEW k \in 1 .. Len(args) PROVE ParseEdge(args[k]) \in Vid \X Vid
    BY DEF InputEdges
  <2>1. args[k][1] \in Nat /\ args[k][2] \in Nat
    BY <1>1, ElementOfSeq
  <2> QED  BY <2>1, GeneratorAssumption DEF ParseEdge, Vid
<1>4. InputEdges \in Seq(Vid \X Vid) /\ Len(InputEdges) = Len(args)
  BY <1>2, <1>3, IsASeq DEF InputEdges
<1> QED  BY <1>2, <1>3, <1>4 DEF Ends

\* No edge leads out of the graph.
LEMMA VerticesCovered ==
  ASSUME args \in Arguments
  PROVE  /\ VertexSize \in 1 .. VidMod
         /\ \A e \in Ends : e[1] \in 0 .. VertexSize - 1 /\ e[2] \in 0 .. VertexSize - 1
<1> DEFINE used == {InputEdges[k][1] : k \in 1 .. Len(args)}
                     \cup {InputEdges[k][2] : k \in 1 .. Len(args)}
           max == CHOOSE m \in used : \A n \in used : n <= m
<1>1. \A k \in 1 .. Len(args) : InputEdges[k][1] \in Vid /\ InputEdges[k][2] \in Vid
  <2> SUFFICES ASSUME NEW k \in 1 .. Len(args)
               PROVE  InputEdges[k][1] \in Vid /\ InputEdges[k][2] \in Vid
    OBVIOUS
  <2>1. InputEdges[k] \in Vid \X Vid
    BY InputType
  <2> QED  BY <2>1
<1>2. VertexSize = max + 1
  BY DEF VertexSize
<1>3. used \in SUBSET (0 .. VidMod - 1) /\ VidMod - 1 \in Nat
  BY <1>1, GeneratorAssumption DEF Vid
<1>4. used # {}
  <2>1. InputEdges[1][1] \in used
    BY InputType
  <2> QED  BY <2>1
<1>5. \A e \in Ends : e[1] \in used /\ e[2] \in used
  BY DEF Ends
<1> HIDE DEF used
<1>6. \E m \in used : \A n \in used : n <= m
  BY <1>3, <1>4, GreatestElement
<1>7. max \in used /\ \A n \in used : n <= max
  BY <1>6
<1> HIDE DEF max
<1>8. max \in 0 .. VidMod - 1 /\ VertexSize \in 1 .. VidMod
  BY <1>2, <1>3, <1>7, GeneratorAssumption
<1>9. \A n \in used : n \in 0 .. VertexSize - 1
  BY <1>2, <1>3, <1>7, <1>8, GeneratorAssumption
<1> QED  BY <1>5, <1>8, <1>9

\* find_edge finds a conflict if there is one.
LEMMA ConflictFound ==
  ASSUME edges \in Seq(Vid \X Vid), ~GraphColored
  PROVE  FoundAt \in 1 .. Len(edges) /\ Conflict(edges[FoundAt])
<1> DEFINE T == {k \in 1 .. Len(edges) : Conflict(edges[k])}
<1>1. T \in SUBSET Nat /\ T # {}
  BY DEF GraphColored
<1>2. PICK m \in T : \A n \in T : m <= n
  BY <1>1, LeastElement
<1>3. Len(edges) \in Nat
  BY LenProperties
<1>4. \E k \in 1 .. Len(edges) :
        Conflict(edges[k]) /\ \A l \in 1 .. k - 1 : ~Conflict(edges[l])
  BY <1>1, <1>2, <1>3
<1> QED  BY <1>4 DEF FoundAt

-----------------------------------------------------------------------------
(* The invariant.                                                          *)

LEMMA NewGraphInv ==
  ASSUME args \in Arguments, edges = InputEdges, block = "allocated", solution = <<>>
  PROVE  Partition
<1>1. \A e : Count(InputEdges, e) \in Nat
  BY InputType, CountType
<1>2. PICK d \in Ends : TRUE
  BY InputType
<1>3. \A e \in Ends : Count(edges, e) + Count(solution, e) + Forgotten(d, e) = Count(InputEdges, e)
  BY <1>1, CountEmpty DEF Forgotten
<1>4. \A k \in 1 .. Len(edges) : edges[k] \in Ends
  BY InputType DEF Ends
<1> QED  BY <1>2, <1>3, <1>4 DEF Partition

LEMMA InitInv == Init => IInv
<1> SUFFICES ASSUME Init PROVE IInv
  OBVIOUS
<1>1. TypeOK
  BY InputType, VerticesCovered, GeneratorAssumption DEF Init, TypeOK, Vid, Colors
<1>2. ControlInv
  BY GeneratorAssumption DEF Init, ControlInv
<1> QED  BY <1>1, <1>2, NewGraphInv DEF Init, IInv

\* What depends on the command line only stays.
LEMMA SameArguments ==
  ASSUME args' = args
  PROVE  InputEdges' = InputEdges /\ Ends' = Ends /\ VertexSize' = VertexSize
BY DEF InputEdges, Ends, VertexSize

\* A step that leaves graph and solution alone.
LEMMA QuietStep ==
  ASSUME IInv, UNCHANGED <<args, edges, block, solution>>
  PROVE  Partition'
BY SameArguments DEF IInv, Partition, Count, Forgotten

\* An edge is deleted and recorded.
LEMMA DeleteConflictInv == ASSUME IInv, DeleteConflict PROVE IInv'
<1> DEFINE k == FoundAt
           d == edges[FoundAt]
<1>1. /\ edges \in Seq(Vid \X Vid) /\ solution \in Seq(Vid \X Vid)
      /\ k \in 1 .. Len(edges) /\ d \in Vid \X Vid
  BY ConflictFound, ElementOfSeq DEF IInv, TypeOK, DeleteConflict
<1>2. edges' = Without(edges, k) /\ solution' = Append(solution, d) /\ args' = args /\ block' = block
  BY DEF DeleteConflict
<1>3. block = "allocated" /\ Len(solution) \in Nat /\ Len(solution) <= MaxSolution
  BY <1>1, LenProperties DEF IInv, TypeOK, ControlInv, DeleteConflict
<1> HIDE DEF k, d
<1>4. /\ edges' \in Seq(Vid \X Vid) /\ Len(edges') = Len(edges) - 1
      /\ \A j \in 1 .. Len(edges) - 1 : edges'[j] = IF j = k THEN edges[Len(edges)] ELSE edges[j]
  BY <1>1, <1>2, WithoutEntries
<1>5. /\ solution' \in Seq(Vid \X Vid) /\ Len(solution') = Len(solution) + 1
      /\ solution'[Len(solution')] = d
      /\ \A j \in 1 .. Len(solution) : solution'[j] = solution[j]
  BY <1>1, <1>2, AppendProperties
<1>6. Len(edges) \in Nat /\ edges[k] = d
  BY <1>1, LenProperties DEF k, d
<1>7. TypeOK'
  BY <1>2, <1>3, <1>4, <1>5, <1>6, SameArguments, GeneratorAssumption DEF IInv, TypeOK, DeleteConflict
<1>8. ControlInv'
  BY <1>2, <1>3, <1>5, GeneratorAssumption DEF ControlInv, DeleteConflict
<1>9. Partition'
  <2>1. \A e : /\ Count(edges, e) = Count(edges', e) + (IF d = e THEN 1 ELSE 0)
               /\ Count(solution', e) = Count(solution, e) + (IF d = e THEN 1 ELSE 0)
    BY <1>1, <1>2, <1>6, CountWithout, CountAppend
  <2>2. \A e : /\ Count(edges', e) \in Nat /\ Count(solution, e) \in Nat
    BY <1>1, <1>4, CountType
  <2>3. \A e : Count(edges', e) + Count(solution', e) = Count(edges, e) + Count(solution, e)
    BY <2>1, <2>2
  <2>4. PICK f \in Ends : \A e \in Ends :
           Count(edges, e) + Count(solution, e) + Forgotten(f, e) = Count(InputEdges, e)
    BY DEF IInv, Partition
  <2>5. \A e \in Ends :
           Count(edges', e) + Count(solution', e) + Forgotten(f, e)' = Count(InputEdges', e)
    BY <1>2, <2>3, <2>4, SameArguments DEF Forgotten
  <2>6. \A j \in 1 .. Len(edges') : edges'[j] \in Ends
    BY <1>4, <1>6 DEF IInv, Partition
  <2> QED  BY <1>2, <1>3, <2>5, <2>6, SameArguments DEF Partition
<1> QED  BY <1>7, <1>8, <1>9 DEF IInv

\* The only edge is deleted, the block freed, and nothing is recorded.
LEMMA DeleteLastInv == ASSUME IInv, DeleteLast PROVE IInv'
<1>1. edges \in Seq(Vid \X Vid) /\ solution \in Seq(Vid \X Vid) /\ Len(edges) = 1
  BY DEF IInv, TypeOK, DeleteLast
<1>2. args' = args /\ solution' = solution /\ edges' = <<>> /\ block' = "freed" /\ block = "allocated"
  BY DEF IInv, TypeOK, ControlInv, DeleteLast
<1>3. TypeOK'
  BY <1>1, SameArguments DEF IInv, TypeOK, DeleteLast
<1>4. ControlInv'
  BY DEF IInv, ControlInv, DeleteLast
<1>5. Partition'
  <2> PICK d : d = edges[1]
    OBVIOUS
  <2>1. d \in Ends
    BY <1>1 DEF IInv, Partition
  <2>2. \A e : Count(edges, e) = IF d = e THEN 1 ELSE 0
    <3>1. \A e : Count(edges, e) = Count(Without(edges, 1), e) + IF d = e THEN 1 ELSE 0
      BY <1>1, CountWithout
    <3>2. Without(edges, 1) \in Seq(Vid \X Vid) /\ Len(Without(edges, 1)) = 0
      <4>1. 1 \in 1 .. Len(edges)
        BY <1>1
      <4>2. Without(edges, 1) \in Seq(Vid \X Vid) /\ Len(Without(edges, 1)) = Len(edges) - 1
        BY <1>1, <4>1, WithoutEntries
      <4> QED  BY <1>1, <4>2
    <3>3. Without(edges, 1) = <<>>
      BY <3>2, EmptySeq
    <3> QED  BY <3>1, <3>3, CountEmpty
  <2>3. \A e \in Ends : Count(edges, e) + Count(solution, e) = Count(InputEdges, e)
    <3>1. \A f, e : Forgotten(f, e) = 0
      BY <1>2 DEF Forgotten
    <3>2. \A e : Count(edges, e) \in Nat /\ Count(solution, e) \in Nat
      BY <1>1, CountType
    <3> QED  BY <3>1, <3>2 DEF IInv, Partition
  <2>4. \A e : Count(solution, e) \in Nat /\ Count(edges', e) = 0
    BY <1>1, <1>2, CountType, CountEmpty
  <2>5. \A e \in Ends : Count(edges', e) + Count(solution', e) + Forgotten(d, e)' = Count(InputEdges', e)
    <3>1. ASSUME NEW e \in Ends
          PROVE  Count(edges', e) + Count(solution, e) + (IF d = e THEN 1 ELSE 0) = Count(InputEdges, e)
      BY <2>2, <2>3, <2>4, <3>1
    <3>2. \A e : Forgotten(d, e)' = IF d = e THEN 1 ELSE 0
      BY <1>2 DEF Forgotten
    <3>3. InputEdges' = InputEdges
      BY <1>2, SameArguments
    <3> QED  BY <1>2, <3>1, <3>2, <3>3
  <2>6. \A k \in 1 .. Len(edges') : edges'[k] \in Ends
    BY <1>2
  <2>7. Ends' = Ends /\ InputEdges' = InputEdges
    BY <1>2, SameArguments
  <2> QED  BY <1>2, <2>1, <2>5, <2>6, <2>7 DEF Partition, Count
<1> QED  BY <1>3, <1>4, <1>5 DEF IInv

LEMMA StepInv == IInv /\ [Next]_vars => IInv'
<1> SUFFICES ASSUME IInv, [Next]_vars PROVE IInv'
  OBVIOUS
<1>1. CASE Paint
  <2>1. TypeOK'
    <3>1. VertexSize \in 1 .. VidMod
      BY VerticesCovered DEF IInv, TypeOK
    <3>2. i \in Nat /\ (i + 1) % VidMod \in Vid
      BY GeneratorAssumption DEF IInv, TypeOK, Vid
    <3> QED  BY <1>1, <3>1, <3>2, SameArguments DEF IInv, TypeOK, Paint
  <2>2. ControlInv'
    BY <1>1 DEF IInv, ControlInv, Paint
  <2> QED  BY <1>1, <2>1, <2>2, QuietStep DEF Paint, IInv
<1>2. CASE Colored
  <2>1. TypeOK'
    BY <1>2, SameArguments DEF IInv, TypeOK, Colored
  <2>2. ControlInv'
    BY <1>2 DEF IInv, ControlInv, Colored, GraphColored, Conflict
  <2> QED  BY <1>2, <2>1, <2>2, QuietStep DEF Colored, IInv
<1>3. CASE Submit \/ Exit \/ DoubleFree
  <2>1. TypeOK'
    BY <1>3, SameArguments DEF IInv, TypeOK, Submit, Exit, DoubleFree
  <2>2. ControlInv'
    BY <1>3 DEF IInv, ControlInv, Submit, Exit, DoubleFree
  <2> QED  BY <1>3, <2>1, <2>2, QuietStep DEF Submit, Exit, DoubleFree, IInv
<1>4. CASE NextColoring
  <2>1. args' = args /\ NewGraph /\ pc' = "paint" /\ args \in Arguments
    BY <1>4 DEF NextColoring, IInv, TypeOK
  <2>2. TypeOK'
    BY <2>1, InputType, VerticesCovered, SameArguments, GeneratorAssumption
       DEF TypeOK, NewGraph, Vid, Colors
  <2>3. ControlInv'
    BY <2>1, GeneratorAssumption DEF ControlInv, NewGraph
  <2>4. (args \in Arguments /\ edges = InputEdges /\ block = "allocated" /\ solution = <<>>)'
    BY <2>1, SameArguments DEF NewGraph
  <2>5. Partition'
    BY <2>4, NewGraphInv, PTL
  <2> QED  BY <2>2, <2>3, <2>5 DEF IInv
<1>5. CASE UNCHANGED vars
  <2>1. TypeOK'
    BY <1>5, SameArguments DEF IInv, TypeOK, vars
  <2>2. ControlInv'
    BY <1>5 DEF IInv, ControlInv, GraphColored, Conflict, vars
  <2> QED  BY <1>5, <2>1, <2>2, QuietStep DEF vars, IInv
<1> QED  BY <1>1, <1>2, <1>3, <1>4, <1>5, DeleteConflictInv, DeleteLastInv DEF Next

-----------------------------------------------------------------------------
(* The theorems.                                                           *)

(***************************************************************************)
(* The inductive invariant: types, where the limit is exceeded or the      *)
(* block freed, and Partition.                                             *)
(***************************************************************************)
THEOREM InductiveInvariant == Spec => []IInv
BY InitInv, StepInv, PTL DEF Spec

\* delete_edge loses no edge and doubles none, except that it forgets the last.
THEOREM EdgesKept == Spec => []Partition
<1>1. IInv => Partition
  BY DEF IInv
<1> QED  BY <1>1, InductiveInvariant, PTL

\* An edge of the command line and what parse_edge makes of it.
LEMMA ParsedEdge ==
  ASSUME args \in Arguments, NEW k \in 1 .. Len(args)
  PROVE  /\ ParseEdge(args[k]) = InputEdges[k] /\ InputEdges[k] \in Ends
         /\ Count(InputEdges, ParseEdge(args[k])) # 0
<1>1. ParseEdge(args[k]) = InputEdges[k] /\ InputEdges[k] \in Ends
  BY DEF InputEdges, Ends
<1> QED  BY <1>1, InputType, CountOccurs

\* A submission is sound: what is left is painted properly or a single edge.
LEMMA SubmissionColorable ==
  ASSUME IInv, pc = "submit", \A k \in 1 .. Len(args) : args[k][1] # args[k][2]
  PROVE  Colorable({e \in {args[k] : k \in 1 .. Len(args)} :
                      \A d \in 1 .. Len(solution) : solution[d] # ParseEdge(e)})
<1> DEFINE E == {e \in {args[k] : k \in 1 .. Len(args)} :
                   \A d \in 1 .. Len(solution) : solution[d] # ParseEdge(e)}
           V == {e[1] : e \in E} \cup {e[2] : e \in E}
<1>1. args \in Arguments /\ edges \in Seq(Vid \X Vid) /\ solution \in Seq(Vid \X Vid)
  BY DEF IInv, TypeOK
<1>2. ASSUME NEW e \in E
      PROVE  /\ e[1] # e[2] /\ ParseEdge(e) \in Ends
             /\ Count(InputEdges, ParseEdge(e)) \in Nat \ {0} /\ Count(solution, ParseEdge(e)) = 0
  <2>1. PICK k \in 1 .. Len(args) : e = args[k]
    BY <1>2
  <2>2. Count(solution, ParseEdge(e)) = 0
    BY <1>1, <1>2, CountOccurs
  <2>3. Count(InputEdges, ParseEdge(e)) \in Nat
    BY <1>1, InputType, CountType
  <2> QED  BY <1>1, <2>1, <2>2, <2>3, ParsedEdge
<1>3. PICK d \in Ends : \A e \in Ends :
        Count(edges, e) + Count(solution, e) + Forgotten(d, e) = Count(InputEdges, e)
  BY DEF IInv, Partition
<1>4. \E c \in [V -> Colors] : \A e \in E : c[e[1]] # c[e[2]]
  <2>1. CASE block = "allocated"
    <3> DEFINE c == [v \in V |-> vertices[v % VidMod]]
    <3>1. ASSUME NEW e \in E
          PROVE  /\ vertices[e[1] % VidMod] \in Colors /\ vertices[e[2] % VidMod] \in Colors
                 /\ vertices[e[1] % VidMod] # vertices[e[2] % VidMod]
      <4> DEFINE q == ParseEdge(e)
      <4>1. q \in Ends /\ Count(solution, q) = 0 /\ Count(InputEdges, q) \in Nat \ {0}
        BY <1>2, <3>1
      <4>2. Count(edges, q) # 0
        <5>1. Forgotten(d, q) = 0 /\ Count(edges, q) \in Nat
          BY <1>1, <2>1, CountType DEF Forgotten
        <5> HIDE DEF q
        <5> QED  BY <1>3, <4>1, <5>1
      <4>3. PICK k \in 1 .. Len(edges) : edges[k] = q
        BY <1>1, <4>2, CountOccurs
      <4>4. vertices[q[1]] # vertices[q[2]]
        BY <2>1, <4>3 DEF IInv, ControlInv, GraphColored, Conflict
      <4>5. vertices[q[1]] \in Colors /\ vertices[q[2]] \in Colors
        BY <1>1, <4>1, VerticesCovered DEF IInv, TypeOK
      <4>6. q[1] = e[1] % VidMod /\ q[2] = e[2] % VidMod
        BY DEF ParseEdge
      <4> QED  BY <4>4, <4>5, <4>6
    <3>2. c \in [V -> Colors]
      BY <3>1
    <3>3. \A e \in E : c[e[1]] = vertices[e[1] % VidMod] /\ c[e[2]] = vertices[e[2] % VidMod]
      OBVIOUS
    <3> HIDE DEF c, E, V
    <3> QED  BY <3>1, <3>2, <3>3
  <2>2. CASE block = "freed"
    <3>1. edges = <<>>
      BY <2>2 DEF IInv, Partition
    <3>2. ASSUME NEW e \in E
          PROVE  ParseEdge(e) = d /\ Count(InputEdges, d) = 1
      <4> DEFINE q == ParseEdge(e)
      <4>1. q \in Ends /\ Count(solution, q) = 0 /\ Count(InputEdges, q) \in Nat \ {0}
            /\ Count(edges, q) = 0
        BY <1>2, <3>1, <3>2, CountEmpty
      <4>2. Forgotten(d, q) = IF d = q THEN 1 ELSE 0
        BY <2>2 DEF Forgotten
      <4> HIDE DEF q
      <4>3. q = d /\ Count(InputEdges, d) = 1
        BY <1>3, <4>1, <4>2
      <4> QED  BY <4>3 DEF q
    <3>3. ASSUME NEW e \in E, NEW f \in E
          PROVE  e = f
      <4>1. PICK j \in 1 .. Len(args) : e = args[j]
        BY <3>3
      <4>2. PICK k \in 1 .. Len(args) : f = args[k]
        BY <3>3
      <4>3. InputEdges[j] = d /\ InputEdges[k] = d
        BY <1>1, <3>2, <3>3, <4>1, <4>2, ParsedEdge
      <4>4. j = k
        <5>1. InputEdges \in Seq(Vid \X Vid) /\ Len(InputEdges) = Len(args)
          BY <1>1, InputType
        <5>2. Count(InputEdges, d) = 1
          BY <3>2, <3>3
        <5>3. j \in 1 .. Len(InputEdges) /\ k \in 1 .. Len(InputEdges)
          BY <5>1
        <5> QED  BY <4>3, <5>1, <5>2, <5>3, CountOnce
      <4> QED  BY <4>1, <4>2, <4>4
    <3> DEFINE c == [v \in V |-> IF \E e \in E : v = e[1] THEN "red" ELSE "green"]
    <3>4. c \in [V -> Colors]
      BY DEF Colors
    <3>5. ASSUME NEW e \in E
          PROVE  c[e[1]] # c[e[2]]
      <4>1. e[1] # e[2] /\ \A f \in E : f = e
        BY <1>2, <3>3, <3>5
      <4>2. c[e[1]] = "red"
        BY <3>5
      <4>3. c[e[2]] = "green"
        BY <3>5, <4>1
      <4> QED  BY <4>2, <4>3
    <3> HIDE DEF c, E, V
    <3> QED  BY <3>4, <3>5
  <2> QED  BY <2>1, <2>2 DEF IInv, TypeOK
<1>5. Colorable(E)
  BY <1>4, Zenon DEF Colorable
<1> QED  BY <1>5

(***************************************************************************)
(* What block_write gets is a solution, whatever the graph and however its *)
(* vertices are truncated, unless the command line names a self-loop.      *)
(***************************************************************************)
THEOREM SubmissionsSound == Spec => []SubmittedSound
<1>1. IInv => SubmittedSound
  BY SubmissionColorable DEF SubmittedSound
<1> QED  BY <1>1, InductiveInvariant, PTL
=============================================================================
