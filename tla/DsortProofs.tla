---------------------------- MODULE DsortProofs ----------------------------
(***************************************************************************)
(* Theorems about Dsort, for all lines, orders of them, outputs of the     *)
(* commands, sizes of the pipe and faults: dsort reports success only if   *)
(* it has printed the duplicated lines.                                    *)
(***************************************************************************)
EXTENDS Dsort, TLAPS, FiniteSetTheorems, SequenceTheorems

-----------------------------------------------------------------------------
(* How often a line is in a sequence.                                      *)

At(s, l) == {i \in DOMAIN s : s[i] = l}

LEMMA FiniteAt ==
  ASSUME NEW s \in Seq(Lines), NEW l, NEW T \in SUBSET At(s, l)
  PROVE  /\ DOMAIN s = 1 .. Len(s) /\ Len(s) \in Nat
         /\ IsFiniteSet(T) /\ Cardinality(T) \in Nat
<1>1. DOMAIN s = 1 .. Len(s) /\ Len(s) \in Nat
  BY LenProperties
<1>2. IsFiniteSet(1 .. Len(s))
  BY <1>1, FS_Interval
<1>3. T \in SUBSET (1 .. Len(s))
  BY <1>1 DEF At
<1> QED  BY <1>1, <1>2, <1>3, FS_Subset, FS_CardinalityType

LEMMA BagNat ==
  ASSUME NEW s \in Seq(Lines), NEW l
  PROVE  Bag(s, l) \in Nat
<1>1. At(s, l) \in SUBSET At(s, l)
  OBVIOUS
<1> QED  BY <1>1, FiniteAt DEF Bag, At

\* In a sequence put together of two.
LEMMA BagConcat ==
  ASSUME NEW s \in Seq(Lines), NEW t \in Seq(Lines), NEW l
  PROVE  Bag(s \o t, l) = Bag(s, l) + Bag(t, l)
<1> DEFINE moved == {i + Len(s) : i \in At(t, l)}
<1>1. /\ DOMAIN s = 1 .. Len(s) /\ DOMAIN t = 1 .. Len(t) /\ Len(s) \in Nat /\ Len(t) \in Nat
      /\ s \o t \in Seq(Lines) /\ Len(s \o t) = Len(s) + Len(t)
      /\ DOMAIN (s \o t) = 1 .. Len(s) + Len(t)
      /\ \A i \in 1 .. Len(s) + Len(t) : (s \o t)[i] = IF i <= Len(s) THEN s[i] ELSE t[i - Len(s)]
  BY LenProperties, ConcatProperties
<1>2. At(s \o t, l) = At(s, l) \cup moved
  <2>1. \A i : i \in At(s \o t, l) => i \in At(s, l) \cup moved
    <3> SUFFICES ASSUME NEW i \in At(s \o t, l), i \notin At(s, l) PROVE i \in moved
      OBVIOUS
    <3>1. i \in 1 .. Len(s) + Len(t) /\ (s \o t)[i] = l /\ ~(i <= Len(s))
      BY <1>1 DEF At
    <3>2. i - Len(s) \in At(t, l) /\ i = (i - Len(s)) + Len(s)
      BY <1>1, <3>1 DEF At
    <3> QED  BY <3>2
  <2>2. \A i : i \in At(s, l) => i \in At(s \o t, l)
    BY <1>1 DEF At
  <2>3. \A i \in At(t, l) : i + Len(s) \in At(s \o t, l)
    BY <1>1 DEF At
  <2> QED  BY <2>1, <2>2, <2>3
<1>3. At(s, l) \cap moved = {}
  BY <1>1 DEF At
<1>4. /\ IsFiniteSet(At(s, l)) /\ IsFiniteSet(At(t, l))
      /\ Cardinality(At(s, l)) \in Nat /\ Cardinality(At(t, l)) \in Nat
  BY FiniteAt
<1>5. IsFiniteSet(moved) /\ Cardinality(moved) = Cardinality(At(t, l))
  <2> DEFINE f == [i \in At(t, l) |-> i + Len(s)]
  <2>1. f \in Bijection(At(t, l), moved)
    <3>1. \A i \in At(t, l) : i \in Int
      BY <1>1 DEF At
    <3>2. IsInjective(f)
      BY <1>1, <3>1 DEF IsInjective
    <3> QED  BY <3>2 DEF Bijection, Injection, Surjection
  <2> QED  BY <1>4, <2>1, FS_Bijection DEF ExistsBijection
<1>6. Cardinality(At(s, l) \cup moved) = Cardinality(At(s, l)) + Cardinality(moved)
  <2>1. Cardinality(At(s, l) \cup moved)
          = Cardinality(At(s, l)) + Cardinality(moved) - Cardinality(At(s, l) \cap moved)
    BY <1>4, <1>5, FS_Union
  <2>2. Cardinality(At(s, l) \cap moved) = 0
    BY <1>3, FS_EmptySet
  <2> QED  BY <1>4, <1>5, <2>1, <2>2
<1> QED  BY <1>2, <1>5, <1>6 DEF Bag, At

\* In a sequence of one.
LEMMA BagOne ==
  ASSUME NEW x \in Lines, NEW l
  PROVE  Bag(<<x>>, l) = IF x = l THEN 1 ELSE 0
<1>1. CASE x = l
  <2>1. At(<<x>>, l) = {1}
    BY <1>1 DEF At
  <2> QED  BY <1>1, <2>1, FS_Singleton DEF Bag, At
<1>2. CASE x # l
  <2>1. At(<<x>>, l) = {}
    BY <1>2 DEF At
  <2> QED  BY <1>2, <2>1, FS_EmptySet DEF Bag, At
<1> QED  BY <1>1, <1>2

LEMMA BagEmpty ==
  ASSUME NEW l
  PROVE  Bag(<<>>, l) = 0
<1>1. At(<<>>, l) = {}
  BY DEF At
<1> QED  BY <1>1, FS_EmptySet DEF Bag, At

LEMMA BagAppend ==
  ASSUME NEW s \in Seq(Lines), NEW x \in Lines, NEW l
  PROVE  Bag(Append(s, x), l) = Bag(s, l) + (IF x = l THEN 1 ELSE 0)
<1>1. <<x>> \in Seq(Lines) /\ Append(s, x) = s \o <<x>>
  BY AppendIsConcat
<1>2. Bag(s \o <<x>>, l) = Bag(s, l) + Bag(<<x>>, l)
  BY <1>1, BagConcat
<1>3. Bag(<<x>>, l) = IF x = l THEN 1 ELSE 0
  BY BagOne
<1> QED  BY <1>1, <1>2, <1>3

\* A line moved from the front of a sequence to the end of another one.
LEMMA BagMove ==
  ASSUME NEW s \in Seq(Lines), s # <<>>, NEW t \in Seq(Lines), NEW l
  PROVE  /\ Head(s) \in Lines /\ Tail(s) \in Seq(Lines) /\ Append(t, Head(s)) \in Seq(Lines)
         /\ Bag(Tail(s), l) + Bag(Append(t, Head(s)), l) = Bag(s, l) + Bag(t, l)
<1>1. Head(s) \in Lines /\ Tail(s) \in Seq(Lines) /\ <<Head(s)>> \in Seq(Lines)
  BY HeadTailProperties
<1>2. Append(t, Head(s)) \in Seq(Lines)
  BY <1>1, AppendProperties
<1>3. s = <<Head(s)>> \o Tail(s)
  OBVIOUS
<1>4. Bag(s, l) = Bag(<<Head(s)>>, l) + Bag(Tail(s), l)
  <2>1. Bag(<<Head(s)>> \o Tail(s), l) = Bag(<<Head(s)>>, l) + Bag(Tail(s), l)
    BY <1>1, BagConcat
  <2> QED  BY <1>3, <2>1
<1>5. Bag(Append(t, Head(s)), l) = Bag(t, l) + Bag(<<Head(s)>>, l)
  BY <1>1, BagAppend, BagOne
<1>6. Bag(Tail(s), l) \in Nat /\ Bag(t, l) \in Nat /\ Bag(<<Head(s)>>, l) \in Nat
  BY <1>1, BagNat
<1> QED  BY <1>1, <1>2, <1>4, <1>5, <1>6

\* In a sequence whose elements change places, as in qsort.
LEMMA BagPermuted ==
  ASSUME NEW s \in Seq(Lines), NEW f \in Perms(Len(s)), NEW l
  PROVE  LET t == [i \in DOMAIN s |-> s[f[i]]]
         IN  t \in Seq(Lines) /\ Bag(t, l) = Bag(s, l)
<1> DEFINE t == [i \in DOMAIN s |-> s[f[i]]]
           g == [i \in At(t, l) |-> f[i]]
<1>1. /\ DOMAIN s = 1 .. Len(s) /\ Len(s) \in Nat /\ IsFiniteSet(At(s, l))
      /\ f \in [1 .. Len(s) -> 1 .. Len(s)] /\ IsInjective(f)
  BY FiniteAt DEF Perms
<1>2. t \in Seq(Lines)
  <2>1. \A i \in 1 .. Len(s) : t[i] \in Lines
    BY <1>1, ElementOfSeq
  <2>2. t \in [1 .. Len(s) -> Lines]
    BY <1>1, <2>1
  <2> QED  BY <1>1, <2>2
<1>3. \A j \in DOMAIN s : \E i \in DOMAIN s : f[i] = j
  <2>1. f \in Injection(1 .. Len(s), 1 .. Len(s))
    BY <1>1 DEF Injection
  <2>2. IsFiniteSet(1 .. Len(s))
    BY <1>1, FS_Interval
  <2>3. f \in Surjection(1 .. Len(s), 1 .. Len(s))
    BY <2>1, <2>2, FS_Injection
  <2> QED  BY <1>1, <2>3 DEF Surjection
<1>4. g \in Bijection(At(t, l), At(s, l))
  <2>1. \A i \in At(t, l) : f[i] \in At(s, l) /\ i \in DOMAIN f
    BY <1>1 DEF At
  <2>2. IsInjective(g)
    BY <1>1, <2>1 DEF IsInjective
  <2>3. \A j \in At(s, l) : \E i \in At(t, l) : g[i] = j
    BY <1>1, <1>3 DEF At
  <2> QED  BY <2>1, <2>2, <2>3 DEF Bijection, Injection, Surjection
<1>5. IsFiniteSet(At(t, l))
  BY <1>2, FiniteAt
<1>6. Cardinality(At(s, l)) = Cardinality(At(t, l))
  BY <1>4, <1>5, FS_Bijection DEF ExistsBijection
<1> QED  BY <1>2, <1>6 DEF Bag, At

\* A line counted is in the sequence, twice if counted twice.
LEMMA BagMembers ==
  ASSUME NEW s \in Seq(Lines), NEW l
  PROVE  /\ Bag(s, l) >= 1 <=> \E i \in DOMAIN s : s[i] = l
         /\ Bag(s, l) >= 2 <=> \E i, j \in DOMAIN s : i < j /\ s[i] = l /\ s[j] = l
<1>1. IsFiniteSet(At(s, l)) /\ Cardinality(At(s, l)) \in Nat /\ Bag(s, l) = Cardinality(At(s, l))
  BY FiniteAt DEF Bag, At
<1>2. Cardinality(At(s, l)) = 0 <=> At(s, l) = {}
  BY <1>1, FS_EmptySet
<1>3. Cardinality(At(s, l)) = 1 <=> \E i : At(s, l) = {i}
  BY <1>1, FS_Singleton
<1>4. Bag(s, l) >= 1 <=> \E i \in DOMAIN s : s[i] = l
  BY <1>1, <1>2 DEF At
<1>5. Bag(s, l) >= 2 <=> \E i, j \in At(s, l) : i # j
  <2>1. ASSUME Bag(s, l) >= 2 PROVE \E i, j \in At(s, l) : i # j
    <3>1. At(s, l) # {}
      BY <1>1, <1>2, <2>1
    <3>2. PICK i : i \in At(s, l)
      BY <3>1
    <3>3. At(s, l) # {i}
      <4>1. At(s, l) = {i} => Cardinality(At(s, l)) = 1
        BY <1>3
      <4> QED  BY <1>1, <2>1, <4>1
    <3> QED  BY <3>2, <3>3
  <2>2. ASSUME NEW i \in At(s, l), NEW j \in At(s, l), i # j PROVE Bag(s, l) >= 2
    BY <1>1, <1>2, <1>3, <2>2
  <2> QED  BY <2>1, <2>2
<1>6. At(s, l) \subseteq Int
  BY FiniteAt DEF At
<1>7. (\E i, j \in At(s, l) : i # j) <=> \E i, j \in At(s, l) : i < j
  BY <1>6
<1> QED  BY <1>4, <1>5, <1>7 DEF At

-----------------------------------------------------------------------------
(* Lines in order.                                                         *)

\* A line moved from the front of a sequence to the end of the one before it.
LEMMA ConcatMove ==
  ASSUME NEW s \in Seq(Lines), NEW t \in Seq(Lines), t # <<>>
  PROVE  Append(s, Head(t)) \o Tail(t) = s \o t
<1>1. Head(t) \in Lines /\ Tail(t) \in Seq(Lines) /\ <<Head(t)>> \in Seq(Lines)
  BY HeadTailProperties
<1>2. Append(s, Head(t)) = s \o <<Head(t)>>
  BY <1>1, AppendIsConcat
<1>3. (s \o <<Head(t)>>) \o Tail(t) = s \o (<<Head(t)>> \o Tail(t))
  BY <1>1, ConcatAssociative
<1>4. t = <<Head(t)>> \o Tail(t)
  OBVIOUS
<1> QED  BY <1>2, <1>3, <1>4

LEMMA Regrouped ==
  ASSUME NEW r \in Seq(Lines), NEW s \in Seq(Lines), NEW t \in Seq(Lines)
  PROVE  (r \o s) \o t = r \o (s \o t)
BY ConcatAssociative

LEMMA ConcatMoveAfter ==
  ASSUME NEW r \in Seq(Lines), NEW s \in Seq(Lines), NEW t \in Seq(Lines), t # <<>>
  PROVE  (r \o Append(s, Head(t))) \o Tail(t) = (r \o s) \o t
<1> DEFINE a == Append(s, Head(t))
           b == Tail(t)
<1>1. a \in Seq(Lines) /\ b \in Seq(Lines) /\ a \o b = s \o t
  BY HeadTailProperties, AppendProperties, ConcatMove
<1> HIDE DEF a, b
<1>2. (r \o a) \o b = r \o (a \o b)
  BY <1>1, Regrouped
<1>3. (r \o s) \o t = r \o (s \o t)
  BY Regrouped
<1> QED  BY <1>1, <1>2, <1>3 DEF a, b

LEMMA PrefixSorted ==
  ASSUME NEW s \in Seq(Lines), NEW t \in Seq(Lines), Sorted(s \o t)
  PROVE  Sorted(s)
<1>1. /\ DOMAIN s = 1 .. Len(s) /\ DOMAIN t = 1 .. Len(t) /\ Len(s) \in Nat /\ Len(t) \in Nat
      /\ DOMAIN (s \o t) = 1 .. Len(s) + Len(t)
      /\ \A i \in 1 .. Len(s) : (s \o t)[i] = s[i]
  BY LenProperties, ConcatProperties
<1> QED  BY <1>1 DEF Sorted

\* What uniq -d prints after one more line.
LEMMA RepeatedStep ==
  ASSUME NEW s \in Seq(Lines), NEW r \in Seq(Lines), NEW x \in Lines, Repeated(r, s)
  PROVE  LET n == Len(s)
             q == IF n > 0 /\ s[n] = x /\ (n > 1 => s[n - 1] # x) THEN Append(r, x) ELSE r
         IN  q \in Seq(Lines) /\ Repeated(q, Append(s, x))
<1> DEFINE n == Len(s)
           second == n > 0 /\ s[n] = x /\ (n > 1 => s[n - 1] # x)
           q == IF second THEN Append(r, x) ELSE r
           t == Append(s, x)
<1>1. /\ n \in Nat /\ DOMAIN s = 1 .. n /\ DOMAIN t = 1 .. n + 1 /\ Len(t) = n + 1
      /\ t[n + 1] = x /\ \A i \in 1 .. n : t[i] = s[i]
  BY LenProperties, AppendProperties
<1>2. /\ Append(r, x) \in Seq(Lines) /\ Len(r) \in Nat /\ DOMAIN r = 1 .. Len(r)
      /\ DOMAIN Append(r, x) = 1 .. Len(r) + 1
      /\ Append(r, x)[Len(r) + 1] = x /\ \A k \in 1 .. Len(r) : Append(r, x)[k] = r[k]
  BY LenProperties, AppendProperties
<1> HIDE DEF t
<1>3. \A i \in 1 .. n - 1 : Adjacent(s, i) <=> Adjacent(t, i)
  BY <1>1 DEF Adjacent
<1>4. Adjacent(t, n) <=> n > 0 /\ s[n] = x
  BY <1>1 DEF Adjacent
<1>5. \A i : Adjacent(t, i) => i \in 1 .. n
  BY <1>1 DEF Adjacent
<1>6. \A i : Adjacent(s, i) => i \in 1 .. n - 1
  BY <1>1 DEF Adjacent
<1>7. ASSUME NEW k \in DOMAIN q
      PROVE  \E i \in DOMAIN t : Adjacent(t, i) /\ t[i] = q[k]
  <2>1. CASE k \in DOMAIN r
    <3>1. q[k] = r[k]
      BY <1>2, <2>1
    <3>2. PICK i \in DOMAIN s : Adjacent(s, i) /\ s[i] = r[k]
      BY <2>1 DEF Repeated
    <3>3. Adjacent(t, i) /\ i \in DOMAIN t /\ t[i] = s[i]
      <4>1. i \in 1 .. n - 1
        BY <1>6, <3>2
      <4> QED  BY <1>1, <1>3, <3>2, <4>1
    <3> QED  BY <3>1, <3>2, <3>3
  <2>2. CASE k \notin DOMAIN r
    <3>1. second /\ q[k] = x
      BY <1>2, <2>2
    <3> QED  BY <1>1, <1>4, <3>1
  <2> QED  BY <2>1, <2>2
<1>8. ASSUME NEW i \in DOMAIN t, Adjacent(t, i)
      PROVE  \E k \in DOMAIN q : q[k] = t[i]
  <2>1. \A k \in DOMAIN r : k \in DOMAIN q /\ q[k] = r[k]
    BY <1>2
  <2>2. CASE i \in 1 .. n - 1
    <3>1. Adjacent(s, i) /\ i \in DOMAIN s /\ t[i] = s[i]
      BY <1>1, <1>3, <1>8, <2>2
    <3> QED  BY <2>1, <3>1 DEF Repeated
  <2>3. CASE i = n
    <3>1. n > 0 /\ s[n] = x /\ t[i] = x
      BY <1>1, <1>4, <1>8, <2>3
    <3>2. CASE second
      BY <1>2, <3>1, <3>2
    <3>3. CASE ~second
      <4>1. n - 1 \in DOMAIN s /\ Adjacent(s, n - 1) /\ s[n - 1] = x
        BY <1>1, <3>1, <3>3 DEF Adjacent
      <4> QED  BY <2>1, <3>1, <4>1 DEF Repeated
    <3> QED  BY <3>2, <3>3
  <2> QED  BY <1>1, <1>5, <1>8, <2>2, <2>3
<1>9. q \in Seq(Lines)
  BY <1>2
<1> HIDE DEF q
<1>10. Repeated(q, t)
  BY <1>7, <1>8 DEF Repeated
<1> QED  BY <1>9, <1>10 DEF q, t

\* And if what it reads is in order, and in no two orders.
LEMMA IncreasingStep ==
  ASSUME NEW s \in Seq(Lines), NEW r \in Seq(Lines), NEW x \in Lines, Repeated(r, s),
         Sorted(Append(s, x)), Increasing(r),
         \A i \in DOMAIN s : Rank[s[i]] = Rank[x] => s[i] = x
  PROVE  LET n == Len(s)
             q == IF n > 0 /\ s[n] = x /\ (n > 1 => s[n - 1] # x) THEN Append(r, x) ELSE r
         IN  Increasing(q)
<1> DEFINE n == Len(s)
           m == Len(r)
           t == Append(s, x)
<1>1. /\ n \in Nat /\ DOMAIN s = 1 .. n /\ DOMAIN t = 1 .. n + 1
      /\ t[n + 1] = x /\ \A i \in 1 .. n : t[i] = s[i]
  BY LenProperties, AppendProperties
<1>2. /\ m \in Nat /\ DOMAIN r = 1 .. m /\ Len(Append(r, x)) = m + 1
      /\ Append(r, x)[m + 1] = x /\ \A k \in 1 .. m : Append(r, x)[k] = r[k]
  BY LenProperties, AppendProperties
<1> HIDE DEF n, m, t
<1>3. ASSUME n > 0, s[n] = x, n > 1 => s[n - 1] # x PROVE Increasing(Append(r, x))
  <2>1. ASSUME m > 0 PROVE Rank[r[m]] < Rank[x]
    <3>1. PICK i \in DOMAIN s : Adjacent(s, i) /\ s[i] = r[m]
      BY <1>2, <2>1 DEF Repeated, m
    <3>2. i \in 1 .. n - 1 /\ s[i + 1] = s[i]
      BY <3>1 DEF Adjacent, n
    <3>3. i # n - 1
      BY <1>1, <1>3, <3>2
    <3>4. Rank[s[i]] <= Rank[s[n - 1]] /\ Rank[s[n - 1]] <= Rank[x]
      <4>1. /\ i \in DOMAIN t /\ n - 1 \in DOMAIN t /\ n + 1 \in DOMAIN t
            /\ i < n - 1 /\ n - 1 < n + 1
            /\ t[i] = s[i] /\ t[n - 1] = s[n - 1] /\ t[n + 1] = x
        BY <1>1, <3>2, <3>3
      <4> QED  BY <4>1 DEF Sorted, t
    <3>5. s[n - 1] \in Lines /\ s[i] \in Lines /\ s[n - 1] # x /\ n - 1 \in DOMAIN s
      BY <1>1, <1>3, <3>2, ElementOfSeq DEF n
    <3>6. Rank[s[n - 1]] # Rank[x]
      BY <3>5
    <3>7. Rank[s[i]] \in Nat /\ Rank[s[n - 1]] \in Nat /\ Rank[x] \in Nat
      BY <3>5, DsortAssumption
    <3> QED  BY <3>1, <3>4, <3>6, <3>7
  <2>2. ASSUME NEW k \in 1 .. m PROVE Rank[Append(r, x)[k]] < Rank[Append(r, x)[k + 1]]
    <3>1. CASE k = m
      BY <1>2, <2>1, <3>1
    <3>2. CASE k # m
      <4>1. k \in 1 .. m - 1 /\ k + 1 \in 1 .. m
        BY <1>2, <3>2
      <4> QED  BY <1>2, <4>1 DEF Increasing, m
    <3> QED  BY <3>1, <3>2
  <2> QED  BY <1>2, <2>2 DEF Increasing, m
<1> QED  BY <1>3 DEF n

-----------------------------------------------------------------------------
(* The steps of the parent.                                                *)

\* What all processes have in their hands.
held == <<out, want, pipe, lines, passed, result>>

LEMMA HeldKept ==
  ASSUME IInv, UNCHANGED held
  PROVE  /\ LinesKept' /\ ResultInv'
         /\ Sorted(Stream) => Sorted(Stream)'
<1>1. LinesKept'
  BY DEF IInv, held, LinesKept, Bag, All
<1>2. Repeated(result, passed)'
  BY DEF IInv, held, ResultInv, Repeated, Adjacent
<1>3. ~DifferByCase' => Increasing(result)'
  <2>1. DifferByCase => DifferByCase'
    BY DEF held, DifferByCase, All
  <2>2. Increasing(result) => Increasing(result)'
    BY DEF held, Increasing
  <2> QED  BY <2>1, <2>2 DEF IInv, ResultInv
<1>4. Sorted(Stream) => Sorted(Stream)'
  BY DEF held, Sorted, Stream
<1> QED  BY <1>1, <1>2, <1>3, <1>4 DEF ResultInv

\* Whatever it was that failed.
LEMMA FailureKeeps ==
  ASSUME IInv, UNCHANGED held, pc' = "ended", status' = "failure",
         child' \in [Children -> {"none", "forked", "running", "ok", "bad", "reaped"}],
         child'["uniq"] = "none" <=> child["uniq"] = "none"
  PROVE  IInv'
<1>1. LinesKept' /\ ResultInv' /\ (Sorted(Stream) => Sorted(Stream)')
  BY HeldKept
<1>2. TypeOK'
  BY DEF IInv, TypeOK, held, Places
<1>3. CommandsInv'
  BY DEF CommandsInv, After, Reading, Sorting, Printing
<1>4. UniqInv'
  BY DEF IInv, UniqInv, held, After, Printing
<1>5. OrderKept'
  BY <1>1 DEF IInv, OrderKept
<1> QED  BY <1>1, <1>2, <1>3, <1>4, <1>5 DEF IInv

LEMMA MakePipeKeeps ==
  ASSUME IInv, MakePipe(1, "pipe1", "fork1") \/ MakePipe(2, "pipe2", "fork_uniq")
  PROVE  IInv'
<1>1. UNCHANGED held /\ UNCHANGED child
  BY DEF MakePipe, held
<1>2. CASE pc' = "ended" /\ status' = "failure"
  BY <1>1, <1>2, FailureKeeps DEF IInv, TypeOK
<1>3. ASSUME \/ pc = "pipe1" /\ pc' = "fork1"
             \/ /\ pc = "pipe2" /\ pc' = "fork_uniq"
                /\ <<"parent", 2, "w">> \in ends',
             UNCHANGED status
      PROVE  IInv'
  <2>1. LinesKept' /\ ResultInv' /\ (Sorted(Stream) => Sorted(Stream)')
    BY <1>1, HeldKept
  <2>2. TypeOK'
    BY <1>1, <1>3 DEF IInv, TypeOK, held, Places
  <2>3. CommandsInv'
    BY <1>1, <1>3 DEF IInv, CommandsInv, TypeOK, held, After, Reading, Sorting, Printing
  <2>4. UniqInv'
    BY <1>1, <1>3 DEF IInv, UniqInv, CommandsInv, held, After, Printing
  <2>5. OrderKept'
    BY <1>1, <1>3, <2>1 DEF IInv, OrderKept
  <2> QED  BY <2>1, <2>2, <2>3, <2>4, <2>5 DEF IInv
<1> QED  BY <1>2, <1>3 DEF MakePipe, Goto, ParentEnds

LEMMA ForkKeeps ==
  ASSUME IInv,
         \/ Fork("cmd1", "fork1", "fork2") \/ Fork("cmd2", "fork2", "register")
         \/ Fork("uniq", "fork_uniq", "setup_write")
  PROVE  IInv'
<1>1. UNCHANGED held
  BY DEF Fork, held
<1>2. CASE pc' = "ended" /\ status' = "failure" /\ UNCHANGED child
  BY <1>1, <1>2, FailureKeeps DEF IInv, TypeOK
<1>3. ASSUME NEW c \in Children, UNCHANGED status, ends \subseteq ends',
             child' = [child EXCEPT ![c] = "forked"],
             \/ c = "cmd1" /\ pc = "fork1" /\ pc' = "fork2"
             \/ c = "cmd2" /\ pc = "fork2" /\ pc' = "register"
             \/ c = "uniq" /\ pc = "fork_uniq" /\ pc' = "setup_write"
      PROVE  IInv'
  <2>1. LinesKept' /\ ResultInv' /\ (Sorted(Stream) => Sorted(Stream)')
    BY <1>1, HeldKept
  <2>2. TypeOK'
    BY <1>1, <1>3 DEF IInv, TypeOK, held, Places
  <2>3. /\ child'[c] = "forked"
        /\ \A d \in Children : d # c => child'[d] = child[d]
    BY <1>3 DEF IInv, TypeOK
  <2>4. CommandsInv'
    BY <1>1, <1>3, <2>3
       DEF IInv, CommandsInv, TypeOK, Children, Commands, held, After, Reading, Sorting, Printing
  <2>5. UniqInv'
    BY <1>1, <1>3, <2>3 DEF IInv, UniqInv, CommandsInv, Children, Commands, held, After, Printing
  <2>6. OrderKept'
    BY <1>1, <1>3, <2>1, <2>3 DEF IInv, OrderKept, Children, Commands
  <2> QED  BY <2>1, <2>2, <2>4, <2>5, <2>6 DEF IInv
<1>4. \A c, here, next :
        Fork(c, here, next) => \/ pc' = "ended" /\ status' = "failure" /\ UNCHANGED child
                               \/ /\ pc = here /\ pc' = next /\ UNCHANGED status /\ ends \subseteq ends'
                                  /\ child' = [child EXCEPT ![c] = "forked"]
  BY DEF Fork, Goto, ParentEnds
<1>5. "cmd1" \in Children /\ "cmd2" \in Children /\ "uniq" \in Children
  BY DEF Children, Commands
<1> QED  BY <1>2, <1>3, <1>4, <1>5

LEMMA RegisterKeeps == ASSUME IInv, Register PROVE IInv'
<1>1. pc = "register" /\ pc' = "wait_commands" /\ UNCHANGED <<status, child, ends>> /\ UNCHANGED held
  BY DEF Register, Goto, held
<1>2. LinesKept' /\ ResultInv' /\ (Sorted(Stream) => Sorted(Stream)')
  BY <1>1, HeldKept
<1>3. TypeOK'
  BY <1>1 DEF IInv, TypeOK, held, Places
<1>4. CommandsInv'
  BY <1>1 DEF IInv, CommandsInv, held, After, Reading, Sorting, Printing
<1>5. UniqInv'
  BY <1>1 DEF IInv, UniqInv, CommandsInv, held, After, Printing
<1>6. OrderKept'
  BY <1>1, <1>2 DEF IInv, OrderKept
<1> QED  BY <1>2, <1>3, <1>4, <1>5, <1>6 DEF IInv

\* Only a child that has ended well keeps the parent going.
LEMMA ReapKeeps ==
  ASSUME IInv, Reap("wait_commands") \/ Reap("wait_uniq")
  PROVE  IInv'
<1>1. PICK c \in Children :
        /\ pc \in {"wait_commands", "wait_uniq"} /\ child[c] \in {"ok", "bad"}
        /\ child' = [child EXCEPT ![c] = "reaped"] /\ UNCHANGED held
        /\ \/ child[c] = "ok" /\ UNCHANGED <<pc, status, ends>>
           \/ pc' = "ended" /\ status' = "failure"
  BY DEF Reap, ParentEnds, held
<1>2. /\ child'[c] = "reaped"
      /\ \A d \in Children : d # c => child'[d] = child[d]
      /\ child' \in [Children -> {"none", "forked", "running", "ok", "bad", "reaped"}]
  BY <1>1 DEF IInv, TypeOK
<1>3. CASE pc' = "ended" /\ status' = "failure"
  <2>1. child'["uniq"] = "none" <=> child["uniq"] = "none"
    BY <1>1, <1>2 DEF Children
  <2> QED  BY <1>1, <1>2, <1>3, <2>1, FailureKeeps
<1>4. CASE child[c] = "ok" /\ UNCHANGED <<pc, status, ends>>
  <2>1. LinesKept' /\ ResultInv' /\ (Sorted(Stream) => Sorted(Stream)')
    BY <1>1, HeldKept
  <2>2. TypeOK'
    BY <1>1, <1>2, <1>4 DEF IInv, TypeOK, held
  <2>3. CommandsInv'
    BY <1>1, <1>2, <1>4
       DEF IInv, CommandsInv, TypeOK, Children, Commands, held, After, Reading, Sorting, Printing
  <2>4. UniqInv'
    BY <1>1, <1>2, <1>4 DEF IInv, UniqInv, Children, Commands, held, After, Printing
  <2>5. OrderKept'
    BY <1>1, <1>2, <1>4, <2>1 DEF IInv, OrderKept, Children, Commands
  <2> QED  BY <2>1, <2>2, <2>3, <2>4, <2>5 DEF IInv
<1> QED  BY <1>1, <1>3, <1>4

LEMMA ResultKept ==
  ASSUME IInv, UNCHANGED <<want, passed, result>>
  PROVE  ResultInv'
<1>1. Repeated(result, passed)'
  BY DEF IInv, ResultInv, Repeated, Adjacent
<1>2. ~DifferByCase' => Increasing(result)'
  <2>1. DifferByCase => DifferByCase'
    BY DEF DifferByCase, All
  <2>2. Increasing(result) => Increasing(result)'
    BY DEF Increasing
  <2> QED  BY <2>1, <2>2 DEF IInv, ResultInv
<1> QED  BY <1>1, <1>2 DEF ResultInv

\* Both commands were started, so that none left means both reaped.
LEMMA SetupReadKeeps == ASSUME IInv, SetupRead PROVE IInv'
<1>1. /\ pc = "wait_commands" /\ pc' = "read" /\ UNCHANGED <<status, child>> /\ UNCHANGED held
      /\ \A c \in Children : child[c] \in {"none", "reaped"}
  BY DEF SetupRead, Goto, NoChildren, held
<1>2. LinesKept' /\ ResultInv' /\ (Sorted(Stream) => Sorted(Stream)')
  BY <1>1, HeldKept
<1>3. TypeOK'
  BY <1>1 DEF IInv, TypeOK, held, Places
<1>4. CommandsInv'
  BY <1>1 DEF IInv, CommandsInv, Children, Commands, held, After, Reading, Sorting, Printing
<1>5. UniqInv'
  BY <1>1 DEF IInv, UniqInv, CommandsInv, held, After, Printing
<1>6. OrderKept'
  BY <1>1, <1>2 DEF IInv, OrderKept
<1> QED  BY <1>2, <1>3, <1>4, <1>5, <1>6 DEF IInv

LEMMA ReadLineKeeps == ASSUME IInv, ReadLine PROVE IInv'
<1>1. /\ pc = "read" /\ pipe[1] # <<>>
      /\ lines' = Append(lines, Head(pipe[1])) /\ pipe' = [pipe EXCEPT ![1] = Tail(@)]
      /\ UNCHANGED <<pc, status, child, out, want, ends, passed, result>>
  BY DEF ReadLine
<1>2. pipe[1] \in Seq(Lines) /\ lines \in Seq(Lines)
  BY DEF IInv, TypeOK
<1>3. Tail(pipe[1]) \in Seq(Lines) /\ lines' \in Seq(Lines)
  BY <1>1, <1>2, BagMove
<1>4. pipe'[1] = Tail(pipe[1]) /\ pipe'[2] = pipe[2] /\ pipe' \in [{1, 2} -> Seq(Lines)]
  BY <1>1, <1>3 DEF IInv, TypeOK
<1>5. TypeOK'
  BY <1>1, <1>3, <1>4 DEF IInv, TypeOK
<1>6. CommandsInv'
  BY <1>1, <1>4 DEF IInv, CommandsInv, After, Reading, Sorting, Printing
<1>7. child["uniq"] = "none"
  BY <1>1 DEF IInv, UniqInv, Printing
<1>8. UniqInv'
  BY <1>1, <1>4, <1>7 DEF IInv, UniqInv, CommandsInv, After, Printing
<1>9. LinesKept'
  <2> SUFFICES ASSUME NEW l \in Lines
               PROVE  Bag(All, l)' = Bag(out["cmd1"], l)' + Bag(out["cmd2"], l)' + Bag(pipe[1], l)'
                                       + Bag(lines, l)' + Bag(pipe[2], l)' + Bag(passed, l)'
    BY DEF LinesKept
  <2>1. Bag(Tail(pipe[1]), l) + Bag(Append(lines, Head(pipe[1])), l) = Bag(pipe[1], l) + Bag(lines, l)
    BY <1>1, <1>2, BagMove
  <2>2. Bag(pipe[1], l)' = Bag(Tail(pipe[1]), l)
    BY <1>4 DEF Bag
  <2>3. Bag(lines, l)' = Bag(Append(lines, Head(pipe[1])), l)
    BY <1>1 DEF Bag
  <2>4. /\ Bag(All, l)' = Bag(All, l) /\ Bag(pipe[2], l)' = Bag(pipe[2], l)
        /\ Bag(out["cmd1"], l)' = Bag(out["cmd1"], l) /\ Bag(out["cmd2"], l)' = Bag(out["cmd2"], l)
        /\ Bag(passed, l)' = Bag(passed, l)
    BY <1>1, <1>4 DEF Bag, All
  <2>5. Bag(All, l) = Bag(out["cmd1"], l) + Bag(out["cmd2"], l) + Bag(pipe[1], l)
                        + Bag(lines, l) + Bag(pipe[2], l) + Bag(passed, l)
    BY DEF IInv, LinesKept
  <2>6. /\ Bag(out["cmd1"], l) \in Nat /\ Bag(out["cmd2"], l) \in Nat /\ Bag(pipe[1], l) \in Nat
        /\ Bag(lines, l) \in Nat /\ Bag(pipe[2], l) \in Nat /\ Bag(passed, l) \in Nat
        /\ Bag(Tail(pipe[1]), l) \in Nat /\ Bag(Append(lines, Head(pipe[1])), l) \in Nat
    BY <1>1, <1>3, BagNat DEF IInv, TypeOK, Commands
  <2> QED  BY <2>1, <2>2, <2>3, <2>4, <2>5, <2>6
<1>10. OrderKept'
  BY <1>1, <1>7 DEF OrderKept
<1> QED  BY <1>1, <1>5, <1>6, <1>8, <1>9, <1>10, ResultKept DEF IInv

\* qsort leaves the lines what they are, and makes the order.
LEMMA SortKeeps == ASSUME IInv, Sort PROVE IInv'
<1>1. /\ pc = "read" /\ pc' = "pipe2" /\ pipe[1] = <<>> /\ Sorted(lines')
      /\ UNCHANGED <<status, child, out, want, ends, pipe, passed, result>>
  BY DEF Sort, Goto
<1>2. PICK f \in Perms(Len(lines)) : lines' = [i \in DOMAIN lines |-> lines[f[i]]]
  BY DEF Sort
<1>3. lines \in Seq(Lines)
  BY DEF IInv, TypeOK
<1>4. lines' \in Seq(Lines) /\ \A l : Bag(lines', l) = Bag(lines, l)
  BY <1>2, <1>3, BagPermuted
<1>5. child["uniq"] = "none" /\ passed = <<>> /\ pipe[2] = <<>>
  BY <1>1 DEF IInv, UniqInv, Printing
<1>6. TypeOK'
  BY <1>1, <1>4 DEF IInv, TypeOK, Places
<1>7. CommandsInv'
  BY <1>1 DEF IInv, CommandsInv, After, Reading, Sorting, Printing
<1>8. UniqInv'
  BY <1>1, <1>5 DEF IInv, UniqInv, CommandsInv, After, Printing
<1>9. LinesKept'
  <2> SUFFICES ASSUME NEW l \in Lines
               PROVE  Bag(All, l)' = Bag(out["cmd1"], l)' + Bag(out["cmd2"], l)' + Bag(pipe[1], l)'
                                       + Bag(lines, l)' + Bag(pipe[2], l)' + Bag(passed, l)'
    BY DEF LinesKept
  <2>1. Bag(lines, l)' = Bag(lines, l)
    BY <1>4 DEF Bag
  <2>2. /\ Bag(All, l)' = Bag(All, l)
        /\ Bag(pipe[1], l)' = Bag(pipe[1], l) /\ Bag(pipe[2], l)' = Bag(pipe[2], l)
        /\ Bag(out["cmd1"], l)' = Bag(out["cmd1"], l) /\ Bag(out["cmd2"], l)' = Bag(out["cmd2"], l)
        /\ Bag(passed, l)' = Bag(passed, l)
    BY <1>1 DEF Bag, All
  <2>3. Bag(All, l) = Bag(out["cmd1"], l) + Bag(out["cmd2"], l) + Bag(pipe[1], l)
                        + Bag(lines, l) + Bag(pipe[2], l) + Bag(passed, l)
    BY DEF IInv, LinesKept
  <2> QED  BY <2>1, <2>2, <2>3
<1>10. OrderKept'
  <2>1. Stream' = lines'
    <3>1. Stream' = (<<>> \o <<>>) \o lines'
      BY <1>1, <1>5 DEF Stream
    <3>2. <<>> \o <<>> = <<>>
      OBVIOUS
    <3> QED  BY <1>4, <3>1, <3>2, ConcatEmptySeq
  <2> QED  BY <1>1, <2>1 DEF OrderKept, Sorted
<1> QED  BY <1>1, <1>6, <1>7, <1>8, <1>9, <1>10, ResultKept DEF IInv

LEMMA SetupWriteKeeps == ASSUME IInv, SetupWrite PROVE IInv'
<1>1. /\ pc = "setup_write" /\ pc' = "print" /\ UNCHANGED <<status, child>> /\ UNCHANGED held
      /\ ends' = ends \ {<<"parent", 2, "r">>}
  BY DEF SetupWrite, Goto, held
<1>2. LinesKept' /\ ResultInv' /\ (Sorted(Stream) => Sorted(Stream)')
  BY <1>1, HeldKept
<1>3. TypeOK'
  BY <1>1 DEF IInv, TypeOK, held, Places
<1>4. CommandsInv'
  BY <1>1 DEF IInv, CommandsInv, held, After, Reading, Sorting, Printing
<1>5. UniqInv'
  BY <1>1 DEF IInv, UniqInv, CommandsInv, held, After, Printing
<1>6. OrderKept'
  BY <1>1, <1>2 DEF IInv, OrderKept, UniqInv, After, Printing
<1> QED  BY <1>2, <1>3, <1>4, <1>5, <1>6 DEF IInv

LEMMA PrintLineKeeps == ASSUME IInv, PrintLine PROVE IInv'
<1>1. /\ pc = "print" /\ lines # <<>> /\ UNCHANGED <<child, out, want, passed, result>>
  BY DEF PrintLine
<1>2. CASE pc' = "ended" /\ status' = "failure" /\ UNCHANGED <<pipe, lines>>
  BY <1>1, <1>2, FailureKeeps DEF IInv, TypeOK, held
<1>3. CASE /\ pipe' = [pipe EXCEPT ![2] = Append(@, Head(lines))] /\ lines' = Tail(lines)
           /\ UNCHANGED <<pc, status, ends>>
  <2>1. pipe[2] \in Seq(Lines) /\ lines \in Seq(Lines) /\ passed \in Seq(Lines)
    BY DEF IInv, TypeOK
  <2>2. lines' \in Seq(Lines) /\ Append(pipe[2], Head(lines)) \in Seq(Lines)
    BY <1>1, <1>3, <2>1, BagMove
  <2>3. /\ pipe'[2] = Append(pipe[2], Head(lines)) /\ pipe'[1] = pipe[1]
        /\ pipe' \in [{1, 2} -> Seq(Lines)]
    BY <1>3, <2>2 DEF IInv, TypeOK
  <2>4. child["uniq"] # "none" /\ (status # "failure" => child["uniq"] \notin {"ok", "reaped"})
    BY <1>1 DEF IInv, UniqInv, CommandsInv, After, Printing
  <2>5. TypeOK'
    BY <1>1, <1>3, <2>2, <2>3 DEF IInv, TypeOK
  <2>6. CommandsInv'
    BY <1>1, <1>3, <2>3 DEF IInv, CommandsInv, After, Reading, Sorting, Printing
  <2>7. UniqInv'
    BY <1>1, <1>3, <2>4 DEF IInv, UniqInv, CommandsInv, After, Printing
  <2>8. LinesKept'
    <3> SUFFICES ASSUME NEW l \in Lines
                 PROVE  Bag(All, l)' = Bag(out["cmd1"], l)' + Bag(out["cmd2"], l)' + Bag(pipe[1], l)'
                                         + Bag(lines, l)' + Bag(pipe[2], l)' + Bag(passed, l)'
      BY DEF LinesKept
    <3>1. Bag(Tail(lines), l) + Bag(Append(pipe[2], Head(lines)), l) = Bag(lines, l) + Bag(pipe[2], l)
      BY <1>1, <2>1, BagMove
    <3>2. /\ Bag(lines, l)' = Bag(Tail(lines), l)
          /\ Bag(pipe[2], l)' = Bag(Append(pipe[2], Head(lines)), l)
      BY <1>3, <2>3 DEF Bag
    <3>3. /\ Bag(All, l)' = Bag(All, l) /\ Bag(pipe[1], l)' = Bag(pipe[1], l)
          /\ Bag(out["cmd1"], l)' = Bag(out["cmd1"], l) /\ Bag(out["cmd2"], l)' = Bag(out["cmd2"], l)
          /\ Bag(passed, l)' = Bag(passed, l)
      BY <1>1, <2>3 DEF Bag, All
    <3>4. Bag(All, l) = Bag(out["cmd1"], l) + Bag(out["cmd2"], l) + Bag(pipe[1], l)
                          + Bag(lines, l) + Bag(pipe[2], l) + Bag(passed, l)
      BY DEF IInv, LinesKept
    <3>5. /\ Bag(out["cmd1"], l) \in Nat /\ Bag(out["cmd2"], l) \in Nat /\ Bag(pipe[1], l) \in Nat
          /\ Bag(lines, l) \in Nat /\ Bag(pipe[2], l) \in Nat /\ Bag(passed, l) \in Nat
          /\ Bag(Tail(lines), l) \in Nat /\ Bag(Append(pipe[2], Head(lines)), l) \in Nat
      BY <1>3, <2>2, BagNat DEF IInv, TypeOK, Commands
    <3> QED  BY <3>1, <3>2, <3>3, <3>4, <3>5
  <2>9. OrderKept'
    <3>1. Stream' = (passed \o Append(pipe[2], Head(lines))) \o Tail(lines)
      BY <1>1, <1>3, <2>3 DEF Stream
    <3>2. (passed \o Append(pipe[2], Head(lines))) \o Tail(lines) = Stream
      BY <1>1, <2>1, ConcatMoveAfter DEF Stream
    <3>3. Sorted(Stream)
      BY <2>4 DEF IInv, OrderKept
    <3> QED  BY <3>1, <3>2, <3>3 DEF OrderKept, Sorted
  <2> QED  BY <1>1, <2>5, <2>6, <2>7, <2>8, <2>9, ResultKept DEF IInv
<1> QED  BY <1>2, <1>3 DEF PrintLine, ParentEnds

LEMMA CloseStdoutKeeps == ASSUME IInv, CloseStdout PROVE IInv'
<1>1. /\ pc = "print" /\ pc' = "wait_uniq" /\ lines = <<>>
      /\ UNCHANGED <<status, child>> /\ UNCHANGED held
  BY DEF CloseStdout, Goto, held
<1>2. LinesKept' /\ ResultInv' /\ (Sorted(Stream) => Sorted(Stream)')
  BY <1>1, HeldKept
<1>3. TypeOK'
  BY <1>1 DEF IInv, TypeOK, held, Places
<1>4. CommandsInv'
  BY <1>1 DEF IInv, CommandsInv, held, After, Reading, Sorting, Printing
<1>5. UniqInv'
  BY <1>1 DEF IInv, UniqInv, CommandsInv, held, After, Printing
<1>6. OrderKept'
  BY <1>1, <1>2 DEF IInv, OrderKept, UniqInv, After, Printing
<1> QED  BY <1>2, <1>3, <1>4, <1>5, <1>6 DEF IInv

LEMMA ReturnKeeps == ASSUME IInv, Return PROVE IInv'
<1>1. /\ pc = "wait_uniq" /\ pc' = "ended" /\ status' = "success"
      /\ UNCHANGED child /\ UNCHANGED held
      /\ \A c \in Children : child[c] \in {"none", "reaped"}
  BY DEF Return, ParentEnds, NoChildren, held
<1>2. LinesKept' /\ ResultInv' /\ (Sorted(Stream) => Sorted(Stream)')
  BY <1>1, HeldKept
<1>3. status = "none" /\ child["uniq"] = "reaped"
  BY <1>1 DEF IInv, TypeOK, UniqInv, CommandsInv, Children, After, Printing
<1>4. TypeOK'
  BY <1>1 DEF IInv, TypeOK, held, Places
<1>5. CommandsInv'
  BY <1>1, <1>3 DEF IInv, CommandsInv, Commands, held, After, Reading, Sorting, Printing
<1>6. UniqInv'
  BY <1>1, <1>3 DEF IInv, UniqInv, held, After, Printing
<1>7. OrderKept'
  BY <1>1, <1>2 DEF IInv, OrderKept
<1> QED  BY <1>2, <1>4, <1>5, <1>6, <1>7 DEF IInv

LEMMA SignalKeeps == ASSUME IInv, Signal PROVE IInv'
<1>1. /\ pc' = "ended" /\ status' = "failure" /\ UNCHANGED held
      /\ \E killed \in SUBSET Commands :
           child' = [c \in Children |-> IF c \in killed THEN "bad" ELSE child[c]]
  BY DEF Signal, held
<1>2. child' \in [Children -> {"none", "forked", "running", "ok", "bad", "reaped"}]
  BY <1>1 DEF IInv, TypeOK
<1>3. child'["uniq"] = child["uniq"]
  BY <1>1 DEF Children, Commands
<1> QED  BY <1>1, <1>2, <1>3, FailureKeeps

-----------------------------------------------------------------------------
(* The steps of the children.                                              *)

\* A child that starts, or fails; only one that has started, it is none.
LEMMA ChildKeeps ==
  ASSUME IInv, NEW c \in Children, child[c] \in {"forked", "running"},
         NEW how \in {"running", "ok", "bad"}, child' = [child EXCEPT ![c] = how],
         UNCHANGED <<pc, status>>, UNCHANGED held,
         \A e \in ends \ ends' : e[1] = c,
         c \in Commands /\ how = "ok" => out[c] = <<>>,
         c = "uniq" /\ how = "ok" => pipe[2] = <<>> /\ ~Held(2, "w")
  PROVE  IInv'
<1>1. /\ child'[c] = how
      /\ \A d \in Children : d # c => child'[d] = child[d]
      /\ child' \in [Children -> {"none", "forked", "running", "ok", "bad", "reaped"}]
  BY DEF IInv, TypeOK
<1>2. LinesKept' /\ ResultInv' /\ (Sorted(Stream) => Sorted(Stream)')
  BY HeldKept
<1>3. TypeOK'
  BY <1>1 DEF IInv, TypeOK, held
<1>4. CommandsInv'
  BY <1>1 DEF IInv, CommandsInv, Children, Commands, held, After, Reading, Sorting, Printing
<1>5. child'["uniq"] = "none" <=> child["uniq"] = "none"
  BY <1>1 DEF Children
<1>6. UniqInv'
  <2>1. ASSUME pc \in {"fork_uniq", "setup_write", "print"} PROVE <<"parent", 2, "w">> \in ends'
    <3>1. <<"parent", 2, "w">> \in ends
      BY <2>1 DEF IInv, UniqInv
    <3>2. <<"parent", 2, "w">>[1] # c
      BY DEF Children, Commands
    <3> QED  BY <3>1, <3>2
  <2>2. /\ After(Printing)' => child'["uniq"] # "none"
        /\ After({"wait_uniq"})' => lines' = <<>>
        /\ child'["uniq"] = "none" => passed' = <<>> /\ pipe'[2] = <<>> /\ result' = <<>>
        /\ child'["uniq"] # "none" => pc' \in Printing \cup {"ended"}
    BY <1>5 DEF IInv, UniqInv, held, After
  <2>3. ASSUME status # "failure", child'["uniq"] \in {"ok", "reaped"}
        PROVE  (pc = "wait_uniq" \/ status = "success") /\ pipe[2] = <<>>
    <3>1. CASE c # "uniq"
      BY <1>1, <2>3, <3>1 DEF IInv, UniqInv, Children, After
    <3>2. CASE c = "uniq"
      <4>1. pipe[2] = <<>> /\ ~Held(2, "w")
        BY <1>1, <2>3, <3>2
      <4>2. pc \notin {"setup_write", "print"}
        <5>1. <<"parent", 2, "w">> \notin ends
          BY <4>1 DEF Held
        <5> QED  BY <5>1 DEF IInv, UniqInv
      <4>3. pc \in Printing \cup {"ended"}
        BY <3>2 DEF IInv, UniqInv
      <4>4. pc = "ended" => status = "success"
        BY <2>3 DEF IInv, TypeOK, CommandsInv
      <4> QED  BY <4>1, <4>2, <4>3, <4>4 DEF Printing
    <3> QED  BY <3>1, <3>2
  <2>4. status' = "success" => child'["uniq"] = "reaped"
    BY <1>1 DEF IInv, UniqInv, Children
  <2> QED  BY <2>1, <2>2, <2>3, <2>4 DEF UniqInv, held, After
<1>7. OrderKept'
  BY <1>2, <1>5 DEF IInv, OrderKept
<1> QED  BY <1>2, <1>3, <1>4, <1>6, <1>7 DEF IInv

LEMMA ExecKeeps ==
  ASSUME IInv, NEW c \in Children, NEW closed, Exec(c, closed)
  PROVE  IInv'
<1>1. /\ child[c] = "forked" /\ UNCHANGED <<pc, status>> /\ UNCHANGED held
      /\ \E how \in {"running", "bad"} : child' = [child EXCEPT ![c] = how]
      /\ \A e \in ends \ ends' : e[1] = c
  BY DEF Exec, ChildEnds, EndsOf, held
<1> QED  BY <1>1, ChildKeeps

LEMMA CommandPrintsKeeps ==
  ASSUME IInv, NEW c \in Commands, CommandPrints(c)
  PROVE  IInv'
<1>1. /\ c \in Children /\ child[c] = "running" /\ out[c] # <<>>
      /\ UNCHANGED <<pc, status, want, lines, passed, result>>
  BY DEF CommandPrints, Children
<1>2. CASE ChildEnds(c, "bad") /\ UNCHANGED <<pipe, out>>
  <2>1. UNCHANGED held
    BY <1>1, <1>2 DEF held
  <2>2. child' = [child EXCEPT ![c] = "bad"] /\ \A e \in ends \ ends' : e[1] = c
    BY <1>2 DEF ChildEnds, EndsOf
  <2> QED  BY <1>1, <2>1, <2>2, ChildKeeps
<1>3. CASE /\ pipe' = [pipe EXCEPT ![1] = Append(@, Head(out[c]))]
           /\ out' = [out EXCEPT ![c] = Tail(@)]
           /\ UNCHANGED <<child, ends>>
  <2>1. pipe[1] \in Seq(Lines) /\ out[c] \in Seq(Lines)
    BY DEF IInv, TypeOK
  <2>2. Tail(out[c]) \in Seq(Lines) /\ Append(pipe[1], Head(out[c])) \in Seq(Lines)
    BY <1>1, <2>1, BagMove
  <2>3. /\ pipe'[1] = Append(pipe[1], Head(out[c])) /\ pipe'[2] = pipe[2]
        /\ pipe' \in [{1, 2} -> Seq(Lines)]
    BY <1>3, <2>2 DEF IInv, TypeOK
  <2>4. /\ out'[c] = Tail(out[c]) /\ \A d \in Commands : d # c => out'[d] = out[d]
        /\ out' \in [Commands -> Seq(Lines)]
    BY <1>3, <2>2 DEF IInv, TypeOK
  <2>5. TypeOK'
    BY <1>1, <1>3, <2>3, <2>4 DEF IInv, TypeOK
  <2>6. CommandsInv'
    <3>1. ~After(Reading) /\ ~After(Sorting)
      BY <1>1 DEF IInv, CommandsInv, After, Reading
    <3> QED  BY <1>1, <1>3, <2>4, <3>1 DEF IInv, CommandsInv, After
  <2>7. UniqInv'
    BY <1>1, <1>3, <2>3 DEF IInv, UniqInv, After
  <2>8. LinesKept'
    <3> SUFFICES ASSUME NEW l \in Lines
                 PROVE  Bag(All, l)' = Bag(out["cmd1"], l)' + Bag(out["cmd2"], l)' + Bag(pipe[1], l)'
                                         + Bag(lines, l)' + Bag(pipe[2], l)' + Bag(passed, l)'
      BY DEF LinesKept
    <3>1. Bag(Tail(out[c]), l) + Bag(Append(pipe[1], Head(out[c])), l) = Bag(out[c], l) + Bag(pipe[1], l)
      BY <1>1, <2>1, BagMove
    <3>2. Bag(pipe[1], l)' = Bag(Append(pipe[1], Head(out[c])), l)
      BY <2>3 DEF Bag
    <3>3. /\ Bag(All, l)' = Bag(All, l) /\ Bag(lines, l)' = Bag(lines, l)
          /\ Bag(pipe[2], l)' = Bag(pipe[2], l) /\ Bag(passed, l)' = Bag(passed, l)
      BY <1>1, <2>3 DEF Bag, All
    <3>4. \/ /\ c = "cmd1" /\ Bag(out["cmd2"], l)' = Bag(out["cmd2"], l)
             /\ Bag(out["cmd1"], l)' = Bag(Tail(out[c]), l)
          \/ /\ c = "cmd2" /\ Bag(out["cmd1"], l)' = Bag(out["cmd1"], l)
             /\ Bag(out["cmd2"], l)' = Bag(Tail(out[c]), l)
      BY <2>4 DEF Bag, Commands
    <3>5. Bag(All, l) = Bag(out["cmd1"], l) + Bag(out["cmd2"], l) + Bag(pipe[1], l)
                          + Bag(lines, l) + Bag(pipe[2], l) + Bag(passed, l)
      BY DEF IInv, LinesKept
    <3>6. /\ Bag(out["cmd1"], l) \in Nat /\ Bag(out["cmd2"], l) \in Nat /\ Bag(pipe[1], l) \in Nat
          /\ Bag(lines, l) \in Nat /\ Bag(pipe[2], l) \in Nat /\ Bag(passed, l) \in Nat
          /\ Bag(Tail(out[c]), l) \in Nat /\ Bag(Append(pipe[1], Head(out[c])), l) \in Nat
      BY <2>2, BagNat DEF IInv, TypeOK, Commands
    <3> QED  BY <3>1, <3>2, <3>3, <3>4, <3>5, <3>6
  <2>9. OrderKept'
    BY <1>1, <1>3, <2>3 DEF IInv, OrderKept, Stream, Sorted
  <2> QED  BY <1>1, <2>5, <2>6, <2>7, <2>8, <2>9, ResultKept DEF IInv
<1> QED  BY <1>2, <1>3 DEF CommandPrints

LEMMA CommandEndsKeeps ==
  ASSUME IInv, NEW c \in Commands, CommandEnds(c)
  PROVE  IInv'
<1>1. /\ c \in Children /\ c # "uniq" /\ child[c] = "running" /\ out[c] = <<>>
      /\ UNCHANGED <<pc, status>> /\ UNCHANGED held
      /\ \E how \in {"ok", "bad"} : child' = [child EXCEPT ![c] = how]
      /\ \A e \in ends \ ends' : e[1] = c
  BY DEF CommandEnds, ChildEnds, EndsOf, held, Children, Commands
<1> QED  BY <1>1, ChildKeeps

LEMMA UniqEndsKeeps == ASSUME IInv, UniqEnds PROVE IInv'
<1>1. /\ "uniq" \in Children /\ "uniq" \notin Commands /\ child["uniq"] = "running"
      /\ pipe[2] = <<>> /\ ~Held(2, "w") /\ UNCHANGED <<pc, status>> /\ UNCHANGED held
      /\ child' = [child EXCEPT !["uniq"] = "ok"]
      /\ \A e \in ends \ ends' : e[1] = "uniq"
  BY DEF UniqEnds, ChildEnds, EndsOf, held, Children, Commands
<1> QED  BY <1>1, ChildKeeps

\* Where a line is, it is one of all that the commands print.
LEMMA LinesOfAll ==
  ASSUME IInv, NEW x \in Lines, Bag(pipe[2], x) >= 1 \/ Bag(passed, x) >= 1
  PROVE  \E i \in DOMAIN All : All[i] = x
<1>1. /\ Bag(out["cmd1"], x) \in Nat /\ Bag(out["cmd2"], x) \in Nat /\ Bag(pipe[1], x) \in Nat
      /\ Bag(lines, x) \in Nat /\ Bag(pipe[2], x) \in Nat /\ Bag(passed, x) \in Nat
  BY BagNat DEF IInv, TypeOK, Commands
<1>2. Bag(All, x) = Bag(out["cmd1"], x) + Bag(out["cmd2"], x) + Bag(pipe[1], x)
                      + Bag(lines, x) + Bag(pipe[2], x) + Bag(passed, x)
  BY DEF IInv, LinesKept
<1>3. Bag(All, x) >= 1
  BY <1>1, <1>2
<1>4. All \in Seq(Lines)
  BY ConcatProperties DEF IInv, TypeOK, All, Commands
<1> QED  BY <1>3, <1>4, BagMembers

LEMMA UniqReadsKeeps == ASSUME IInv, UniqReads PROVE IInv'
<1> DEFINE x == Head(pipe[2])
           n == Len(passed)
           q == IF n > 0 /\ passed[n] = x /\ (n > 1 => passed[n - 1] # x)
                THEN Append(result, x) ELSE result
<1>1. /\ child["uniq"] = "running" /\ pipe[2] # <<>>
      /\ passed' = Append(passed, x) /\ pipe' = [pipe EXCEPT ![2] = Tail(@)] /\ result' = q
      /\ UNCHANGED <<pc, status, child, out, want, ends, lines>>
  BY DEF UniqReads
<1>2. /\ pipe[2] \in Seq(Lines) /\ passed \in Seq(Lines) /\ result \in Seq(Lines)
      /\ lines \in Seq(Lines)
  BY DEF IInv, TypeOK
<1>3. x \in Lines /\ Tail(pipe[2]) \in Seq(Lines) /\ passed' \in Seq(Lines)
  BY <1>1, <1>2, BagMove
<1>4. pipe'[2] = Tail(pipe[2]) /\ pipe'[1] = pipe[1] /\ pipe' \in [{1, 2} -> Seq(Lines)]
  BY <1>1, <1>3 DEF IInv, TypeOK
<1>5. result' \in Seq(Lines) /\ Repeated(result', passed')
  <2>1. q \in Seq(Lines) /\ Repeated(q, Append(passed, x))
    <3> HIDE DEF x
    <3> QED  BY <1>2, <1>3, RepeatedStep DEF IInv, ResultInv
  <2> QED  BY <1>1, <2>1
<1> HIDE DEF x, q
<1>6. TypeOK'
  BY <1>1, <1>3, <1>4, <1>5 DEF IInv, TypeOK
<1>7. CommandsInv'
  BY <1>1, <1>4 DEF IInv, CommandsInv, After
<1>8. UniqInv'
  BY <1>1, <1>4 DEF IInv, UniqInv, After
<1>9. LinesKept'
  <2> SUFFICES ASSUME NEW l \in Lines
               PROVE  Bag(All, l)' = Bag(out["cmd1"], l)' + Bag(out["cmd2"], l)' + Bag(pipe[1], l)'
                                       + Bag(lines, l)' + Bag(pipe[2], l)' + Bag(passed, l)'
    BY DEF LinesKept
  <2>1. Bag(Tail(pipe[2]), l) + Bag(Append(passed, x), l) = Bag(pipe[2], l) + Bag(passed, l)
    BY <1>1, <1>2, BagMove DEF x
  <2>2. Bag(pipe[2], l)' = Bag(Tail(pipe[2]), l) /\ Bag(passed, l)' = Bag(Append(passed, x), l)
    BY <1>1, <1>4 DEF Bag
  <2>3. /\ Bag(All, l)' = Bag(All, l) /\ Bag(pipe[1], l)' = Bag(pipe[1], l)
        /\ Bag(out["cmd1"], l)' = Bag(out["cmd1"], l) /\ Bag(out["cmd2"], l)' = Bag(out["cmd2"], l)
        /\ Bag(lines, l)' = Bag(lines, l)
    BY <1>1, <1>4 DEF Bag, All
  <2>4. Bag(All, l) = Bag(out["cmd1"], l) + Bag(out["cmd2"], l) + Bag(pipe[1], l)
                        + Bag(lines, l) + Bag(pipe[2], l) + Bag(passed, l)
    BY DEF IInv, LinesKept
  <2>5. /\ Bag(out["cmd1"], l) \in Nat /\ Bag(out["cmd2"], l) \in Nat /\ Bag(pipe[1], l) \in Nat
        /\ Bag(lines, l) \in Nat /\ Bag(pipe[2], l) \in Nat /\ Bag(passed, l) \in Nat
        /\ Bag(Tail(pipe[2]), l) \in Nat /\ Bag(Append(passed, x), l) \in Nat
    BY <1>1, <1>3, BagNat DEF IInv, TypeOK, Commands
  <2> QED  BY <2>1, <2>2, <2>3, <2>4, <2>5
<1>10. Append(passed, x) \o Tail(pipe[2]) = passed \o pipe[2]
  BY <1>1, <1>2, ConcatMove DEF x
<1>11. Sorted(Stream) /\ Stream' = Stream
  BY <1>1, <1>4, <1>10 DEF IInv, OrderKept, Stream
<1>12. OrderKept'
  BY <1>11 DEF OrderKept, Sorted
<1>13. ASSUME ~DifferByCase PROVE Increasing(q)
  <2>1. ASSUME NEW i \in DOMAIN passed, Rank[passed[i]] = Rank[x] PROVE passed[i] = x
    <3>1. passed[i] \in Lines
      BY <1>2, LenProperties
    <3>2. Bag(passed, passed[i]) >= 1
      BY <1>2, <3>1, BagMembers
    <3>3. Bag(pipe[2], x) >= 1
      <4>1. 1 \in DOMAIN pipe[2] /\ pipe[2][1] = x
        BY <1>1, <1>2 DEF x
      <4> QED  BY <1>2, <4>1, BagMembers
    <3>4. PICK j \in DOMAIN All : All[j] = passed[i]
      BY <3>1, <3>2, LinesOfAll
    <3>5. PICK k \in DOMAIN All : All[k] = x
      BY <1>3, <3>3, LinesOfAll
    <3> QED  BY <1>13, <2>1, <3>4, <3>5 DEF DifferByCase
  <2>2. Sorted(Append(passed, x))
    <3>1. Sorted((Append(passed, x) \o Tail(pipe[2])) \o lines)
      BY <1>10, <1>11 DEF Stream
    <3>2. Append(passed, x) \in Seq(Lines) /\ Append(passed, x) \o Tail(pipe[2]) \in Seq(Lines)
      BY <1>1, <1>3, ConcatProperties
    <3> QED  BY <1>2, <1>3, <3>1, <3>2, PrefixSorted
  <2>3. Increasing(result) /\ Repeated(result, passed)
    BY <1>13 DEF IInv, ResultInv
  <2> QED  BY <1>2, <1>3, <2>1, <2>2, <2>3, IncreasingStep DEF q
<1>14. ResultInv'
  <2>1. DifferByCase => DifferByCase'
    BY <1>1 DEF DifferByCase, All
  <2>2. ~DifferByCase' => Increasing(result)'
    BY <1>1, <1>13, <2>1 DEF Increasing
  <2>3. Repeated(result, passed)'
    BY <1>5 DEF Repeated, Adjacent
  <2> QED  BY <2>2, <2>3 DEF ResultInv
<1> QED  BY <1>6, <1>7, <1>8, <1>9, <1>12, <1>14 DEF IInv

-----------------------------------------------------------------------------
(* The theorems.                                                           *)

LEMMA InitInv == Init => IInv
<1> SUFFICES ASSUME Init PROVE IInv
  OBVIOUS
<1>1. /\ pc = "pipe1" /\ status = "none" /\ child = [c \in Children |-> "none"]
      /\ want \in [Commands -> Seq(Lines)] /\ out = want
      /\ pipe = [i \in {1, 2} |-> <<>>] /\ pipe[1] = <<>> /\ pipe[2] = <<>>
      /\ lines = <<>> /\ passed = <<>> /\ result = <<>>
      /\ "uniq" \in Children /\ \A c \in Commands : child[c] = "none"
  BY DsortAssumption DEF Init, Children
<1>2. <<>> \in Seq(Lines) /\ DOMAIN <<>> = {} /\ Len(<<>>) = 0
  BY EmptySeq
<1>3. TypeOK
  BY <1>1, <1>2 DEF TypeOK, Places
<1>4. CommandsInv /\ UniqInv /\ OrderKept
  BY <1>1 DEF CommandsInv, UniqInv, OrderKept, After, Reading, Sorting, Printing
<1>5. LinesKept
  <2> SUFFICES ASSUME NEW l \in Lines
               PROVE  Bag(All, l) = Bag(out["cmd1"], l) + Bag(out["cmd2"], l) + Bag(pipe[1], l)
                                      + Bag(lines, l) + Bag(pipe[2], l) + Bag(passed, l)
    BY DEF LinesKept
  <2>1. out["cmd1"] \in Seq(Lines) /\ out["cmd2"] \in Seq(Lines)
    BY <1>1 DEF Commands
  <2>2. Bag(All, l) = Bag(out["cmd1"], l) + Bag(out["cmd2"], l)
    BY <1>1, <2>1, BagConcat DEF All
  <2>3. Bag(pipe[1], l) = 0 /\ Bag(lines, l) = 0 /\ Bag(pipe[2], l) = 0 /\ Bag(passed, l) = 0
    BY <1>1, BagEmpty
  <2>4. Bag(out["cmd1"], l) \in Nat /\ Bag(out["cmd2"], l) \in Nat
    BY <2>1, BagNat
  <2> QED  BY <2>2, <2>3, <2>4
<1>6. ResultInv
  BY <1>1, <1>2 DEF ResultInv, Repeated, Adjacent, Increasing
<1> QED  BY <1>3, <1>4, <1>5, <1>6 DEF IInv

(***************************************************************************)
(* No line is lost, invented or printed twice, no child ends well before   *)
(* its work is done, and the lines stay in order from qsort to uniq,       *)
(* whatever fails and is killed meanwhile: IInv is an invariant of dsort.  *)
(***************************************************************************)
THEOREM InductiveInvariant == Spec => []IInv
<1>1. Init => IInv
  BY InitInv
<1>2. IInv /\ [Next]_vars => IInv'
  <2> SUFFICES ASSUME IInv, [Next]_vars PROVE IInv'
    OBVIOUS
  <2>1. CASE Parent
    BY <2>1, MakePipeKeeps, ForkKeeps, RegisterKeeps, ReapKeeps, SetupReadKeeps, ReadLineKeeps,
       SortKeeps, SetupWriteKeeps, PrintLineKeeps, CloseStdoutKeeps, ReturnKeeps DEF Parent
  <2>2. CASE Signal
    BY <2>2, SignalKeeps
  <2>3. CASE Uniq
    <3>1. "uniq" \in Children
      BY DEF Children
    <3> QED  BY <2>3, <3>1, ExecKeeps, UniqReadsKeeps, UniqEndsKeeps DEF Uniq, StartUniq
  <2>4. ASSUME NEW c \in Commands, Command(c) PROVE IInv'
    <3>1. c \in Children
      BY DEF Children
    <3> QED  BY <2>4, <3>1, ExecKeeps, CommandPrintsKeeps, CommandEndsKeeps DEF Command, StartCommand
  <2>5. CASE UNCHANGED vars
    <3>1. UNCHANGED held /\ UNCHANGED <<pc, status, child, ends>>
      BY <2>5 DEF vars, held
    <3>2. LinesKept' /\ ResultInv' /\ (Sorted(Stream) => Sorted(Stream)')
      BY <3>1, HeldKept
    <3>3. TypeOK' /\ CommandsInv' /\ UniqInv' /\ OrderKept'
      BY <3>1, <3>2 DEF IInv, TypeOK, CommandsInv, UniqInv, OrderKept, held, After
    <3> QED  BY <3>2, <3>3 DEF IInv
  <2> QED  BY <2>1, <2>2, <2>3, <2>4, <2>5 DEF Next
<1> QED  BY <1>1, <1>2, PTL DEF Spec

\* All lines have reached uniq when dsort reports success.
LEMMA AllPassed ==
  ASSUME IInv, status = "success"
  PROVE  /\ All \in Seq(Lines) /\ passed \in Seq(Lines) /\ result \in Seq(Lines)
         /\ \A l \in Lines : Bag(All, l) = Bag(passed, l)
         /\ Sorted(passed)
<1>1. /\ out["cmd1"] = <<>> /\ out["cmd2"] = <<>> /\ pipe[1] = <<>> /\ lines = <<>>
      /\ child["uniq"] # "none"
  BY DEF IInv, CommandsInv, UniqInv, Commands, After
<1>2. pipe[2] = <<>>
  BY DEF IInv, UniqInv
<1>3. All \in Seq(Lines) /\ passed \in Seq(Lines) /\ result \in Seq(Lines)
  BY ConcatProperties DEF IInv, TypeOK, All, Commands
<1>4. ASSUME NEW l \in Lines PROVE Bag(All, l) = Bag(passed, l)
  <2>1. Bag(All, l) = Bag(out["cmd1"], l) + Bag(out["cmd2"], l) + Bag(pipe[1], l)
                        + Bag(lines, l) + Bag(pipe[2], l) + Bag(passed, l)
    BY DEF IInv, LinesKept
  <2>2. /\ Bag(out["cmd1"], l) = 0 /\ Bag(out["cmd2"], l) = 0 /\ Bag(pipe[1], l) = 0
        /\ Bag(lines, l) = 0 /\ Bag(pipe[2], l) = 0
    BY <1>1, <1>2, BagEmpty
  <2>3. Bag(passed, l) \in Nat
    BY <1>3, BagNat
  <2> QED  BY <2>1, <2>2, <2>3
<1>5. Sorted(passed)
  <2>1. Sorted((passed \o <<>>) \o <<>>)
    BY <1>1, <1>2 DEF IInv, OrderKept, Stream
  <2>2. passed \o <<>> = passed
    BY <1>3, ConcatEmptySeq
  <2> QED  BY <2>1, <2>2
<1> QED  BY <1>3, <1>4, <1>5

(***************************************************************************)
(* When dsort reports success, every line it printed was printed twice by  *)
(* the commands; and unless lines differ in case only it printed each such *)
(* line, once and in order.                                                *)
(***************************************************************************)
THEOREM OutputsCorrect == Spec => []OutputCorrect
<1>1. IInv => OutputCorrect
  <2> SUFFICES ASSUME IInv, status = "success"
               PROVE  /\ Range(result) \subseteq Duplicated
                      /\ ~DifferByCase => /\ Range(result) = Duplicated
                                          /\ Increasing(result)
    BY DEF OutputCorrect, Increasing
  <2>1. /\ All \in Seq(Lines) /\ passed \in Seq(Lines) /\ result \in Seq(Lines)
        /\ \A l \in Lines : Bag(All, l) = Bag(passed, l)
        /\ Sorted(passed) /\ Repeated(result, passed)
        /\ DOMAIN passed = 1 .. Len(passed) /\ Len(passed) \in Nat
    BY AllPassed, LenProperties DEF IInv, ResultInv
  <2>2. ASSUME NEW x \in Range(result) PROVE x \in Duplicated
    <3>1. PICK i \in DOMAIN passed : Adjacent(passed, i) /\ passed[i] = x
      BY <2>1 DEF Range, Repeated
    <3>2. x \in Lines /\ i + 1 \in DOMAIN passed /\ passed[i + 1] = x /\ i < i + 1
      BY <2>1, <3>1, ElementOfSeq DEF Adjacent
    <3>3. Bag(passed, x) >= 2
      BY <2>1, <3>1, <3>2, BagMembers
    <3> QED  BY <2>1, <3>2, <3>3 DEF Duplicated
  <2>3. ASSUME ~DifferByCase, NEW x \in Duplicated PROVE x \in Range(result)
    <3>1. x \in Lines /\ Bag(passed, x) >= 2
      BY <2>1 DEF Duplicated
    <3>2. PICK i \in DOMAIN passed, j \in DOMAIN passed : i < j /\ passed[i] = x /\ passed[j] = x
      BY <2>1, <3>1, BagMembers
    <3>3. i + 1 \in DOMAIN passed /\ passed[i + 1] \in Lines
      BY <2>1, <3>2, ElementOfSeq
    <3>4. Rank[passed[i + 1]] = Rank[x]
      <4>1. i < i + 1 /\ (i + 1 < j \/ i + 1 = j)
        BY <2>1, <3>2
      <4>2. Rank[x] <= Rank[passed[i + 1]]
        BY <2>1, <3>2, <3>3, <4>1 DEF Sorted
      <4>3. Rank[passed[i + 1]] <= Rank[x]
        BY <2>1, <3>2, <3>3, <4>1, <4>2 DEF Sorted
      <4>4. Rank[x] \in Nat /\ Rank[passed[i + 1]] \in Nat
        BY <3>1, <3>3, DsortAssumption
      <4> QED  BY <4>2, <4>3, <4>4
    <3>5. passed[i + 1] = x
      <4>1. Bag(passed, x) >= 1 /\ Bag(passed, passed[i + 1]) >= 1
        BY <2>1, <3>2, <3>3, BagMembers
      <4>2. PICK k \in DOMAIN All : All[k] = x
        BY <3>1, <4>1, LinesOfAll
      <4>3. PICK m \in DOMAIN All : All[m] = passed[i + 1]
        BY <3>3, <4>1, LinesOfAll
      <4> QED  BY <2>3, <3>4, <4>2, <4>3 DEF DifferByCase
    <3>6. Adjacent(passed, i) /\ passed[i] = x
      BY <2>1, <3>2, <3>3, <3>5 DEF Adjacent
    <3> QED  BY <2>1, <3>2, <3>6 DEF Repeated, Range
  <2>4. ~DifferByCase => Increasing(result)
    BY DEF IInv, ResultInv
  <2> QED  BY <2>2, <2>3, <2>4
<1> QED  BY <1>1, InductiveInvariant, PTL

=============================================================================
