---------------------------- MODULE CListProofs ----------------------------
(***************************************************************************)
(* Proofs about the linked list, for every set of addresses, handles and   *)
(* values.                                                                 *)
(***************************************************************************)
EXTENDS CList, FiniteSetTheorems, TLAPS

(* Induction, from the well-foundedness of the natural numbers *)

\* A set of natural numbers that is not empty has a least element.
LEMMA Least ==
    ASSUME NEW T \in SUBSET Nat, T # {}
    PROVE  \E x \in T : \A y \in T : x <= y
<1> DEFINE R == {p \in Nat \X Nat : p[1] < p[2]}
<1>1. IsWellFoundedOn(R, Nat)
  BY NatLessThanWellFounded DEF OpToRel
<1>2. \A x, y \in Nat : y < x => <<y, x>> \in R
  OBVIOUS
<1> HIDE DEF R
<1>3. PICK x \in T : \A y \in T : ~ (<<y, x>> \in R)
  BY <1>1, WFMin
<1>4. ASSUME NEW y \in T PROVE x <= y
  <2>1. x \in Nat /\ y \in Nat /\ ~(y < x)
    BY <1>2, <1>3
  <2> QED
    BY <2>1
<1> QED
  BY <1>4

\* A set that holds zero and the successor of each of its numbers has them all.
LEMMA Induction ==
    ASSUME NEW P, 0 \in P, \A n \in Nat : n \in P => n + 1 \in P
    PROVE  Nat \subseteq P
<1> DEFINE T == Nat \ P
<1> SUFFICES ASSUME T # {} PROVE FALSE
  OBVIOUS
<1>1. T \in SUBSET Nat
  OBVIOUS
<1>2. PICK x \in T : \A y \in T : x <= y
  <2> HIDE DEF T
  <2> QED
    BY <1>1, Least
<1>3. x \in Nat /\ x # 0
  OBVIOUS
<1>4. x - 1 \in Nat /\ x - 1 \notin T
  BY <1>2, <1>3
<1> QED
  BY <1>2, <1>3, <1>4

-----------------------------------------------------------------------------
(* Walking along a chain *)

\* The pointer at place i of a chain of nodes, NULL outside of it.
At(s, i) == IF i \in DOMAIN s THEN s[i] ELSE Null

\* s is the chain of nodes that starts at a.
IsChain(heap, a, s) ==
    /\ s \in Seq(DOMAIN heap)
    /\ \A i, j \in DOMAIN s : s[i] = s[j] => i = j
    /\ a = At(s, 1)
    /\ \A i \in DOMAIN s : heap[s[i]].next = At(s, i + 1)

\* A chain is not longer than there are addresses.
LEMMA ChainLength ==
    ASSUME NEW heap, DOMAIN heap \subseteq Addrs, NEW a, NEW s, IsChain(heap, a, s)
    PROVE  Len(s) \in Nat /\ Cardinality(Addrs) \in Nat /\ Len(s) <= Cardinality(Addrs)
<1>1. IsFiniteSet(Addrs) /\ Cardinality(Addrs) \in Nat
  BY ListAssumption, FS_CardinalityType
<1>2. Len(s) \in Nat /\ s \in Injection(1..Len(s), Addrs)
  BY DEF IsChain, Injection, IsInjective
<1>3. Cardinality(1..Len(s)) <= Cardinality(Addrs)
  BY <1>1, <1>2, FS_Injection
<1>4. Cardinality(1..Len(s)) = Len(s)
  <2>1. 1 \in Int /\ Len(s) \in Int /\ (1 > Len(s) => Len(s) = 0)
    BY <1>2
  <2> QED
    BY <2>1, FS_Interval
<1> QED
  BY <1>1, <1>2, <1>3, <1>4

\* A walk goes through the nodes of the chain, and stays at NULL.
LEMMA WalkAlong ==
    ASSUME NEW heap, DOMAIN heap \subseteq Addrs, NEW a, NEW s, IsChain(heap, a, s)
    PROVE  Walk(heap, a) = [k \in 0..Cardinality(Addrs) |-> At(s, k + 1)]
<1> DEFINE N == Cardinality(Addrs)
           Step(p) == IF p \in DOMAIN heap THEN heap[p].next ELSE p
           Next_(w) == [k \in 0..N |-> IF k = 0 THEN a ELSE Step(w[k - 1])]
           W == [k \in 0..N |-> At(s, k + 1)]
<1>0. N \in Nat /\ Len(s) \in Nat /\ DOMAIN s = 1..Len(s)
  BY ChainLength DEF IsChain
<1>1. \A k \in Nat : Step(At(s, k + 1)) = At(s, k + 2)
  <2> SUFFICES ASSUME NEW k \in Nat PROVE Step(At(s, k + 1)) = At(s, k + 2)
    OBVIOUS
  <2>1. CASE k + 1 \in DOMAIN s
    <3>1. s[k + 1] \in DOMAIN heap /\ (k + 1) + 1 = k + 2
      BY <1>0, <2>1 DEF IsChain
    <3> QED
      BY <2>1, <3>1 DEF IsChain, At
  <2>2. CASE k + 1 \notin DOMAIN s
    <3>1. k + 2 \notin DOMAIN s /\ Null \notin DOMAIN heap
      BY <1>0, <2>2, ListAssumption
    <3> QED
      BY <2>2, <3>1 DEF At
  <2> QED
    BY <2>1, <2>2
<1>2. W = Next_(W)
  <2> SUFFICES ASSUME NEW k \in 0..N
               PROVE  W[k] = IF k = 0 THEN a ELSE Step(W[k - 1])
    OBVIOUS
  <2>1. CASE k = 0
    BY <1>0, <2>1 DEF IsChain
  <2>2. CASE k # 0
    <3>1. k - 1 \in Nat /\ k - 1 \in 0..N /\ (k - 1) + 1 = k /\ (k - 1) + 2 = k + 1
      BY <1>0, <2>2
    <3>2. W[k - 1] = At(s, (k - 1) + 1) /\ W[k] = At(s, k + 1)
      BY <3>1
    <3>3. Step(W[k - 1]) = At(s, k + 1)
      BY <1>1, <3>1, <3>2
    <3> QED
      BY <2>2, <3>2, <3>3
  <2> QED
    BY <2>1, <2>2
<1>3. ASSUME NEW w, w = Next_(w) PROVE w = W
  <2> DEFINE P == {k \in Nat : k <= N => w[k] = W[k]}
  <2>1. 0 \in P
    <3>1. 0 \in 0..N
      BY <1>0
    <3>2. w[0] = a /\ W[0] = a
      BY <1>2, <1>3, <3>1
    <3> QED
      BY <3>2
  <2>2. \A k \in Nat : k \in P => k + 1 \in P
    <3> SUFFICES ASSUME NEW k \in Nat, k \in P, k + 1 <= N PROVE w[k + 1] = W[k + 1]
      OBVIOUS
    <3>1. k + 1 \in 0..N /\ k + 1 # 0 /\ (k + 1) - 1 = k /\ k <= N
      BY <1>0
    <3>2. w[k + 1] = Step(w[k])
      BY <1>3, <3>1
    <3>3. W[k + 1] = Step(W[k])
      BY <1>2, <3>1
    <3>4. w[k] = W[k]
      BY <3>1
    <3> QED
      BY <3>2, <3>3, <3>4
  <2>3. Nat \subseteq P
    <3> HIDE DEF P
    <3> QED
      BY <2>1, <2>2, Induction
  <2>4. ASSUME NEW k \in 0..N PROVE w[k] = W[k]
    <3>1. k \in Nat /\ k <= N
      BY <1>0
    <3>2. k \in P
      BY <2>3, <3>1
    <3> QED
      BY <3>1, <3>2
  <2>5. DOMAIN w = 0..N /\ w = [k \in 0..N |-> w[k]]
    BY <1>3
  <2> QED
    BY <2>4, <2>5
<1>4. Walk(heap, a) = CHOOSE w : w = Next_(w)
  BY DEF Walk
<1> HIDE DEF W, Next_
<1>5. (CHOOSE w : w = Next_(w)) = W
  BY <1>2, <1>3
<1> QED
  BY <1>4, <1>5 DEF W

\* What the model says of a chain: its nodes, where the walk ends, and what it
\* dereferences.
LEMMA ChainIs ==
    ASSUME NEW heap, DOMAIN heap \subseteq Addrs, NEW a, NEW s, IsChain(heap, a, s)
    PROVE  /\ Chain(heap, a) = s
           /\ Walk(heap, a)[Cardinality(Addrs)] = Null
           /\ Range(Walk(heap, a)) \ {Null} = Range(s)
<1> DEFINE N == Cardinality(Addrs)
           w == Walk(heap, a)
<1>1. /\ N \in Nat /\ Len(s) \in Nat /\ Len(s) <= N
      /\ DOMAIN s = 1..Len(s) /\ s = [i \in 1..Len(s) |-> s[i]]
      /\ \A i \in 1..Len(s) : s[i] \in DOMAIN heap
  <2>1. s \in Seq(DOMAIN heap)
    BY DEF IsChain
  <2> QED
    BY <2>1, ChainLength
<1>2. w = [k \in 0..N |-> At(s, k + 1)]
  BY WalkAlong
<1> HIDE DEF w, N
<1>3. DOMAIN w = 0..N /\ \A k \in 0..N : w[k] = At(s, k + 1)
  BY <1>2
<1>4. Null \notin DOMAIN heap
  BY ListAssumption
<1>5. {k \in DOMAIN w : w[k] \in DOMAIN heap} = 0..(Len(s) - 1)
  BY <1>1, <1>3, <1>4 DEF At
<1>6. Cardinality(0..(Len(s) - 1)) = Len(s)
  <2>1. 0 \in Int /\ Len(s) - 1 \in Int /\ (0 > Len(s) - 1 => Len(s) = 0)
        /\ (Len(s) - 1) - 0 + 1 = Len(s)
    BY <1>1
  <2> QED
    BY <2>1, FS_Interval
<1>7. \A i \in 1..Len(s) : w[i - 1] = s[i]
  <2> SUFFICES ASSUME NEW i \in 1..Len(s) PROVE w[i - 1] = s[i]
    OBVIOUS
  <2>1. i - 1 \in 0..N /\ (i - 1) + 1 = i
    BY <1>1
  <2> QED
    BY <1>1, <1>3, <2>1 DEF At
<1>8. Chain(heap, a) = s
  <2>1. Chain(heap, a) = [i \in 1..Len(s) |-> w[i - 1]]
    BY <1>5, <1>6 DEF Chain, w
  <2> QED
    BY <1>1, <1>7, <2>1
<1>9. w[N] = Null
  BY <1>1, <1>3 DEF At
<1>10. Range(w) \ {Null} = Range(s)
  <2>1. ASSUME NEW i \in 1..Len(s) PROVE s[i] \in Range(w) \ {Null}
    <3>1. i - 1 \in 0..N
      BY <1>1
    <3> QED
      BY <1>1, <1>3, <1>4, <1>7, <3>1 DEF Range
  <2>2. ASSUME NEW k \in 0..N, w[k] # Null PROVE w[k] \in Range(s)
    BY <1>1, <1>3, <2>2 DEF Range, At
  <2> QED
    BY <1>1, <1>3, <2>1, <2>2 DEF Range
<1> QED
  BY <1>8, <1>9, <1>10 DEF w, N

-----------------------------------------------------------------------------
(* Chains with a node more or a node less *)

\* A function on the first numbers is a sequence.
LEMMA FunctionIsSeq ==
    ASSUME NEW D, NEW n \in Nat, NEW f \in [1..n -> D]
    PROVE  f \in Seq(D) /\ Len(f) = n
  OBVIOUS

\* The elements of a sequence with one more.
LEMMA AppendRange ==
    ASSUME NEW D, NEW s \in Seq(D), NEW a
    PROVE  Range(Append(s, a)) = Range(s) \cup {a}
<1>1. /\ Len(s) \in Nat /\ DOMAIN s = 1..Len(s) /\ DOMAIN Append(s, a) = 1..(Len(s) + 1)
      /\ \A i \in 1..Len(s) : Append(s, a)[i] = s[i]
      /\ Append(s, a)[Len(s) + 1] = a
  OBVIOUS
<1>2. 1..(Len(s) + 1) = 1..Len(s) \cup {Len(s) + 1}
  BY <1>1
<1> QED
  BY <1>1, <1>2, ZenonT(30) DEF Range

LEMMA PrependRange ==
    ASSUME NEW D, NEW s \in Seq(D), NEW a
    PROVE  Range(<<a>> \o s) = Range(s) \cup {a}
<1>1. /\ Len(s) \in Nat /\ DOMAIN s = 1..Len(s) /\ DOMAIN (<<a>> \o s) = 1..(Len(s) + 1)
      /\ \A i \in 1..Len(s) : (<<a>> \o s)[i + 1] = s[i]
      /\ (<<a>> \o s)[1] = a
  OBVIOUS
<1>2. ASSUME NEW i \in 1..(Len(s) + 1) PROVE i = 1 \/ \E j \in 1..Len(s) : i = j + 1
  <2>1. i # 1 => i - 1 \in 1..Len(s) /\ i = (i - 1) + 1
    BY <1>1
  <2> QED
    BY <2>1
<1>3. ASSUME NEW i \in DOMAIN (<<a>> \o s)
      PROVE  (<<a>> \o s)[i] \in Range(s) \cup {a}
  BY <1>1, <1>2 DEF Range
<1>4. ASSUME NEW x \in Range(s) \cup {a} PROVE x \in Range(<<a>> \o s)
  <2>1. CASE x = a
    <3>1. 1 \in DOMAIN (<<a>> \o s)
      BY <1>1
    <3> QED
      BY <1>1, <2>1, <3>1 DEF Range
  <2>2. CASE x \in Range(s)
    <3>1. PICK i \in 1..Len(s) : x = s[i]
      BY <1>1, <2>2 DEF Range
    <3>2. i + 1 \in DOMAIN (<<a>> \o s)
      BY <1>1
    <3> QED
      BY <1>1, <3>1, <3>2 DEF Range
  <2> QED
    BY <2>1, <2>2
<1> QED
  BY <1>3, <1>4 DEF Range

\* A node is linked behind the last one.
LEMMA AppendChain ==
    ASSUME NEW heap, NEW f, NEW s, IsChain(heap, f, s), NEW heap2, NEW a \in DOMAIN heap2,
           DOMAIN heap \subseteq DOMAIN heap2, a \notin DOMAIN heap,
           heap2[a].next = Null,
           \A i \in DOMAIN s :
               heap2[s[i]].next = IF i = Len(s) THEN a ELSE heap[s[i]].next
    PROVE  IsChain(heap2, IF s = <<>> THEN a ELSE f, Append(s, a))
<1> DEFINE t == Append(s, a)
           g == IF s = <<>> THEN a ELSE f
<1>1. /\ s \in Seq(DOMAIN heap) /\ Len(s) \in Nat /\ DOMAIN s = 1..Len(s)
      /\ \A i \in 1..Len(s) : s[i] \in DOMAIN heap
      /\ s = <<>> <=> Len(s) = 0
  BY DEF IsChain
<1>2. /\ t \in Seq(DOMAIN heap2) /\ Len(t) = Len(s) + 1 /\ DOMAIN t = 1..(Len(s) + 1)
      /\ \A i \in 1..Len(s) : t[i] = s[i]
      /\ t[Len(s) + 1] = a
  <2>1. s \in Seq(DOMAIN heap2)
    BY <1>1
  <2> QED
    BY <1>1, <2>1
<1> HIDE DEF t
<1>3. \A i, j \in DOMAIN t : t[i] = t[j] => i = j
  BY <1>1, <1>2 DEF IsChain
<1>4. g = At(t, 1)
  BY <1>1, <1>2 DEF IsChain, At
<1>5. ASSUME NEW i \in DOMAIN t PROVE heap2[t[i]].next = At(t, i + 1)
  <2>1. CASE i = Len(s) + 1
    BY <1>1, <1>2, <2>1 DEF At
  <2>2. CASE i = Len(s) /\ i \in 1..Len(s)
    BY <1>1, <1>2, <2>2 DEF At
  <2>3. CASE i \in 1..Len(s) /\ i # Len(s)
    <3>1. i + 1 \in 1..Len(s)
      BY <1>1, <2>3
    <3>2. heap[s[i]].next = s[i + 1]
      BY <1>1, <2>3, <3>1 DEF IsChain, At
    <3> QED
      BY <1>1, <1>2, <2>3, <3>1, <3>2 DEF At
  <2> QED
    BY <1>1, <1>2, <2>1, <2>2, <2>3
<1> QED
  BY <1>2, <1>3, <1>4, <1>5 DEF IsChain, t

\* A node is put before the first one.
LEMMA PrependChain ==
    ASSUME NEW heap, NEW f, NEW s, IsChain(heap, f, s), NEW heap2, NEW a \in DOMAIN heap2,
           DOMAIN heap \subseteq DOMAIN heap2, a \notin DOMAIN heap,
           heap2[a].next = f,
           \A i \in DOMAIN s : heap2[s[i]].next = heap[s[i]].next
    PROVE  IsChain(heap2, a, <<a>> \o s)
<1> DEFINE t == <<a>> \o s
<1>1. /\ s \in Seq(DOMAIN heap) /\ Len(s) \in Nat /\ DOMAIN s = 1..Len(s)
      /\ \A i \in 1..Len(s) : s[i] \in DOMAIN heap
  BY DEF IsChain
<1>2. /\ t \in Seq(DOMAIN heap2) /\ Len(t) = Len(s) + 1 /\ DOMAIN t = 1..(Len(s) + 1)
      /\ t[1] = a
      /\ \A i \in 2..(Len(s) + 1) : t[i] = s[i - 1]
  <2>1. s \in Seq(DOMAIN heap2) /\ <<a>> \in Seq(DOMAIN heap2) /\ Len(<<a>>) = 1
    BY <1>1
  <2> QED
    BY <1>1, <2>1
<1> HIDE DEF t
<1>3. \A i, j \in DOMAIN t : t[i] = t[j] => i = j
  <2> SUFFICES ASSUME NEW i \in DOMAIN t, NEW j \in DOMAIN t, t[i] = t[j] PROVE i = j
    OBVIOUS
  <2>1. \A k \in 2..(Len(s) + 1) : k - 1 \in 1..Len(s) /\ t[k] \in DOMAIN heap
    BY <1>1, <1>2
  <2>2. CASE i = 1 \/ j = 1
    BY <1>1, <1>2, <2>1, <2>2
  <2>3. CASE i # 1 /\ j # 1
    <3>1. i \in 2..(Len(s) + 1) /\ j \in 2..(Len(s) + 1)
      BY <1>1, <1>2, <2>3
    <3>2. i - 1 = j - 1
      BY <1>1, <1>2, <2>1, <3>1 DEF IsChain
    <3> QED
      BY <1>1, <3>1, <3>2
  <2> QED
    BY <2>2, <2>3
<1>4. a = At(t, 1)
  BY <1>1, <1>2 DEF At
<1>5. ASSUME NEW i \in DOMAIN t PROVE heap2[t[i]].next = At(t, i + 1)
  <2>1. CASE i = 1
    <3>1. 1 \in DOMAIN s <=> 2 \in DOMAIN t
      BY <1>1, <1>2
    <3> QED
      BY <1>1, <1>2, <2>1, <3>1 DEF IsChain, At
  <2>2. CASE i # 1
    <3>1. /\ i \in 2..(Len(s) + 1) /\ i - 1 \in DOMAIN s /\ (i - 1) + 1 = i
          /\ i \in DOMAIN s <=> i + 1 \in DOMAIN t
          /\ i \in DOMAIN s => t[i + 1] = s[i]
      BY <1>1, <1>2, <2>2
    <3>2. heap2[t[i]].next = At(s, i)
      BY <1>2, <3>1 DEF IsChain
    <3> QED
      BY <3>1, <3>2 DEF At
  <2> QED
    BY <2>1, <2>2
<1> QED
  BY <1>2, <1>3, <1>4, <1>5 DEF IsChain, t

\* The chain s without its node at place i.
Dropped(s, i) == [j \in 1..(Len(s) - 1) |-> IF j < i THEN s[j] ELSE s[j + 1]]

\* Its node is freed, and the pointer to it goes to the one behind it.
Unlinked(heap, s, i, heap2) ==
    /\ i \in DOMAIN s
    /\ DOMAIN heap2 = DOMAIN heap \ {s[i]}
    /\ \A j \in DOMAIN s : j # i =>
           heap2[s[j]].next = IF j = i - 1 THEN At(s, i + 1) ELSE heap[s[j]].next

HeadWithout(f, s, i) == IF i = 1 THEN At(s, 2) ELSE f

\* A node is unlinked.
LEMMA DropChain ==
    ASSUME NEW heap, NEW f, NEW s, IsChain(heap, f, s), NEW i, NEW heap2,
           Unlinked(heap, s, i, heap2)
    PROVE  /\ IsChain(heap2, HeadWithout(f, s, i), Dropped(s, i))
           /\ Range(Dropped(s, i)) = Range(s) \ {s[i]}
<1> USE DEF Unlinked
<1> DEFINE t == Dropped(s, i)
           g == HeadWithout(f, s, i)
           place(j) == IF j < i THEN j ELSE j + 1
<1>1. /\ s \in Seq(DOMAIN heap) /\ Len(s) \in Nat /\ DOMAIN s = 1..Len(s)
      /\ \A j \in 1..Len(s) : s[j] \in DOMAIN heap
      /\ i \in 1..Len(s) /\ Len(s) - 1 \in Nat
  BY DEF IsChain
<1>2. /\ DOMAIN t = 1..(Len(s) - 1)
      /\ \A j \in 1..(Len(s) - 1) :
            /\ place(j) \in 1..Len(s) /\ place(j) # i /\ t[j] = s[place(j)]
            /\ t[j] \in DOMAIN heap2
  BY <1>1 DEF Dropped, IsChain
<1>3. t \in Seq(DOMAIN heap2) /\ Len(t) = Len(s) - 1
  <2>1. t = [j \in 1..(Len(s) - 1) |-> t[j]]
    BY DEF Dropped
  <2> DEFINE m == Len(s) - 1
  <2>2. t \in [1..m -> DOMAIN heap2] /\ m \in Nat
    <3> HIDE DEF t
    <3> QED
      BY <1>1, <1>2, <2>1
  <2> HIDE DEF t, m
  <2>3. t \in Seq(DOMAIN heap2) /\ Len(t) = m
    BY <2>2, FunctionIsSeq
  <2> QED
    BY <2>3 DEF m
<1> HIDE DEF t
<1>4. \A j, k \in DOMAIN t : t[j] = t[k] => j = k
  <2> SUFFICES ASSUME NEW j \in DOMAIN t, NEW k \in DOMAIN t, t[j] = t[k] PROVE j = k
    OBVIOUS
  <2>1. place(j) = place(k)
    BY <1>1, <1>2 DEF IsChain
  <2> QED
    BY <1>1, <1>2, <2>1
<1>5. g = At(t, 1)
  <2>1. f = At(s, 1)
    BY DEF IsChain
  <2> QED
    BY <1>1, <1>2, <2>1 DEF At, HeadWithout
<1>6. ASSUME NEW j \in DOMAIN t PROVE heap2[t[j]].next = At(t, j + 1)
  <2>1. /\ place(j) \in DOMAIN s /\ place(j) # i /\ t[j] = s[place(j)]
        /\ heap[s[place(j)]].next = At(s, place(j) + 1)
    BY <1>1, <1>2 DEF IsChain
  <2>2. CASE place(j) = i - 1
    <3>1. j = i - 1 /\ heap2[t[j]].next = At(s, i + 1)
      BY <1>1, <1>2, <2>1, <2>2
    <3>2. j + 1 \in DOMAIN t <=> i + 1 \in DOMAIN s
      BY <1>1, <1>2, <3>1
    <3>3. j + 1 \in DOMAIN t => t[j + 1] = s[i + 1]
      BY <1>1, <1>2, <3>1
    <3> QED
      BY <3>1, <3>2, <3>3 DEF At
  <2>3. CASE place(j) # i - 1
    <3>1. heap2[t[j]].next = At(s, place(j) + 1)
      BY <1>1, <1>2, <2>1, <2>3
    <3>2. j + 1 \in DOMAIN t <=> place(j) + 1 \in DOMAIN s
      BY <1>1, <1>2, <2>3
    <3>3. j + 1 \in DOMAIN t => t[j + 1] = s[place(j) + 1]
      BY <1>1, <1>2, <2>3
    <3> QED
      BY <3>1, <3>2, <3>3 DEF At
  <2> QED
    BY <2>2, <2>3
<1>7. Range(t) = Range(s) \ {s[i]}
  <2>1. ASSUME NEW j \in DOMAIN t PROVE t[j] \in Range(s) \ {s[i]}
    BY <1>1, <1>2 DEF IsChain, Range
  <2>2. ASSUME NEW k \in DOMAIN s, k # i PROVE s[k] \in Range(t)
    <3> DEFINE j == IF k < i THEN k ELSE k - 1
    <3>1. j \in DOMAIN t /\ place(j) = k
      BY <1>1, <1>2, <2>2
    <3> QED
      BY <1>2, <3>1 DEF Range
  <2> QED
    BY <2>1, <2>2 DEF Range
<1> QED
  BY <1>3, <1>4, <1>5, <1>6, <1>7 DEF IsChain, t

-----------------------------------------------------------------------------
(* The lists of a heap *)

\* Every node is on one list: seqs has the chain of nodes of each handle.
Layout(heap, heads, seqs) ==
    /\ DOMAIN heap \subseteq Addrs
    /\ heads \in [Handles -> Ptr \cup {Absent}] /\ seqs \in [Handles -> Seq(Addrs)]
    /\ \A h \in Handles : IF heads[h] = Absent THEN seqs[h] = <<>>
                                               ELSE IsChain(heap, heads[h], seqs[h])
    /\ \A h, g \in Handles : h # g => Range(seqs[h]) \cap Range(seqs[g]) = {}
    /\ DOMAIN heap = UNION {Range(seqs[h]) : h \in Handles}

\* From one heap to the other the chain old becomes s, starting at p: it is made
\* of nodes of old and of new ones, and the other nodes are left alone.
Local(heap, old, heap2, p, s) ==
    /\ DOMAIN heap2 \subseteq Addrs
    /\ IF p = Absent THEN s = <<>> ELSE IsChain(heap2, p, s)
    /\ DOMAIN heap2 = (DOMAIN heap \ Range(old)) \cup Range(s)
    /\ Range(s) \cap (DOMAIN heap \ Range(old)) = {}
    /\ \A x \in DOMAIN heap \ Range(old) : heap2[x] = heap[x]

\* f with another value for h.
Updated(f, h, x) == [f EXCEPT ![h] = x]

\* The chain s is not touched between the two heaps.
Untouched(heap, heap2, s) ==
    \A i \in DOMAIN s : s[i] \in DOMAIN heap2 /\ heap2[s[i]] = heap[s[i]]

\* Such a change to the list of one handle keeps the layout.
LEMMA LocalChange ==
    ASSUME NEW heap, NEW heads, NEW seqs, Layout(heap, heads, seqs),
           NEW h \in Handles, NEW heap2, NEW p, NEW s,
           Local(heap, seqs[h], heap2, p, s)
    PROVE  /\ Layout(heap2, Updated(heads, h, p), Updated(seqs, h, s))
           /\ \A g \in Handles \ {h} : Untouched(heap, heap2, seqs[g])
<1> USE DEF Local
<1> DEFINE heads2 == [heads EXCEPT ![h] = p]
           seqs2 == [seqs EXCEPT ![h] = s]
<1>0. /\ p \in Ptr \cup {Absent} /\ s \in Seq(Addrs)
      /\ heads \in [Handles -> Ptr \cup {Absent}] /\ seqs \in [Handles -> Seq(Addrs)]
  <2>1. CASE p = Absent
    BY <2>1 DEF Layout
  <2>2. CASE p # Absent
    BY <2>2 DEF Layout, IsChain, At, Ptr
  <2> QED
    BY <2>1, <2>2
<1>1. /\ heads2 \in [Handles -> Ptr \cup {Absent}] /\ seqs2 \in [Handles -> Seq(Addrs)]
      /\ heads2[h] = p /\ seqs2[h] = s
      /\ \A g \in Handles \ {h} : heads2[g] = heads[g] /\ seqs2[g] = seqs[g]
  BY <1>0
<1> HIDE DEF heads2, seqs2
<1>2. ASSUME NEW g \in Handles \ {h}, NEW i \in DOMAIN seqs[g]
      PROVE  /\ seqs[g][i] \in DOMAIN heap \ Range(seqs[h])
             /\ seqs[g][i] \in DOMAIN heap2 /\ heap2[seqs[g][i]] = heap[seqs[g][i]]
  <2>1. seqs[g][i] \in Range(seqs[g])
    BY DEF Range
  <2>2. seqs[g][i] \in DOMAIN heap \ Range(seqs[h])
    BY <2>1 DEF Layout
  <2> QED
    BY <2>2
<1>3. ASSUME NEW g \in Handles
      PROVE  IF heads2[g] = Absent THEN seqs2[g] = <<>>
                                   ELSE IsChain(heap2, heads2[g], seqs2[g])
  <2>1. CASE g = h
    BY <1>1, <2>1
  <2>2. CASE g # h
    <3>1. IF heads[g] = Absent THEN seqs[g] = <<>> ELSE IsChain(heap, heads[g], seqs[g])
      BY DEF Layout
    <3>2. ASSUME IsChain(heap, heads[g], seqs[g]) PROVE IsChain(heap2, heads[g], seqs[g])
      <4>1. seqs[g] \in Seq(DOMAIN heap2)
        BY <1>2, <2>2, <3>2 DEF IsChain
      <4> QED
        BY <1>2, <2>2, <3>2, <4>1 DEF IsChain
    <3> QED
      BY <1>1, <2>2, <3>1, <3>2
  <2> QED
    BY <2>1, <2>2
<1>4. ASSUME NEW g \in Handles, NEW f \in Handles, g # f
      PROVE  Range(seqs2[g]) \cap Range(seqs2[f]) = {}
  <2>1. ASSUME NEW k \in Handles \ {h}
        PROVE  Range(seqs[k]) \subseteq DOMAIN heap \ Range(seqs[h])
    BY <1>2 DEF Range
  <2>2. CASE g = h
    BY <1>1, <1>4, <2>1, <2>2
  <2>3. CASE f = h
    BY <1>1, <1>4, <2>1, <2>3
  <2>4. CASE g # h /\ f # h
    BY <1>1, <1>4, <2>4 DEF Layout
  <2> QED
    BY <2>2, <2>3, <2>4
<1>5. DOMAIN heap2 = UNION {Range(seqs2[g]) : g \in Handles}
  <2>1. ASSUME NEW x \in DOMAIN heap2 PROVE \E g \in Handles : x \in Range(seqs2[g])
    <3>1. CASE x \in Range(s)
      BY <1>1, <3>1
    <3>2. CASE x \in DOMAIN heap \ Range(seqs[h])
      <4>1. PICK g \in Handles : x \in Range(seqs[g])
        BY <3>2 DEF Layout
      <4> QED
        BY <1>1, <3>2, <4>1
    <3> QED
      BY <3>1, <3>2
  <2>2. ASSUME NEW g \in Handles, NEW x \in Range(seqs2[g]) PROVE x \in DOMAIN heap2
    <3>1. CASE g = h
      BY <1>1, <3>1
    <3>2. CASE g # h
      <4>1. x \in Range(seqs[g])
        BY <1>1, <2>2, <3>2
      <4>2. PICK i \in DOMAIN seqs[g] : x = seqs[g][i]
        BY <4>1 DEF Range
      <4> QED
        BY <1>2, <3>2, <4>2
    <3> QED
      BY <3>1, <3>2
  <2> QED
    BY <2>1, <2>2
<1>6. Layout(heap2, heads2, seqs2)
  BY <1>1, <1>3, <1>4, <1>5 DEF Layout
<1> QED
  BY <1>2, <1>6 DEF heads2, seqs2, Updated, Untouched

\* The chains of a layout are the lists of the heap.
LEMMA LayoutChains ==
    ASSUME NEW heap, NEW heads, NEW seqs, Layout(heap, heads, seqs)
    PROVE  seqs = [h \in Handles |-> IF heads[h] = Absent THEN <<>>
                                     ELSE Chain(heap, heads[h])]
<1>1. ASSUME NEW h \in Handles, heads[h] # Absent PROVE seqs[h] = Chain(heap, heads[h])
  BY <1>1, ChainIs DEF Layout
<1>2. seqs \in [Handles -> Seq(Addrs)]
  BY DEF Layout
<1>3. seqs = [h \in Handles |-> seqs[h]]
  BY <1>2
<1> QED
  BY <1>1, <1>3 DEF Layout

-----------------------------------------------------------------------------
(* Writing to the heap *)

\* Writing next_node of a node changes nothing else.
LEMMA LinkNext ==
    ASSUME NEW D \in SUBSET Addrs, NEW heap \in [D -> Node], NEW a \in D, NEW to \in Ptr
    PROVE  LET new == Linked(heap, a, "next", to) IN
           /\ new \in [D -> Node]
           /\ new[a].next = to /\ new[a].val = heap[a].val /\ new[a].prev = heap[a].prev
           /\ \A x \in D \ {a} : new[x] = heap[x]
<1>1. a # Null
  BY ListAssumption
<1>2. Linked(heap, a, "next", to) = [heap EXCEPT ![a] = [heap[a] EXCEPT !.next = to]]
  BY <1>1 DEF Linked
<1>3. heap[a] \in Node
  OBVIOUS
<1>4. [heap[a] EXCEPT !.next = to] \in Node
  BY <1>3 DEF Node
<1>5. LET n == [heap[a] EXCEPT !.next = to]
      IN  n.next = to /\ n.val = heap[a].val /\ n.prev = heap[a].prev
  BY <1>3 DEF Node
<1> QED
  BY <1>2, <1>4, <1>5

\* Writing prev_node of a node changes nothing else.
LEMMA LinkPrev ==
    ASSUME NEW D \in SUBSET Addrs, NEW heap \in [D -> Node], NEW a \in D, NEW to \in Ptr
    PROVE  LET new == Linked(heap, a, "prev", to) IN
           /\ new \in [D -> Node]
           /\ new[a].prev = to /\ new[a].val = heap[a].val /\ new[a].next = heap[a].next
           /\ \A x \in D \ {a} : new[x] = heap[x]
<1>1. a # Null
  BY ListAssumption
<1>2. Linked(heap, a, "prev", to) = [heap EXCEPT ![a] = [heap[a] EXCEPT !.prev = to]]
  BY <1>1 DEF Linked
<1>3. heap[a] \in Node
  OBVIOUS
<1>4. [heap[a] EXCEPT !.prev = to] \in Node
  BY <1>3 DEF Node
<1>5. LET n == [heap[a] EXCEPT !.prev = to]
      IN  n.prev = to /\ n.val = heap[a].val /\ n.next = heap[a].next
  BY <1>3 DEF Node
<1> QED
  BY <1>2, <1>4, <1>5

\* Nothing is written through NULL.
LEMMA LinkNull ==
    ASSUME NEW heap, NEW field, NEW to
    PROVE  Linked(heap, Null, field, to) = heap
  BY DEF Linked

-----------------------------------------------------------------------------
(* The inductive invariant *)

\* The chain of each handle, empty when there is no list.
Seqs == [h \in Handles |-> IF first[h] = Absent THEN <<>> ELSE List(h)]

WellLinked == Layout(node, first, Seqs)

Backed(heap, s) == \A i \in DOMAIN s : heap[s[i]].prev = At(s, i - 1)

IInv ==
    /\ TypeOK /\ MemorySafe /\ WellLinked
    /\ "remove" \in used => \A h \in Handles : Backed(node, Seqs[h])

\* The invariant gives what the runs check.
LEMMA IInvImplies == IInv => TypeOK /\ MemorySafe /\ NoNodeLost /\ BackLinks
<1> SUFFICES ASSUME IInv PROVE NoNodeLost /\ BackLinks
  BY DEF IInv
<1>1. /\ \A h \in Exist : h \in Handles /\ Seqs[h] = List(h) /\ first[h] # Absent
      /\ \A h \in Handles \ Exist : Seqs[h] = <<>>
  BY DEF Exist, Seqs
<1>2. Layout(node, first, Seqs)
  BY DEF IInv, WellLinked
<1>3. ASSUME NEW h \in Exist PROVE Walk(node, first[h])[Cardinality(Addrs)] = Null
  <2>1. IsChain(node, first[h], Seqs[h]) /\ DOMAIN node \subseteq Addrs
    BY <1>1, <1>2 DEF Layout
  <2> QED
    BY <2>1, ChainIs
<1>4. ASSUME NEW h \in Exist, NEW g \in Exist, h # g
      PROVE  Range(List(h)) \cap Range(List(g)) = {}
  BY <1>1, <1>2, <1>4 DEF Layout
<1>5. Live = UNION {Range(List(h)) : h \in Exist}
  <2>1. Live = UNION {Range(Seqs[h]) : h \in Handles}
    BY <1>2 DEF Layout, Live
  <2>2. \A h \in Handles \ Exist : Range(Seqs[h]) = {}
    BY <1>1 DEF Range
  <2> HIDE DEF Seqs
  <2> QED
    BY <1>1, <2>1, <2>2
<1>6. BackLinks
  <2> SUFFICES ASSUME "remove" \in used, NEW h \in Exist, NEW i \in DOMAIN List(h)
               PROVE  node[List(h)[i]].prev = IF i = 1 THEN Null ELSE List(h)[i - 1]
    BY DEF BackLinks
  <2>1. IsChain(node, first[h], List(h)) /\ Backed(node, List(h))
    BY <1>1, <1>2 DEF Layout, IInv
  <2>2. List(h) \in Seq(DOMAIN node)
    BY <2>1 DEF IsChain
  <2>3. i \in Nat /\ (i # 1 => i - 1 \in DOMAIN List(h)) /\ (i = 1 => i - 1 \notin DOMAIN List(h))
    BY <2>2
  <2> QED
    BY <2>1, <2>3 DEF Backed, At
<1> QED
  BY <1>3, <1>4, <1>5, <1>6 DEF NoNodeLost

\* The parts of the invariant about a list that exists.
LEMMA ListFacts ==
    ASSUME IInv, NEW h \in Handles, first[h] # Absent
    PROVE  /\ Seqs[h] = List(h) /\ IsChain(node, first[h], List(h))
           /\ List(h) \in Seq(Live) /\ Range(List(h)) \subseteq Live
           /\ Walked(h) = Range(List(h))
           /\ first[h] = Null <=> List(h) = <<>>
           /\ LastNode(h) = At(List(h), Len(List(h)))
<1> DEFINE s == List(h)
<1>1. Layout(node, first, Seqs) /\ Seqs[h] = s
  BY DEF IInv, WellLinked, Seqs
<1>2. IsChain(node, first[h], s) /\ DOMAIN node \subseteq Addrs
  BY <1>1 DEF Layout
<1> HIDE DEF s
<1>3. /\ s \in Seq(Live) /\ Len(s) \in Nat /\ DOMAIN s = 1..Len(s)
      /\ \A i \in 1..Len(s) : s[i] \in Live
  BY <1>2 DEF IsChain, Live
<1>4. Null \notin Live
  BY <1>2, ListAssumption DEF Live
<1>5. first[h] = Null <=> s = <<>>
  <2>1. CASE s = <<>>
    BY <1>2, <2>1 DEF IsChain, At
  <2>2. CASE s # <<>>
    <3>1. 1 \in DOMAIN s
      BY <1>3, <2>2
    <3> QED
      BY <1>2, <1>3, <1>4, <2>2, <3>1 DEF IsChain, At
  <2> QED
    BY <2>1, <2>2
<1>6. LastNode(h) = At(s, Len(s))
  <2>1. CASE s = <<>>
    BY <1>5, <2>1 DEF LastNode, At
  <2>2. CASE s # <<>>
    <3>1. Len(s) \in DOMAIN s
      BY <1>3, <2>2
    <3> QED
      BY <1>5, <2>2, <3>1 DEF LastNode, At, s
  <2> QED
    BY <2>1, <2>2
<1>7. Walked(h) = Range(s)
  BY <1>2, ChainIs DEF Walked
<1>8. Range(s) \subseteq Live
  BY <1>3 DEF Range
<1> QED
  BY <1>1, <1>2, <1>3, <1>5, <1>6, <1>7, <1>8 DEF s

\* The chain of h becomes s, and nothing else changes.
Becomes(h, s) ==
    /\ first' = [first EXCEPT ![h] = first'[h]]
    /\ node' \in [DOMAIN node' -> Node]
    /\ Local(node, Seqs[h], node', first'[h], s)

\* Then the lists are linked again, and only that of h has changed.
LEMMA BecomesLinked ==
    ASSUME IInv, NEW h \in Handles, NEW s, Becomes(h, s)
    PROVE  /\ WellLinked' /\ Seqs' = Updated(Seqs, h, s)
           /\ \A g \in Handles \ {h} : Untouched(node, node', Seqs[g])
<1> DEFINE p == first'[h]
           seqs2 == Updated(Seqs, h, s)
<1>1. Layout(node, first, Seqs)
  BY DEF IInv, WellLinked
<1>2. /\ Layout(node', Updated(first, h, p), seqs2)
      /\ \A g \in Handles \ {h} : Untouched(node, node', Seqs[g])
  <2>1. Local(node, Seqs[h], node', p, s)
    BY DEF Becomes
  <2> HIDE DEF p
  <2> QED
    BY <1>1, <2>1, LocalChange
<1>3. first' = Updated(first, h, p)
  BY DEF Becomes, Updated
<1>4. Layout(node', first', seqs2)
  BY <1>2, <1>3
<1>5. Seqs' = seqs2
  <2> HIDE DEF seqs2
  <2>1. seqs2 = [g \in Handles |-> IF first'[g] = Absent THEN <<>>
                                   ELSE Chain(node', first'[g])]
    BY <1>4, LayoutChains
  <2> QED
    BY <2>1 DEF Seqs, List
<1> QED
  BY <1>2, <1>4, <1>5 DEF WellLinked

\* A step that leaves the nodes and the lists alone.
LEMMA KeptLinked ==
    ASSUME IInv, UNCHANGED <<node, first>>
    PROVE  WellLinked' /\ Seqs' = Seqs
  BY DEF IInv, WellLinked, Seqs, List

\* The invariant holds after a step that makes a list another, or none.
LEMMA Preserved ==
    ASSUME IInv,
           \/ UNCHANGED <<node, first>>
           \/ \E h \in Handles : \E s :
                 Becomes(h, s) /\ ("remove" \in used => Backed(node', s)),
           reply' \in [op: AllCalls, err: {"OK", "EMPTY", "NOT_FOUND", "ALLOCERR"},
                       val: Vals \cup {NoVal}],
           used' = used, undefined' = FALSE, aborted' \in BOOLEAN
    PROVE  IInv'
<1>1. CASE UNCHANGED <<node, first>>
  BY <1>1, KeptLinked DEF IInv, TypeOK, MemorySafe, Live, Backed
<1>2. CASE \E h \in Handles : \E s : Becomes(h, s) /\ ("remove" \in used => Backed(node', s))
  <2>0. PICK h \in Handles : \E s : Becomes(h, s) /\ ("remove" \in used => Backed(node', s))
    BY <1>2
  <2>1. PICK s : Becomes(h, s) /\ ("remove" \in used => Backed(node', s))
    BY <2>0
  <2>2. /\ WellLinked' /\ Seqs' = Updated(Seqs, h, s)
        /\ \A g \in Handles \ {h} : Untouched(node, node', Seqs[g])
    BY <2>1, BecomesLinked
  <2>3. TypeOK'
    <3>1. (Live \subseteq Addrs /\ node \in [Live -> Node])'
      BY <2>1 DEF Becomes, Local, Live
    <3>2. first' \in [Handles -> Ptr \cup {Absent}]
      BY <2>2 DEF WellLinked, Layout
    <3>3. (used \in Profiles /\ undefined \in BOOLEAN /\ aborted \in BOOLEAN)'
      BY DEF IInv, TypeOK
    <3> QED
      BY <3>1, <3>2, <3>3 DEF TypeOK
  <2>4. ASSUME "remove" \in used, NEW g \in Handles PROVE Backed(node', Seqs'[g])
    <3>1. Backed(node, Seqs[g]) /\ DOMAIN Seqs = Handles
      BY <2>4 DEF IInv, Seqs
    <3>2. CASE g = h
      BY <2>1, <2>2, <2>4, <3>1, <3>2 DEF Updated
    <3>3. CASE g # h
      BY <2>2, <3>1, <3>3 DEF Backed, Updated, Untouched
    <3> QED
      BY <3>2, <3>3
  <2> QED
    BY <2>2, <2>3, <2>4 DEF IInv, MemorySafe
<1> QED
  BY <1>1, <1>2

-----------------------------------------------------------------------------
(* What each operation makes of the lists *)

\* The nodes of s keep their values, the i-th apart.
Kept(heap, heap2, s, i) ==
    \A j \in DOMAIN s : j # i => heap2[s[j]].val = heap[s[j]].val

\* A new node at a free address.
LEMMA AllocateAt ==
    ASSUME TypeOK, NEW a \in Fresh, NEW n \in Node
    PROVE  LET heap == Allocate(a, n) IN
           /\ Live \cup {a} \subseteq Addrs /\ heap \in [Live \cup {a} -> Node]
           /\ heap[a] = n /\ \A x \in Live : heap[x] = node[x]
           /\ a \notin Live /\ a \in Addrs
  BY DEF Allocate, Fresh, TypeOK

\* clist_gen_new() makes an empty list.
LEMMA NewEffect ==
    ASSUME IInv, NEW h \in Handles, first[h] = Absent,
           first' = [first EXCEPT ![h] = Null], node' = node
    PROVE  Becomes(h, <<>>) /\ first'[h] = Null
<1>1. Seqs[h] = <<>> /\ first'[h] = Null /\ Null # Absent
  BY ListAssumption DEF Seqs, IInv, TypeOK
<1>2. IsChain(node', Null, <<>>)
  BY DEF IsChain, At
<1>3. Range(<<>>) = {}
  BY DEF Range
<1> QED
  BY <1>1, <1>2, <1>3 DEF Becomes, Local, IInv, TypeOK, Live

\* clist_gen_free() frees the nodes of the list.
LEMMA FreeEffect ==
    ASSUME IInv, NEW h \in Handles, first[h] # Absent,
           node' = Restrict(node, Live \ Range(List(h))),
           first' = [first EXCEPT ![h] = Absent]
    PROVE  Becomes(h, <<>>) /\ first'[h] = Absent
<1>1. Seqs[h] = List(h) /\ first'[h] = Absent
  BY ListFacts DEF IInv, TypeOK
<1>2. /\ DOMAIN node' = Live \ Range(List(h))
      /\ \A x \in Live \ Range(List(h)) : node'[x] = node[x]
      /\ node' \in [DOMAIN node' -> Node]
  BY DEF Restrict, IInv, TypeOK
<1>3. Range(<<>>) = {}
  BY DEF Range
<1> QED
  BY <1>1, <1>2, <1>3 DEF Becomes, Local, IInv, TypeOK, Live

\* clist_gen_push_back() adds the node behind the others.
LEMMA PushBackEffect ==
    ASSUME IInv, NEW h \in Handles, first[h] # Absent, NEW v \in Vals, NEW a \in Fresh,
           node' = Linked(Allocate(a, [val |-> v, prev |-> LastNode(h), next |-> Null]),
                          LastNode(h), "next", a),
           first' = IF first[h] = Null THEN [first EXCEPT ![h] = a] ELSE first
    PROVE  LET s == List(h) IN
           /\ Becomes(h, Append(s, a)) /\ first'[h] # Absent /\ s \in Seq(Live)
           /\ Backed(node, s) => Backed(node', Append(s, a))
           /\ Kept(node, node', s, 0)
           /\ node'[a].val = v
<1> DEFINE s == List(h)
           last == At(s, Len(s))
           n == [val |-> v, prev |-> last, next |-> Null]
           heap == Allocate(a, n)
           D == Live \cup {a}
<1>1. /\ Seqs[h] = s /\ IsChain(node, first[h], s) /\ s \in Seq(Live)
      /\ Range(s) \subseteq Live
      /\ first[h] = Null <=> s = <<>>
      /\ LastNode(h) = last
  BY ListFacts
<1> HIDE DEF s
<1>2. /\ Len(s) \in Nat /\ DOMAIN s = 1..Len(s) /\ \A i \in 1..Len(s) : s[i] \in Live
      /\ s = <<>> <=> Len(s) = 0
  BY <1>1
<1>3. n \in Node
  BY <1>2 DEF Node, Ptr, At, IInv, TypeOK
<1>4. /\ D \subseteq Addrs /\ heap \in [D -> Node] /\ heap[a] = n
      /\ \A x \in Live : heap[x] = node[x]
      /\ a \notin Live /\ a \in Addrs
  BY <1>3, AllocateAt DEF IInv
<1> HIDE DEF heap, n
<1>5. node' = Linked(heap, last, "next", a)
  BY <1>1 DEF heap, n
<1>6. /\ node' \in [D -> Node]
      /\ node'[a] = n
      /\ \A x \in Live : /\ node'[x].val = node[x].val /\ node'[x].prev = node[x].prev
                         /\ node'[x].next = IF x = last THEN a ELSE node[x].next
                         /\ x # last => node'[x] = node[x]
  <2>1. CASE s = <<>>
    <3>1. last = Null /\ Null \notin Live
      BY <1>2, <1>4, <2>1, ListAssumption DEF At
    <3> QED
      BY <1>4, <1>5, <3>1, LinkNull
  <2>2. CASE s # <<>>
    <3>1. last \in Live /\ last = s[Len(s)] /\ last # a
      BY <1>2, <1>4, <2>2 DEF At
    <3>2. a \in Ptr /\ last \in D /\ D \in SUBSET Addrs
      BY <1>4, <3>1 DEF Ptr
    <3> HIDE DEF D, last
    <3>3. /\ node' \in [D -> Node]
          /\ node'[last].next = a /\ node'[last].val = heap[last].val
          /\ node'[last].prev = heap[last].prev
          /\ \A x \in D \ {last} : node'[x] = heap[x]
      BY <1>4, <1>5, <3>2, LinkNext
    <3> QED
      BY <1>4, <3>1, <3>3 DEF D
  <2> QED
    BY <2>1, <2>2
<1>7. n.val = v /\ n.next = Null /\ n.prev = last
  BY DEF n
<1>8. \A i \in DOMAIN s : s[i] = last <=> i = Len(s)
  BY <1>1, <1>2 DEF IsChain, At
<1>9. IsChain(node', IF s = <<>> THEN a ELSE first[h], Append(s, a))
  <2>1. /\ a \in DOMAIN node' /\ DOMAIN node \subseteq DOMAIN node' /\ a \notin DOMAIN node
        /\ node'[a].next = Null
        /\ \A i \in DOMAIN s :
               node'[s[i]].next = IF i = Len(s) THEN a ELSE node[s[i]].next
    BY <1>2, <1>4, <1>6, <1>7, <1>8 DEF Live
  <2> QED
    BY <1>1, <2>1, AppendChain
<1>10. /\ first' = [first EXCEPT ![h] = first'[h]]
       /\ first'[h] = IF s = <<>> THEN a ELSE first[h]
       /\ first'[h] # Absent
  BY <1>1, <1>4, ListAssumption DEF IInv, TypeOK
<1>11. Range(Append(s, a)) = Range(s) \cup {a}
  BY <1>1, AppendRange
<1>12. Local(node, s, node', first'[h], Append(s, a))
  <2>1. DOMAIN node' = (DOMAIN node \ Range(s)) \cup (Range(s) \cup {a})
    BY <1>1, <1>6 DEF Live
  <2>2. \A x \in DOMAIN node \ Range(s) : node'[x] = node[x]
    <3>1. ASSUME NEW x \in Live \ Range(s) PROVE x # last
      BY <1>2, <1>4, ListAssumption DEF Range, At
    <3> QED
      BY <1>6, <3>1 DEF Live
  <2> QED
    BY <1>4, <1>6, <1>9, <1>10, <1>11, <2>1, <2>2 DEF Local, Live
<1>13. Becomes(h, Append(s, a))
  BY <1>1, <1>6, <1>10, <1>12 DEF Becomes
<1>14. ASSUME Backed(node, s) PROVE Backed(node', Append(s, a))
  <2> SUFFICES ASSUME NEW i \in 1..(Len(s) + 1)
               PROVE  node'[Append(s, a)[i]].prev = At(Append(s, a), i - 1)
    BY <1>1, <1>2 DEF Backed
  <2>1. CASE i = Len(s) + 1
    BY <1>1, <1>2, <1>6, <1>7, <2>1 DEF At
  <2>2. CASE i \in 1..Len(s)
    BY <1>1, <1>2, <1>6, <1>14, <2>2 DEF At, Backed
  <2> QED
    BY <1>2, <2>1, <2>2
<1> QED
  BY <1>1, <1>2, <1>6, <1>7, <1>10, <1>13, <1>14 DEF s, Kept

\* clist_gen_push_front() adds the node before the others.
LEMMA PushFrontEffect ==
    ASSUME IInv, NEW h \in Handles, first[h] # Absent, NEW v \in Vals, NEW a \in Fresh,
           node' = Allocate(a, [val |-> v, prev |-> Null, next |-> first[h]]),
           first' = [first EXCEPT ![h] = a]
    PROVE  LET s == List(h) IN
           /\ Becomes(h, <<a>> \o s) /\ first'[h] # Absent /\ s \in Seq(Live)
           /\ Kept(node, node', s, 0)
           /\ node'[a].val = v
<1> DEFINE s == List(h)
           n == [val |-> v, prev |-> Null, next |-> first[h]]
           D == Live \cup {a}
<1>1. /\ Seqs[h] = s /\ IsChain(node, first[h], s) /\ s \in Seq(Live)
      /\ Range(s) \subseteq Live
  BY ListFacts
<1> HIDE DEF s
<1>2. Len(s) \in Nat /\ DOMAIN s = 1..Len(s) /\ \A i \in 1..Len(s) : s[i] \in Live
  BY <1>1
<1>3. n \in Node
  BY DEF Node, Ptr, IInv, TypeOK
<1>4. /\ D \subseteq Addrs /\ node' \in [D -> Node] /\ node'[a] = n
      /\ \A x \in Live : node'[x] = node[x]
      /\ a \notin Live /\ a \in Addrs
  BY <1>3, AllocateAt DEF IInv
<1>5. n.val = v /\ n.next = first[h]
  OBVIOUS
<1> HIDE DEF n
<1>6. IsChain(node', a, <<a>> \o s)
  <2>1. /\ a \in DOMAIN node' /\ DOMAIN node \subseteq DOMAIN node' /\ a \notin DOMAIN node
        /\ node'[a].next = first[h]
        /\ \A i \in DOMAIN s : node'[s[i]].next = node[s[i]].next
    BY <1>2, <1>4, <1>5 DEF Live
  <2> QED
    BY <1>1, <2>1, PrependChain
<1>7. first'[h] = a /\ first' = [first EXCEPT ![h] = first'[h]] /\ a # Absent
  BY <1>4, ListAssumption DEF IInv, TypeOK
<1>8. Range(<<a>> \o s) = Range(s) \cup {a}
  BY <1>1, PrependRange
<1>9. Local(node, s, node', first'[h], <<a>> \o s)
  BY <1>1, <1>4, <1>6, <1>7, <1>8 DEF Local, Live
<1>10. Becomes(h, <<a>> \o s)
  BY <1>1, <1>4, <1>7, <1>9 DEF Becomes
<1> QED
  BY <1>1, <1>2, <1>4, <1>5, <1>7, <1>10 DEF s, Kept

\* clist_gen_pop_front() takes the first node away.
LEMMA PopFrontEffect ==
    ASSUME IInv, NEW h \in Handles, first[h] # Absent, first[h] # Null,
           node' = Restrict(node, Live \ {first[h]}),
           first' = [first EXCEPT ![h] = node[first[h]].next]
    PROVE  LET s == List(h) IN
           /\ Becomes(h, Dropped(s, 1)) /\ first'[h] # Absent
           /\ s \in Seq(Live) /\ 1 \in DOMAIN s /\ first[h] = s[1] /\ first[h] \in Live
           /\ Kept(node, node', s, 1)
<1> DEFINE s == List(h)
           rest == Dropped(s, 1)
<1>1. /\ Seqs[h] = s /\ IsChain(node, first[h], s) /\ s \in Seq(Live)
      /\ Range(s) \subseteq Live /\ s # <<>>
  BY ListFacts
<1> HIDE DEF s
<1>2. /\ Len(s) \in Nat /\ DOMAIN s = 1..Len(s) /\ \A i \in 1..Len(s) : s[i] \in Live
      /\ 1 \in DOMAIN s
  BY <1>1
<1>3. first[h] = s[1] /\ s[1] \in Live /\ \A i \in DOMAIN s : i # 1 => s[i] # s[1]
  BY <1>1, <1>2 DEF IsChain, At
<1>4. /\ DOMAIN node' = Live \ {s[1]} /\ \A x \in Live \ {s[1]} : node'[x] = node[x]
      /\ node' \in [DOMAIN node' -> Node]
  BY <1>3 DEF Restrict, IInv, TypeOK
<1>5. node[s[1]].next = At(s, 2) /\ node[s[1]].next # Absent /\ node[s[1]].next = first'[h]
  <2>1. node[s[1]].next \in Ptr
    BY <1>3 DEF IInv, TypeOK, Node
  <2> QED
    BY <1>1, <1>2, <1>3, <2>1, ListAssumption DEF IsChain, IInv, TypeOK, Ptr
<1>6. IsChain(node', first'[h], rest) /\ Range(rest) = Range(s) \ {s[1]}
  <2>1. DOMAIN node' = DOMAIN node \ {s[1]}
    BY <1>4 DEF Live
  <2>2. ASSUME NEW j \in DOMAIN s, j # 1
        PROVE  node'[s[j]].next = node[s[j]].next /\ j # 1 - 1
    <3>1. s[j] \in Live \ {s[1]} /\ j \in 1..Len(s)
      BY <1>2, <1>3, <2>2
    <3>2. node'[s[j]] = node[s[j]]
      BY <1>4, <3>1
    <3>3. j # 1 - 1
      BY <1>2, <3>1
    <3> QED
      BY <3>2, <3>3
  <2>3. Unlinked(node, s, 1, node')
    BY <1>2, <2>1, <2>2 DEF Unlinked
  <2>4. /\ IsChain(node', HeadWithout(first[h], s, 1), rest)
        /\ Range(rest) = Range(s) \ {s[1]}
    BY <1>1, <2>3, DropChain
  <2> QED
    BY <1>5, <2>4 DEF HeadWithout
<1> HIDE DEF rest
<1>7. Local(node, s, node', first'[h], rest)
  <2>1. s[1] \in Range(s)
    BY <1>2 DEF Range
  <2>2. DOMAIN node' \subseteq Addrs
    BY <1>4 DEF IInv, TypeOK
  <2>3. /\ DOMAIN node' = (Live \ Range(s)) \cup Range(rest)
        /\ Range(rest) \cap (Live \ Range(s)) = {}
        /\ \A x \in Live \ Range(s) : node'[x] = node[x]
    BY <1>1, <1>4, <1>6, <2>1
  <2> QED
    BY <1>5, <1>6, <2>2, <2>3 DEF Local, Live
<1>8. Becomes(h, rest)
  BY <1>1, <1>4, <1>5, <1>7 DEF Becomes
<1> QED
  BY <1>1, <1>2, <1>3, <1>4, <1>5, <1>8 DEF s, rest, Kept

\* The first node that matches a key, and what a search dereferences.
LEMMA MatchFacts ==
    ASSUME IInv, NEW h \in Handles, first[h] # Absent, NEW k
    PROVE  /\ Matches(h, k) # {} =>
                 /\ Match(h, k) \in DOMAIN List(h)
                 /\ Match(h, k) \in Matches(h, k)
                 /\ \A j \in Matches(h, k) : Match(h, k) <= j
           /\ Searched(h, k) \subseteq Live
<1>1. List(h) \in Seq(Live) /\ Range(List(h)) \subseteq Live /\ Walked(h) = Range(List(h))
  BY ListFacts
<1>2. Matches(h, k) \in SUBSET Nat /\ Matches(h, k) \subseteq DOMAIN List(h)
  BY <1>1 DEF Matches
<1>3. ASSUME Matches(h, k) # {}
      PROVE  /\ Match(h, k) \in Matches(h, k)
             /\ \A j \in Matches(h, k) : Match(h, k) <= j
  <2>1. \E i \in Matches(h, k) : \A j \in Matches(h, k) : i <= j
    BY <1>2, <1>3, Least
  <2> QED
    BY <2>1 DEF Match
<1>4. Searched(h, k) \subseteq Live
  <2>1. CASE Matches(h, k) = {}
    BY <1>1, <2>1 DEF Searched
  <2>2. CASE Matches(h, k) # {}
    <3>1. Match(h, k) \in DOMAIN List(h) /\ DOMAIN List(h) = 1..Len(List(h))
      BY <1>1, <1>2, <1>3, <2>2
    <3>2. \A i \in 1..Match(h, k) : i \in 1..Len(List(h)) /\ List(h)[i] \in Live
      BY <1>1, <3>1
    <3> QED
      BY <2>2, <3>2 DEF Searched
  <2> QED
    BY <2>1, <2>2
<1> QED
  BY <1>2, <1>3, <1>4

\* Another content for one node leaves the chains as they are.
LEMMA ReplaceEffect ==
    ASSUME IInv, NEW h \in Handles, first[h] # Absent, NEW i \in DOMAIN List(h),
           NEW v \in Vals,
           node' = [node EXCEPT ![List(h)[i]].val = v], first' = first
    PROVE  LET s == List(h) IN
           /\ Becomes(h, s) /\ s \in Seq(Live)
           /\ Backed(node, s) => Backed(node', s)
           /\ Kept(node, node', s, i) /\ node'[s[i]].val = v
<1> DEFINE s == List(h)
<1>1. /\ Seqs[h] = s /\ IsChain(node, first[h], s) /\ s \in Seq(Live)
      /\ Range(s) \subseteq Live
  BY ListFacts
<1>2. node' = [node EXCEPT ![s[i]] = [node[s[i]] EXCEPT !.val = v]] /\ i \in DOMAIN s
  OBVIOUS
<1> HIDE DEF s
<1>3. DOMAIN s = 1..Len(s) /\ \A j \in DOMAIN s : s[j] \in Live /\ (s[j] = s[i] => j = i)
  BY <1>1, <1>2 DEF IsChain
<1>4. node \in [Live -> Node] /\ Live \subseteq Addrs /\ node[s[i]] \in Node
  BY <1>2, <1>3 DEF IInv, TypeOK
<1>5. LET n == [node[s[i]] EXCEPT !.val = v]
      IN  n \in Node /\ n.val = v /\ n.prev = node[s[i]].prev /\ n.next = node[s[i]].next
  BY <1>4 DEF Node
<1>6. /\ node' \in [Live -> Node]
      /\ \A x \in Live : /\ node'[x].prev = node[x].prev /\ node'[x].next = node[x].next
                         /\ node'[x].val = IF x = s[i] THEN v ELSE node[x].val
                         /\ x # s[i] => node'[x] = node[x]
  BY <1>2, <1>3, <1>4, <1>5
<1>7. IsChain(node', first[h], s)
  BY <1>1, <1>3, <1>6 DEF IsChain, Live
<1>8. s[i] \in Range(s)
  BY <1>2 DEF Range
<1>9. Local(node, s, node', first'[h], s)
  <2>1. first'[h] # Absent /\ DOMAIN node' = Live
    BY <1>6
  <2>2. DOMAIN node' = (DOMAIN node \ Range(s)) \cup Range(s)
    BY <1>1, <2>1 DEF Live
  <2>3. \A x \in DOMAIN node \ Range(s) : node'[x] = node[x]
    BY <1>6, <1>8 DEF Live
  <2> QED
    BY <1>4, <1>7, <2>1, <2>2, <2>3 DEF Local
<1>10. first' = [first EXCEPT ![h] = first'[h]]
  BY DEF IInv, TypeOK
<1>11. Becomes(h, s)
  BY <1>1, <1>6, <1>9, <1>10 DEF Becomes
<1>12. Backed(node, s) => Backed(node', s)
  BY <1>3, <1>6 DEF Backed
<1>13. Kept(node, node', s, i) /\ node'[s[i]].val = v
  BY <1>2, <1>3, <1>6 DEF Kept
<1> QED
  BY <1>1, <1>11, <1>12, <1>13 DEF s

\* clist_gen_remove_node() unlinks the node on both sides.
LEMMA RemoveEffect ==
    ASSUME IInv, NEW h \in Handles, first[h] # Absent, NEW i \in DOMAIN List(h),
           Backed(node, List(h)),
           LET a == List(h)[i]
               before == node[a].prev
               after == node[a].next
           IN  /\ node' = Restrict(Linked(Linked(node, before, "next", after),
                                          after, "prev", before),
                                   Live \ {a})
               /\ first' = IF before = Null THEN [first EXCEPT ![h] = after] ELSE first
    PROVE  LET s == List(h) IN
           /\ Becomes(h, Dropped(s, i)) /\ first'[h] # Absent /\ s \in Seq(Live)
           /\ Backed(node', Dropped(s, i))
           /\ Kept(node, node', s, i)
           /\ {node[s[i]].prev, node[s[i]].next} \ {Null} \subseteq Live
<1> DEFINE s == List(h)
           before == At(s, i - 1)
           after == At(s, i + 1)
           half == Linked(node, before, "next", after)
           whole == Linked(half, after, "prev", before)
           rest == Dropped(s, i)
<1>1. /\ Seqs[h] = s /\ IsChain(node, first[h], s) /\ s \in Seq(Live)
      /\ Range(s) \subseteq Live
  BY ListFacts
<1> HIDE DEF s
<1>2. /\ Len(s) \in Nat /\ DOMAIN s = 1..Len(s) /\ i \in 1..Len(s)
      /\ \A j \in 1..Len(s) : s[j] \in Live
      /\ \A j, k \in 1..Len(s) : s[j] = s[k] => j = k
  BY <1>1 DEF IsChain, s
<1>3. node[s[i]].prev = before /\ node[s[i]].next = after
  BY <1>1, <1>2 DEF IsChain, Backed, s
<1>4. node \in [Live -> Node] /\ Live \in SUBSET Addrs /\ Null \notin Live
  BY ListAssumption DEF IInv, TypeOK
<1>5. /\ before \in Live \cup {Null} /\ after \in Live \cup {Null}
      /\ before \in Ptr /\ after \in Ptr
      /\ \A j \in 1..Len(s) : /\ s[j] = before <=> j = i - 1
                              /\ s[j] = after <=> j = i + 1
  BY <1>2, <1>4 DEF At, Ptr
<1> HIDE DEF before, after
<1>6. /\ half \in [Live -> Node]
      /\ \A x \in Live : /\ half[x].val = node[x].val /\ half[x].prev = node[x].prev
                         /\ half[x].next = IF x = before THEN after ELSE node[x].next
                         /\ x # before => half[x] = node[x]
  <2>1. CASE before = Null
    BY <1>4, <2>1, LinkNull
  <2>2. CASE before \in Live
    <3>1. /\ half \in [Live -> Node]
          /\ half[before].next = after /\ half[before].val = node[before].val
          /\ half[before].prev = node[before].prev
          /\ \A x \in Live \ {before} : half[x] = node[x]
      <4>1. node \in [Live -> Node] /\ before \in Live /\ after \in Ptr /\ Live \in SUBSET Addrs
        BY <1>4, <1>5, <2>2
      <4> QED
        BY <4>1, LinkNext
    <3> HIDE DEF half
    <3> QED
      BY <3>1
  <2> QED
    BY <1>5, <2>1, <2>2
<1> HIDE DEF half
<1>7. /\ whole \in [Live -> Node]
      /\ \A x \in Live : /\ whole[x].val = half[x].val /\ whole[x].next = half[x].next
                         /\ whole[x].prev = IF x = after THEN before ELSE half[x].prev
                         /\ x # after => whole[x] = half[x]
  <2>1. CASE after = Null
    BY <1>4, <1>6, <2>1, LinkNull
  <2>2. CASE after \in Live
    <3>1. /\ whole \in [Live -> Node]
          /\ whole[after].prev = before /\ whole[after].val = half[after].val
          /\ whole[after].next = half[after].next
          /\ \A x \in Live \ {after} : whole[x] = half[x]
      <4>1. half \in [Live -> Node] /\ after \in Live /\ before \in Ptr /\ Live \in SUBSET Addrs
        BY <1>4, <1>5, <1>6, <2>2
      <4> QED
        BY <4>1, LinkPrev
    <3> HIDE DEF whole
    <3> QED
      BY <3>1
  <2> QED
    BY <1>5, <2>1, <2>2
<1> HIDE DEF whole
<1>8. node' = Restrict(whole, Live \ {s[i]})
  BY <1>3 DEF whole, half, s
<1>9. first' = IF before = Null THEN [first EXCEPT ![h] = after] ELSE first
  BY <1>3 DEF s
<1>10. /\ DOMAIN node' = Live \ {s[i]} /\ node' \in [DOMAIN node' -> Node]
       /\ \A x \in Live \ {s[i]} :
             /\ node'[x].val = node[x].val
             /\ node'[x].next = IF x = before THEN after ELSE node[x].next
             /\ node'[x].prev = IF x = after THEN before ELSE node[x].prev
             /\ x # before /\ x # after => node'[x] = node[x]
  <2>1. node' = [x \in Live \ {s[i]} |-> whole[x]]
    BY <1>8 DEF Restrict
  <2>2. /\ DOMAIN node' = Live \ {s[i]}
        /\ \A x \in Live \ {s[i]} : node'[x] = whole[x] /\ node'[x] \in Node
    BY <1>7, <2>1
  <2>3. node' \in [DOMAIN node' -> Node]
    BY <2>1, <2>2
  <2> QED
    BY <1>6, <1>7, <2>2, <2>3, ZenonT(40)
<1>11. \A j \in 1..Len(s) : j # i => s[j] \in Live \ {s[i]}
  BY <1>2
<1>12. Unlinked(node, s, i, node')
  <2>1. DOMAIN node' = DOMAIN node \ {s[i]}
    BY <1>10 DEF Live
  <2>2. ASSUME NEW j \in DOMAIN s, j # i
        PROVE  node'[s[j]].next = IF j = i - 1 THEN At(s, i + 1) ELSE node[s[j]].next
    <3>1. s[j] \in Live \ {s[i]} /\ (s[j] = before <=> j = i - 1)
      BY <1>2, <1>5, <1>11, <2>2
    <3>2. node'[s[j]].next = IF s[j] = before THEN after ELSE node[s[j]].next
      BY <1>10, <3>1
    <3> QED
      BY <3>1, <3>2 DEF after
  <2> QED
    BY <1>2, <2>1, <2>2 DEF Unlinked
<1>13. /\ IsChain(node', HeadWithout(first[h], s, i), rest)
       /\ Range(rest) = Range(s) \ {s[i]}
  BY <1>1, <1>12, DropChain
<1>14. /\ first'[h] = HeadWithout(first[h], s, i) /\ first'[h] # Absent
       /\ first' = [first EXCEPT ![h] = first'[h]]
  <2>1. before = Null <=> i = 1
    BY <1>2, <1>4 DEF before, At
  <2>2. first \in [Handles -> Ptr \cup {Absent}] /\ after # Absent
    BY <1>5, ListAssumption DEF IInv, TypeOK, Ptr
  <2>3. i = 1 => after = At(s, 2)
    BY DEF after
  <2>4. CASE i = 1
    BY <1>9, <2>1, <2>2, <2>3, <2>4 DEF HeadWithout
  <2>5. CASE i # 1
    <3>1. first' = first
      BY <1>9, <2>1, <2>5
    <3> QED
      BY <2>2, <2>5, <3>1 DEF HeadWithout
  <2> QED
    BY <2>4, <2>5
<1>15. Local(node, s, node', first'[h], rest)
  <2>1. s[i] \in Range(s) /\ \A x \in Live \ Range(s) : x # before /\ x # after
    BY <1>2, <1>4 DEF Range, before, after, At
  <2>2. DOMAIN node' \subseteq Addrs
    BY <1>4, <1>10
  <2> HIDE DEF rest
  <2>3. /\ DOMAIN node' = (Live \ Range(s)) \cup Range(rest)
        /\ Range(rest) \cap (Live \ Range(s)) = {}
        /\ \A x \in Live \ Range(s) : node'[x] = node[x]
    <3>1. DOMAIN node' = Live \ {s[i]} /\ Range(rest) = Range(s) \ {s[i]} /\ Range(s) \subseteq Live
      BY <1>1, <1>10, <1>13
    <3>2. \A x \in Live \ Range(s) : node'[x] = node[x]
      BY <1>10, <2>1
    <3> QED
      BY <2>1, <3>1, <3>2
  <2> QED
    BY <1>13, <1>14, <2>2, <2>3 DEF Local, Live
<1>16. Becomes(h, rest)
  BY <1>1, <1>10, <1>14, <1>15 DEF Becomes
<1>17. Backed(node', rest)
  <2> DEFINE place(j) == IF j < i THEN j ELSE j + 1
  <2>1. \A j \in DOMAIN s : node[s[j]].prev = At(s, j - 1)
    BY DEF Backed, s
  <2>2. DOMAIN rest = 1..(Len(s) - 1)
    BY DEF Dropped
  <2>3. ASSUME NEW j \in 1..(Len(s) - 1)
        PROVE  /\ place(j) \in 1..Len(s) /\ place(j) # i /\ rest[j] = s[place(j)]
    BY <1>2 DEF Dropped
  <2> HIDE DEF rest
  <2>4. ASSUME NEW j \in 1..(Len(s) - 1) PROVE node'[rest[j]].prev = At(rest, j - 1)
    <3>1. CASE j = i
      <4>1. place(j) = i + 1 /\ node'[rest[j]].prev = before
        <5>1. place(j) = i + 1
          BY <1>2, <3>1
        <5>2. rest[j] \in Live \ {s[i]} /\ rest[j] = after
          BY <1>5, <1>11, <2>3, <5>1
        <5> QED
          BY <1>10, <5>1, <5>2
      <4>2. before = At(rest, j - 1)
        BY <1>2, <2>2, <2>3, <3>1 DEF before, At
      <4> QED
        BY <4>1, <4>2
    <3>2. CASE j # i
      <4>1. place(j) # i + 1 /\ node'[rest[j]].prev = At(s, place(j) - 1)
        <5>1. place(j) # i + 1
          BY <1>2, <3>2
        <5>2. rest[j] \in Live \ {s[i]} /\ rest[j] # after
          BY <1>5, <1>11, <2>3, <5>1
        <5>3. node'[rest[j]].prev = node[rest[j]].prev
          BY <1>10, <5>2
        <5> QED
          BY <1>2, <2>1, <2>3, <5>1, <5>3
      <4>2. At(s, place(j) - 1) = At(rest, j - 1)
        BY <1>2, <2>2, <2>3, <3>2 DEF At
      <4> QED
        BY <4>1, <4>2
    <3> QED
      BY <3>1, <3>2
  <2> QED
    BY <2>2, <2>4 DEF Backed
<1>18. Kept(node, node', s, i)
  BY <1>2, <1>10, <1>11 DEF Kept
<1> QED
  BY <1>1, <1>3, <1>5, <1>14, <1>16, <1>17, <1>18 DEF s, rest

\* clist_gen_copy() builds a list of new nodes.
LEMMA BuiltEffect ==
    ASSUME IInv, NEW g \in Handles, first[g] = Absent,
           NEW values \in Seq(Vals), NEW at \in Allocations(Len(values)),
           node' = Built(values, at),
           first' = [first EXCEPT ![g] = At(at, 1)]
    PROVE  /\ Becomes(g, at) /\ first'[g] # Absent /\ Backed(node', at)
           /\ Len(at) = Len(values) /\ DOMAIN at = 1..Len(values)
           /\ \A i \in DOMAIN at : node'[at[i]].val = values[i]
<1> DEFINE n == Len(values)
           PtrAt(i) == IF i \in 1..n THEN at[i] ELSE Null
           new(i) == [val |-> values[i], prev |-> PtrAt(i - 1), next |-> PtrAt(i + 1)]
<1>1. /\ n \in Nat /\ at \in [1..n -> Fresh] /\ DOMAIN at = 1..n
      /\ \A i, j \in 1..n : at[i] = at[j] => i = j
      /\ \A i \in 1..n : values[i] \in Vals
  BY DEF Allocations
<1>2. \A i \in 1..n : at[i] \notin Live /\ at[i] \in Addrs /\ at[i] \in Range(at)
  BY <1>1 DEF Fresh, Range
<1>3. ASSUME NEW i \in 1..n PROVE (CHOOSE j \in 1..n : at[j] = at[i]) = i
  BY <1>1
<1>4. node' = [x \in Live \cup Range(at) |->
                  IF x \in Live THEN node[x] ELSE new(CHOOSE j \in 1..n : at[j] = x)]
  BY DEF Built
<1>5. \A i : PtrAt(i) = At(at, i)
  BY <1>1 DEF At
<1>6. ASSUME NEW i \in 1..n
      PROVE  /\ node'[at[i]].val = values[i]
             /\ node'[at[i]].prev = At(at, i - 1)
             /\ node'[at[i]].next = At(at, i + 1)
             /\ node'[at[i]] \in Node
  <2>1. node'[at[i]] = new(i)
    <3> HIDE DEF new
    <3>1. node'[at[i]] = new(CHOOSE j \in 1..n : at[j] = at[i])
      BY <1>2, <1>4
    <3> QED
      BY <1>3, <3>1
  <2>2. \A j : At(at, j) \in Ptr
    BY <1>1 DEF At, Ptr, Fresh
  <2>3. new(i) = [val |-> values[i], prev |-> At(at, i - 1), next |-> At(at, i + 1)]
    BY <1>5
  <2> HIDE DEF new
  <2> QED
    BY <1>1, <2>1, <2>2, <2>3 DEF Node
<1>7. \A x \in Live : node'[x] = node[x]
  BY <1>4
<1>8. /\ DOMAIN node' = Live \cup Range(at) /\ DOMAIN node' \subseteq Addrs
      /\ node' \in [DOMAIN node' -> Node]
  <2>1. DOMAIN node' = Live \cup Range(at) /\ node' = [x \in DOMAIN node' |-> node'[x]]
    BY <1>4
  <2>2. Range(at) \subseteq Addrs /\ Live \subseteq Addrs /\ node \in [Live -> Node]
    BY <1>1, <1>2 DEF Range, IInv, TypeOK
  <2>3. ASSUME NEW x \in DOMAIN node' PROVE node'[x] \in Node
    <3>1. CASE x \in Live
      BY <1>7, <2>2, <3>1
    <3>2. CASE x \in Range(at)
      BY <1>1, <1>6, <3>2 DEF Range
    <3> QED
      BY <2>1, <3>1, <3>2
  <2> QED
    BY <2>1, <2>2, <2>3
<1>9. at \in Seq(DOMAIN node') /\ Len(at) = n
  <2>1. at \in [1..n -> DOMAIN node']
    BY <1>1, <1>2, <1>8
  <2> HIDE DEF n
  <2> QED
    BY <1>1, <2>1, FunctionIsSeq
<1>10. /\ first' = [first EXCEPT ![g] = first'[g]]
       /\ first'[g] = At(at, 1) /\ first'[g] # Absent
  BY <1>1, <1>2, ListAssumption DEF IInv, TypeOK, At
<1>11. IsChain(node', first'[g], at)
  BY <1>1, <1>6, <1>9, <1>10 DEF IsChain
<1>12. Seqs[g] = <<>> /\ Range(<<>>) = {}
  BY DEF Seqs, Range
<1>13. Range(at) \cap Live = {}
  BY <1>1, <1>2 DEF Range
<1>14. Local(node, Seqs[g], node', first'[g], at)
  BY <1>7, <1>8, <1>10, <1>11, <1>12, <1>13 DEF Local, Live
<1>15. Becomes(g, at)
  BY <1>8, <1>10, <1>14 DEF Becomes
<1>16. Backed(node', at)
  BY <1>1, <1>6 DEF Backed
<1> QED
  BY <1>1, <1>6, <1>9, <1>10, <1>15, <1>16

-----------------------------------------------------------------------------
(* The positions a copy keeps *)

Below(S, i) == {j \in S : j < i}

\* The k-th number of a finite set has k - 1 others of the set below it.
LEMMA Kth ==
    ASSUME NEW n \in Nat, NEW S \in SUBSET (1..n), NEW k \in 1..Cardinality(S)
    PROVE  \E i \in S : Cardinality(Below(S, i)) = k - 1
<1>1. IsFiniteSet(S) /\ Cardinality(S) \in Nat
  <2>1. IsFiniteSet(1..n)
    BY FS_Interval
  <2> QED
    BY <2>1, FS_Subset, FS_CardinalityType
<1> DEFINE Found(m) == m + 1 <= Cardinality(S) =>
                          \E i \in S : Cardinality(Below(S, i)) = m
           P == {m \in Nat : Found(m)}
<1>2. 0 \in P
  <2> SUFFICES ASSUME 1 <= Cardinality(S) PROVE \E i \in S : Cardinality(Below(S, i)) = 0
    BY <1>1
  <2>1. S # {} /\ S \in SUBSET Nat
    BY <1>1, FS_EmptySet
  <2>2. PICK i \in S : \A j \in S : i <= j
    BY <2>1, Least
  <2>3. Below(S, i) = {}
    <3>1. \A j \in S : ~(j < i)
      BY <2>1, <2>2
    <3> QED
      BY <3>1 DEF Below
  <2> QED
    BY <2>3, FS_EmptySet
<1>3. \A m \in Nat : m \in P => m + 1 \in P
  <2> SUFFICES ASSUME NEW m \in Nat, Found(m) PROVE Found(m + 1)
    <3> HIDE DEF Found
    <3> QED
      OBVIOUS
  <2> SUFFICES ASSUME (m + 1) + 1 <= Cardinality(S)
               PROVE  \E i \in S : Cardinality(Below(S, i)) = m + 1
    OBVIOUS
  <2>1. PICK i \in S : Cardinality(Below(S, i)) = m
    BY <1>1
  <2> DEFINE here == Below(S, i) \cup {i}
             above == S \ here
  <2>2. IsFiniteSet(Below(S, i)) /\ i \notin Below(S, i)
    BY <1>1, FS_Subset DEF Below
  <2>3. Cardinality(here) = m + 1 /\ here \subseteq S
    BY <2>1, <2>2, FS_AddElement DEF Below
  <2>4. above # {} /\ above \in SUBSET Nat
    <3> HIDE DEF here
    <3>1. S # here
      BY <1>1, <2>3
    <3>2. \E j \in S : j \notin here
      BY <2>3, <3>1
    <3>3. \A j \in above : j \in Nat
      OBVIOUS
    <3> QED
      BY <3>2, <3>3
  <2>5. \A j \in above : i < j
    BY DEF Below
  <2> HIDE DEF above
  <2>6. PICK x \in above : \A j \in above : x <= j
    BY <2>4, Least
  <2>7. x \in S /\ Below(S, x) = here
    <3>1. x \in S /\ x \in Nat /\ i \in Nat /\ i < x
      BY <2>5, <2>6 DEF above
    <3>2. ASSUME NEW j \in S PROVE j < x <=> j \in here
      <4>1. CASE j \in above
        <5>1. x <= j /\ j \in Nat /\ j \notin here
          BY <2>6, <4>1 DEF above
        <5> QED
          BY <3>1, <5>1
      <4>2. CASE j \notin above
        <5>1. j \in here /\ j <= i /\ j \in Nat
          BY <3>1, <4>2 DEF above, Below
        <5> QED
          BY <3>1, <5>1
      <4> QED
        BY <4>1, <4>2
    <3> HIDE DEF here
    <3> QED
      BY <2>3, <3>1, <3>2 DEF Below
  <2> QED
    BY <2>3, <2>7
<1>4. Nat \subseteq P
  <2> HIDE DEF P
  <2> QED
    BY <1>2, <1>3, Induction
<1>5. k - 1 \in Nat /\ (k - 1) + 1 <= Cardinality(S)
  BY <1>1
<1>6. k - 1 \in P
  BY <1>4, <1>5
<1> QED
  BY <1>5, <1>6

\* The k-th number of a set, and that of a whole interval.
LEMMA KthIsKept ==
    ASSUME NEW n \in Nat, NEW S \in SUBSET (1..n), NEW k \in 1..Cardinality(S)
    PROVE  (CHOOSE i \in S : Cardinality({j \in S : j < i}) = k - 1) \in S
<1>1. \E i \in S : Cardinality(Below(S, i)) = k - 1
  BY Kth
<1> QED
  BY <1>1 DEF Below

LEMMA KthOfAll ==
    ASSUME NEW n \in Nat, NEW k \in 1..n
    PROVE  (CHOOSE i \in 1..n : Cardinality({j \in 1..n : j < i}) = k - 1) = k
<1>1. ASSUME NEW i \in 1..n PROVE Cardinality({j \in 1..n : j < i}) = i - 1
  <2>1. {j \in 1..n : j < i} = 1..(i - 1)
    OBVIOUS
  <2> DEFINE m == i - 1
  <2>2. 1 \in Int /\ m \in Int /\ m \in Nat
    OBVIOUS
  <2> HIDE DEF m
  <2>3. Cardinality(1..m) = IF 1 > m THEN 0 ELSE m - 1 + 1
    BY <2>2, FS_Interval
  <2>4. Cardinality(1..m) = m
    BY <2>2, <2>3
  <2> QED
    BY <2>1, <2>4 DEF m
<1>2. \A i \in 1..n : Cardinality({j \in 1..n : j < i}) = k - 1 <=> i = k
  BY <1>1
<1> QED
  BY <1>2

\* The values a copy keeps are values of the list, one for each position kept.
LEMMA ValuesAtFacts ==
    ASSUME IInv, NEW h \in Handles, first[h] # Absent,
           NEW n \in 0..Len(List(h)), NEW kept \in SUBSET (1..n)
    PROVE  /\ ValuesAt(h, kept) \in Seq(Vals) /\ Len(ValuesAt(h, kept)) = Cardinality(kept)
           /\ Cardinality(kept) \in Nat /\ (Cardinality(kept) = 0 <=> kept = {})
<1> DEFINE s == List(h)
           kth(k) == CHOOSE i \in kept : Cardinality({j \in kept : j < i}) = k - 1
           m == Cardinality(kept)
<1>1. s \in Seq(Live) /\ Len(s) \in Nat /\ DOMAIN s = 1..Len(s) /\ node \in [Live -> Node]
  BY ListFacts DEF IInv, TypeOK
<1>2. n \in Nat /\ kept \subseteq DOMAIN s
  BY <1>1
<1>3. IsFiniteSet(kept) /\ m \in Nat /\ (m = 0 <=> kept = {})
  <2>1. 1 \in Int /\ n \in Int
    BY <1>2
  <2>2. IsFiniteSet(1..n)
    BY <2>1, FS_Interval
  <2>3. IsFiniteSet(kept)
    BY <2>2, FS_Subset
  <2> QED
    BY <2>3, FS_CardinalityType, FS_EmptySet
<1>4. ASSUME NEW k \in 1..m PROVE kth(k) \in kept
  BY <1>2, KthIsKept
<1>5. ValuesAt(h, kept) = [k \in 1..m |-> node[s[kth(k)]].val]
  BY DEF ValuesAt
<1> HIDE DEF kth, s, m
<1>6. ASSUME NEW k \in 1..m PROVE node[s[kth(k)]].val \in Vals
  <2>1. s[kth(k)] \in Live
    <3>1. kth(k) \in 1..Len(s)
      BY <1>1, <1>2, <1>4
    <3>2. \A i \in 1..Len(s) : s[i] \in Live
      BY <1>1
    <3> QED
      BY <3>1, <3>2
  <2> QED
    BY <1>1, <2>1 DEF Node
<1>7. ValuesAt(h, kept) \in [1..m -> Vals]
  BY <1>5, <1>6
<1>8. ValuesAt(h, kept) \in Seq(Vals) /\ Len(ValuesAt(h, kept)) = m
  BY <1>3, <1>7, FunctionIsSeq
<1> QED
  BY <1>3, <1>8 DEF m

-----------------------------------------------------------------------------
(* The steps *)

LEMMA ReplyTyped ==
    ASSUME TypeOK, NEW op \in used \cup {"none", "new", "replace"},
           NEW err \in {"OK", "EMPTY", "NOT_FOUND", "ALLOCERR"},
           NEW val \in Vals \cup {NoVal}
    PROVE  Answer(op, err, val) \in
              [op: AllCalls, err: {"OK", "EMPTY", "NOT_FOUND", "ALLOCERR"},
               val: Vals \cup {NoVal}]
<1>1. op \in AllCalls
  BY DEF AllCalls, TypeOK
<1> QED
  BY <1>1 DEF Answer

\* A call that dereferences allocated nodes only is safe.
LEMMA TouchSafe ==
    ASSUME IInv, NEW P, P \subseteq Live, Touch(P)
    PROVE  undefined' = FALSE
  BY DEF Touch, IInv, MemorySafe

LEMMA LiveValue ==
    ASSUME TypeOK, NEW x \in Live
    PROVE  node[x].val \in Vals
  BY DEF TypeOK, Node

\* The chain of a list is backed where the behaviour removes.
LEMMA ListBacked ==
    ASSUME IInv, NEW h \in Handles, first[h] # Absent, "remove" \in used
    PROVE  Backed(node, List(h))
  BY ListFacts DEF IInv

LEMMA InitIInv == Init => IInv
<1> SUFFICES ASSUME Init PROVE IInv
  OBVIOUS
<1>1. Live = {} /\ node = [x \in {} |-> x]
  BY DEF Init, Live
<1>2. TypeOK
  <2>1. Answer("none", "OK", NoVal) \in
           [op: AllCalls, err: {"OK", "EMPTY", "NOT_FOUND", "ALLOCERR"}, val: Vals \cup {NoVal}]
    BY DEF Answer, AllCalls
  <2>2. first \in [Handles -> Ptr \cup {Absent}] /\ node \in [Live -> Node]
    BY <1>1 DEF Init
  <2> QED
    BY <1>1, <2>1, <2>2 DEF Init, TypeOK
<1>3. Seqs = [h \in Handles |-> <<>>]
  BY DEF Init, Seqs
<1>4. \A h \in Handles : first[h] = Absent /\ Seqs[h] = <<>> /\ Range(Seqs[h]) = {}
  BY <1>3 DEF Init, Range
<1>5. WellLinked
  <2>1. DOMAIN node = UNION {Range(Seqs[h]) : h \in Handles}
    BY <1>1, <1>4 DEF Live
  <2>2. Seqs \in [Handles -> Seq(Addrs)]
    BY <1>3
  <2> HIDE DEF Seqs
  <2> QED
    BY <1>1, <1>2, <1>4, <2>1, <2>2 DEF WellLinked, Layout, TypeOK, Live
<1>6. \A h \in Handles : Backed(node, Seqs[h])
  BY <1>4 DEF Backed
<1> QED
  BY <1>2, <1>5, <1>6 DEF IInv, MemorySafe, Init

LEMMA NewStep == ASSUME IInv, NEW h \in Handles, New(h) PROVE IInv'
<1>1. reply' \in [op: AllCalls, err: {"OK", "EMPTY", "NOT_FOUND", "ALLOCERR"},
                  val: Vals \cup {NoVal}]
  <2>1. PICK err \in {"OK", "ALLOCERR"} : reply' = Answer("new", err, NoVal)
    BY DEF New
  <2> QED
    BY <2>1, ReplyTyped DEF IInv
<1>2. used' = used /\ undefined' = FALSE /\ aborted' \in BOOLEAN
  BY DEF New, IInv, MemorySafe, TypeOK
<1>3. CASE first' = first
  BY <1>1, <1>2, <1>3, Preserved DEF New
<1>4. CASE first' = [first EXCEPT ![h] = Null]
  <2>1. Becomes(h, <<>>)
    BY <1>4, NewEffect DEF New
  <2>2. Backed(node', <<>>)
    BY DEF Backed
  <2> QED
    BY <1>1, <1>2, <2>1, <2>2, Preserved
<1> QED
  BY <1>3, <1>4 DEF New

LEMMA FreeStep == ASSUME IInv, NEW h \in Handles, Free(h) PROVE IInv'
<1>1. first[h] # Absent /\ "free" \in used
  BY DEF Free, Call
<1>2. reply' \in [op: AllCalls, err: {"OK", "EMPTY", "NOT_FOUND", "ALLOCERR"},
                  val: Vals \cup {NoVal}]
  BY <1>1, ReplyTyped DEF Free, IInv
<1>3. Walked(h) \subseteq Live
  BY <1>1, ListFacts
<1>4. used' = used /\ undefined' = FALSE /\ aborted' \in BOOLEAN
  BY <1>3, TouchSafe DEF Free, IInv, TypeOK
<1>5. Becomes(h, <<>>)
  <2>1. /\ node' = Restrict(node, Live \ Range(List(h)))
        /\ first' = [first EXCEPT ![h] = Absent]
    BY DEF Free
  <2> QED
    BY <1>1, <2>1, FreeEffect
<1>6. Backed(node', <<>>)
  BY DEF Backed
<1> QED
  BY <1>2, <1>4, <1>5, <1>6, Preserved

LEMMA PushBackStep ==
    ASSUME IInv, NEW h \in Handles, NEW v \in Vals, PushBack(h, v) PROVE IInv'
<1>1. first[h] # Absent /\ "push_back" \in used
  BY DEF PushBack, Call
<1>2. reply' \in [op: AllCalls, err: {"OK", "EMPTY", "NOT_FOUND", "ALLOCERR"},
                  val: Vals \cup {NoVal}]
  <2>1. PICK err \in {"OK", "ALLOCERR"} : reply' = Answer("push_back", err, NoVal)
    BY DEF PushBack, Fail
  <2> QED
    BY <1>1, <2>1, ReplyTyped DEF IInv
<1>3. Walked(h) \subseteq Live
  BY <1>1, ListFacts
<1>4. used' = used /\ undefined' = FALSE /\ aborted' \in BOOLEAN
  BY <1>3, TouchSafe DEF PushBack, IInv, TypeOK
<1>5. CASE UNCHANGED <<node, first>>
  BY <1>2, <1>4, <1>5, Preserved
<1>6. ASSUME NEW a \in Fresh,
             node' = Linked(Allocate(a, [val |-> v, prev |-> LastNode(h), next |-> Null]),
                            LastNode(h), "next", a),
             first' = IF first[h] = Null THEN [first EXCEPT ![h] = a] ELSE first
      PROVE  IInv'
  <2>1. /\ Becomes(h, Append(List(h), a))
        /\ Backed(node, List(h)) => Backed(node', Append(List(h), a))
    BY <1>1, <1>6, PushBackEffect
  <2>2. "remove" \in used => Backed(node', Append(List(h), a))
    BY <1>1, <2>1, ListBacked
  <2> QED
    BY <1>2, <1>4, <2>1, <2>2, Preserved
<1> QED
  BY <1>5, <1>6 DEF PushBack, Fail

LEMMA PushFrontStep ==
    ASSUME IInv, NEW h \in Handles, NEW v \in Vals, PushFront(h, v) PROVE IInv'
<1>1. first[h] # Absent /\ "push_front" \in used /\ "remove" \notin used
  BY ProfileAssumption DEF PushFront, Call, IInv, TypeOK
<1>2. reply' \in [op: AllCalls, err: {"OK", "EMPTY", "NOT_FOUND", "ALLOCERR"},
                  val: Vals \cup {NoVal}]
  <2>1. PICK err \in {"OK", "ALLOCERR"} : reply' = Answer("push_front", err, NoVal)
    BY DEF PushFront, Fail
  <2> QED
    BY <1>1, <2>1, ReplyTyped DEF IInv
<1>3. used' = used /\ undefined' = FALSE /\ aborted' \in BOOLEAN
  BY DEF PushFront, IInv, MemorySafe, TypeOK
<1>4. CASE UNCHANGED <<node, first>>
  BY <1>2, <1>3, <1>4, Preserved
<1>5. ASSUME NEW a \in Fresh,
             node' = Allocate(a, [val |-> v, prev |-> Null, next |-> first[h]]),
             first' = [first EXCEPT ![h] = a]
      PROVE  IInv'
  <2>1. Becomes(h, <<a>> \o List(h))
    BY <1>1, <1>5, PushFrontEffect
  <2> QED
    BY <1>1, <1>2, <1>3, <2>1, Preserved
<1> QED
  BY <1>4, <1>5 DEF PushFront, Fail

LEMMA PopFrontStep == ASSUME IInv, NEW h \in Handles, PopFront(h) PROVE IInv'
<1>1. first[h] # Absent /\ "pop_front" \in used /\ "remove" \notin used
  BY ProfileAssumption DEF PopFront, Call, IInv, TypeOK
<1>2. used' = used /\ aborted' \in BOOLEAN
  BY DEF PopFront, IInv, TypeOK
<1>3. CASE first[h] = Null
  <2>1. reply' = Answer("pop_front", "EMPTY", NoVal) /\ UNCHANGED <<node, first>>
    BY <1>3 DEF PopFront, Fail
  <2>2. undefined' = FALSE
    BY <1>3 DEF PopFront, IInv, MemorySafe
  <2> QED
    BY <1>1, <1>2, <2>1, <2>2, ReplyTyped, Preserved DEF IInv
<1>4. CASE first[h] # Null
  <2>1. /\ first' = [first EXCEPT ![h] = node[first[h]].next]
        /\ reply' = Answer("pop_front", "OK", node[first[h]].val)
        /\ node' = Restrict(node, Live \ {first[h]})
        /\ Touch({first[h]})
    BY <1>4 DEF PopFront
  <2>2. Becomes(h, Dropped(List(h), 1)) /\ first[h] \in Live
    BY <1>1, <1>4, <2>1, PopFrontEffect
  <2>3. undefined' = FALSE
    BY <2>1, <2>2, TouchSafe
  <2>4. reply' \in [op: AllCalls, err: {"OK", "EMPTY", "NOT_FOUND", "ALLOCERR"},
                    val: Vals \cup {NoVal}]
    <3>1. node[first[h]].val \in Vals
      BY <2>2, LiveValue DEF IInv
    <3> QED
      BY <1>1, <2>1, <3>1, ReplyTyped DEF IInv
  <2> QED
    BY <1>1, <1>2, <2>2, <2>3, <2>4, Preserved
<1> QED
  BY <1>3, <1>4

LEMMA FindStep ==
    ASSUME IInv, NEW h \in Handles, NEW k \in Keys, Find(h, k) PROVE IInv'
<1>1. first[h] # Absent /\ "find" \in used
  BY DEF Find, Call
<1>2. UNCHANGED <<node, first>> /\ used' = used /\ aborted' \in BOOLEAN
  BY DEF Find, IInv, TypeOK
<1>3. undefined' = FALSE
  BY <1>1, MatchFacts, TouchSafe DEF Find
<1>4. CASE Matches(h, k) = {}
  <2>1. PICK err \in {"EMPTY", "NOT_FOUND"} : reply' = Answer("find", err, NoVal)
    BY <1>4 DEF Find, Missing
  <2> QED
    BY <1>1, <1>2, <1>3, <2>1, ReplyTyped, Preserved DEF IInv
<1>5. CASE Matches(h, k) # {}
  <2> DEFINE x == List(h)[Match(h, k)]
  <2>1. reply' = Answer("find", "OK", node[x].val)
    BY <1>5 DEF Find
  <2>2. x \in Live
    <3>1. Match(h, k) \in DOMAIN List(h) /\ List(h) \in Seq(Live)
      BY <1>1, <1>5, MatchFacts, ListFacts
    <3> QED
      BY <3>1
  <2>3. node[x].val \in Vals
    BY <2>2, LiveValue DEF IInv
  <2> HIDE DEF x
  <2> QED
    BY <1>1, <1>2, <1>3, <2>1, <2>3, ReplyTyped, Preserved DEF IInv
<1> QED
  BY <1>4, <1>5

LEMMA ReplaceStep ==
    ASSUME IInv, NEW h \in Handles, NEW v \in Vals, Replace(h, v) PROVE IInv'
<1>1. first[h] # Absent
  BY DEF Replace, Call
<1>2. first' = first /\ used' = used /\ aborted' \in BOOLEAN
  BY DEF Replace, IInv, TypeOK
<1>3. undefined' = FALSE
  <2>1. Searched(h, v.key) \subseteq Live
    BY <1>1, MatchFacts
  <2> QED
    BY <2>1, TouchSafe DEF Replace
<1>4. reply' \in [op: AllCalls, err: {"OK", "EMPTY", "NOT_FOUND", "ALLOCERR"},
                  val: Vals \cup {NoVal}]
  <2>1. PICK err \in {"OK", "EMPTY", "NOT_FOUND"} : reply' = Answer("replace", err, NoVal)
    BY DEF Replace, Missing
  <2> QED
    BY <2>1, ReplyTyped DEF IInv
<1>5. CASE Matches(h, v.key) = {}
  BY <1>2, <1>3, <1>4, <1>5, Preserved DEF Replace
<1>6. CASE Matches(h, v.key) # {}
  <2> DEFINE i == Match(h, v.key)
  <2>1. i \in DOMAIN List(h)
    BY <1>1, <1>6, MatchFacts
  <2>2. node' = [node EXCEPT ![List(h)[i]].val = v]
    BY <1>6 DEF Replace
  <2> HIDE DEF i
  <2>3. Becomes(h, List(h)) /\ (Backed(node, List(h)) => Backed(node', List(h)))
    BY <1>1, <1>2, <2>1, <2>2, ReplaceEffect
  <2>4. "remove" \in used => Backed(node', List(h))
    BY <1>1, <2>3, ListBacked
  <2> QED
    BY <1>2, <1>3, <1>4, <2>3, <2>4, Preserved
<1> QED
  BY <1>5, <1>6

LEMMA RemoveStep ==
    ASSUME IInv, NEW h \in Handles, NEW k \in Keys, Remove(h, k) PROVE IInv'
<1>1. first[h] # Absent /\ "remove" \in used /\ Searched(h, k) \subseteq Live
  BY MatchFacts DEF Remove, Call
<1>2. used' = used /\ aborted' \in BOOLEAN
  BY DEF Remove, IInv, TypeOK
<1>3. reply' \in [op: AllCalls, err: {"OK", "EMPTY", "NOT_FOUND", "ALLOCERR"},
                  val: Vals \cup {NoVal}]
  <2>1. PICK err \in {"OK", "NOT_FOUND"} : reply' = Answer("remove", err, NoVal)
    BY DEF Remove, Fail
  <2> QED
    BY <1>1, <2>1, ReplyTyped DEF IInv
<1>4. CASE Matches(h, k) = {}
  <2>1. UNCHANGED <<node, first>> /\ Touch(Searched(h, k))
    BY <1>4 DEF Remove, Fail
  <2> QED
    BY <1>1, <1>2, <1>3, <2>1, TouchSafe, Preserved
<1>5. CASE Matches(h, k) # {}
  <2> DEFINE i == Match(h, k)
             a == List(h)[i]
             before == node[a].prev
             after == node[a].next
  <2>1. i \in DOMAIN List(h) /\ Backed(node, List(h))
    BY <1>1, <1>5, MatchFacts, ListBacked
  <2>2. /\ Touch(Searched(h, k) \cup ({before, after} \ {Null}))
        /\ node' = Restrict(Linked(Linked(node, before, "next", after),
                                   after, "prev", before),
                            Live \ {a})
        /\ first' = IF before = Null THEN [first EXCEPT ![h] = after] ELSE first
    BY <1>5 DEF Remove
  <2> HIDE DEF i
  <2>3. /\ Becomes(h, Dropped(List(h), i)) /\ Backed(node', Dropped(List(h), i))
        /\ {before, after} \ {Null} \subseteq Live
    BY <1>1, <2>1, <2>2, RemoveEffect
  <2>4. undefined' = FALSE
    <3> DEFINE P == Searched(h, k) \cup ({before, after} \ {Null})
    <3>1. P \subseteq Live /\ Touch(P)
      BY <1>1, <2>2, <2>3
    <3> HIDE DEF P
    <3> QED
      BY <3>1, TouchSafe
  <2> QED
    BY <1>2, <1>3, <2>3, <2>4, Preserved
<1> QED
  BY <1>4, <1>5

LEMMA CopyStep ==
    ASSUME IInv, NEW h \in Handles, NEW g \in Handles, Copy(h, g) PROVE IInv'
<1>1. first[h] # Absent /\ first[g] = Absent /\ "copy" \in used
  BY DEF Copy, Call
<1>2. used' = used
  BY DEF Copy
<1>3. undefined' = FALSE
  <2>1. Walked(h) \subseteq Live
    BY <1>1, ListFacts
  <2> QED
    BY <2>1, TouchSafe DEF Copy
<1>4. CASE Fail("copy", "ALLOCERR") /\ UNCHANGED aborted
  BY <1>1, <1>2, <1>3, <1>4, ReplyTyped, Preserved DEF Fail, IInv, TypeOK
<1>5. CASE aborted' = TRUE /\ UNCHANGED <<node, first, reply>>
  BY <1>2, <1>3, <1>5, Preserved DEF IInv, TypeOK
<1>6. ASSUME NEW n \in 0..Len(List(h)), NEW kept \in SUBSET (1..n),
             NEW at \in Allocations(Cardinality(kept)),
             node' = Built(ValuesAt(h, kept), at),
             first' = [first EXCEPT ![g] = IF kept = {} THEN Null ELSE at[1]],
             NEW err \in {"OK", "EMPTY", "ALLOCERR"}, reply' = Answer("copy", err, NoVal),
             UNCHANGED aborted
      PROVE  IInv'
  <2> DEFINE values == ValuesAt(h, kept)
  <2>1. /\ values \in Seq(Vals) /\ Len(values) = Cardinality(kept)
        /\ Cardinality(kept) \in Nat /\ (Cardinality(kept) = 0 <=> kept = {})
    BY <1>1, ValuesAtFacts
  <2>2. node' = Built(values, at) /\ at \in Allocations(Len(values))
    BY <1>6, <2>1
  <2>3. first' = [first EXCEPT ![g] = At(at, 1)]
    <3>1. DOMAIN at = 1..Cardinality(kept)
      BY DEF Allocations
    <3>2. \A m \in Nat : 1 \in 1..m <=> m # 0
      OBVIOUS
    <3>3. 1 \in 1..Cardinality(kept) <=> kept # {}
      BY <2>1, <3>2
    <3> QED
      BY <1>6, <3>1, <3>3 DEF At
  <2> HIDE DEF values
  <2>4. Becomes(g, at) /\ Backed(node', at)
    BY <1>1, <2>1, <2>2, <2>3, BuiltEffect, ZenonT(40)
  <2>5. reply' \in [op: AllCalls, err: {"OK", "EMPTY", "NOT_FOUND", "ALLOCERR"},
                    val: Vals \cup {NoVal}]
    BY <1>1, <1>6, ReplyTyped DEF IInv
  <2>6. aborted' \in BOOLEAN
    BY <1>6 DEF IInv, TypeOK
  <2> QED
    BY <1>2, <1>3, <2>4, <2>5, <2>6, Preserved
<1>7. \/ Fail("copy", "ALLOCERR") /\ UNCHANGED aborted
      \/ aborted' = TRUE /\ UNCHANGED <<node, first, reply>>
      \/ \E n \in 0..Len(List(h)) : \E kept \in SUBSET (1..n) :
            \E at \in Allocations(Cardinality(kept)) :
               \E err \in {"OK", "EMPTY", "ALLOCERR"} :
                  /\ node' = Built(ValuesAt(h, kept), at)
                  /\ first' = [first EXCEPT ![g] = IF kept = {} THEN Null ELSE at[1]]
                  /\ reply' = Answer("copy", err, NoVal)
                  /\ UNCHANGED aborted
  BY DEF Copy
<1> QED
  BY <1>4, <1>5, <1>6, <1>7

LEMMA NextIInv == IInv /\ [Next]_vars => IInv'
<1> SUFFICES ASSUME IInv, [Next]_vars PROVE IInv'
  OBVIOUS
<1>1. CASE UNCHANGED vars
  BY <1>1, Preserved DEF vars, IInv, MemorySafe, TypeOK
<1>2. CASE Next
  BY <1>2, NewStep, FreeStep, PopFrontStep, PushBackStep, PushFrontStep, ReplaceStep,
     FindStep, RemoveStep, CopyStep DEF Next
<1> QED
  BY <1>1, <1>2

\* The lists are chains of nodes that share none, in every state.
THEOREM Invariance == Spec => []IInv
BY InitIInv, NextIInv, PTL DEF Spec

\* Every variable has its type.
THEOREM TypeCorrect == Spec => []TypeOK
BY Invariance, IInvImplies, PTL

\* No call of the list dereferences a node that was freed, whatever address
\* malloc gives out again.
THEOREM NeverFreedMemory == Spec => []MemorySafe
BY Invariance, IInvImplies, PTL

\* Every allocated node is on exactly one list, and every list ends.
THEOREM NodesAccounted == Spec => []NoNodeLost
BY Invariance, IInvImplies, PTL

\* Where nodes are removed, prev_node is the node before.
THEOREM BackLinked == Spec => []BackLinks
BY Invariance, IInvImplies, PTL

-----------------------------------------------------------------------------
(* The lists seen through their values *)

\* The values at the nodes of s.
Values(heap, s) == [i \in DOMAIN s |-> heap[s[i]].val]

\* s is a sequence of nodes of the heap.
Readable(heap, s) == heap \in [DOMAIN heap -> Node] /\ s \in Seq(DOMAIN heap)

\* What the abstract lists are.
Abstract == [h \in Handles |-> Contents(h)]

LEMMA SeqIsFunction ==
    ASSUME NEW V, NEW t \in Seq(V)
    PROVE  t = [i \in 1..Len(t) |-> t[i]]
  OBVIOUS

LEMMA SameSeq ==
    ASSUME NEW V, NEW t \in Seq(V), NEW u \in Seq(V), Len(t) = Len(u),
           \A i \in 1..Len(t) : t[i] = u[i]
    PROVE  t = u
  OBVIOUS

LEMMA ValuesSeq ==
    ASSUME NEW heap, NEW s, Readable(heap, s)
    PROVE  /\ Values(heap, s) \in Seq(Vals) /\ Len(Values(heap, s)) = Len(s)
           /\ DOMAIN Values(heap, s) = 1..Len(s) /\ DOMAIN s = 1..Len(s) /\ Len(s) \in Nat
           /\ \A i \in 1..Len(s) : Values(heap, s)[i] = heap[s[i]].val
<1> DEFINE n == Len(s)
<1>1. n \in Nat /\ DOMAIN s = 1..n /\ \A i \in 1..n : s[i] \in DOMAIN heap
  BY DEF Readable
<1>2. \A i \in 1..n : heap[s[i]].val \in Vals
  BY <1>1 DEF Node, Readable
<1>3. Values(heap, s) = [i \in 1..n |-> heap[s[i]].val]
  BY <1>1 DEF Values
<1> HIDE DEF n
<1>4. Values(heap, s) \in [1..n -> Vals]
  BY <1>2, <1>3
<1>5. Values(heap, s) \in Seq(Vals) /\ Len(Values(heap, s)) = n
  BY <1>1, <1>4, FunctionIsSeq
<1> QED
  BY <1>1, <1>3, <1>5 DEF n

\* The values of a list that exists.
LEMMA ContentsAre ==
    ASSUME IInv, NEW h \in Handles, first[h] # Absent
    PROVE  /\ Readable(node, List(h))
           /\ Contents(h) = Values(node, List(h)) /\ Contents(h) \in Seq(Vals)
           /\ Contents(h) # Absent /\ Len(Contents(h)) = Len(List(h))
           /\ DOMAIN List(h) = 1..Len(List(h)) /\ DOMAIN Contents(h) = DOMAIN List(h)
           /\ Len(List(h)) \in Nat
           /\ \A i \in DOMAIN List(h) : Contents(h)[i] = node[List(h)[i]].val
<1>1. Readable(node, List(h))
  BY ListFacts DEF IInv, TypeOK, Live, Readable
<1>2. Contents(h) = Values(node, List(h))
  BY DEF Contents, Values
<1> QED
  BY <1>1, <1>2, ValuesSeq, ListAssumption

\* A step that makes a chain another does the same to its values.
LEMMA AbstractBecomes ==
    ASSUME IInv, NEW h \in Handles, NEW s, Becomes(h, s)
    PROVE  Abstract' = [Abstract EXCEPT ![h] = IF first'[h] = Absent THEN Absent
                                               ELSE Values(node', s)]
<1>1. /\ Seqs' = Updated(Seqs, h, s)
      /\ \A g \in Handles \ {h} : Untouched(node, node', Seqs[g])
  BY BecomesLinked
<1>2. first \in [Handles -> Ptr \cup {Absent}] /\ first' = [first EXCEPT ![h] = first'[h]]
  BY DEF Becomes, IInv, TypeOK
<1>3. ASSUME NEW g \in Handles
      PROVE  Contents(g)' = IF first'[g] = Absent THEN Absent ELSE Values(node', Seqs'[g])
  BY DEF Contents, Values, Seqs
<1>4. ASSUME NEW g \in Handles
      PROVE  Contents(g) = IF first[g] = Absent THEN Absent ELSE Values(node, Seqs[g])
  BY DEF Contents, Values, Seqs
<1>5. ASSUME NEW g \in Handles, g # h PROVE Contents(g)' = Contents(g)
  <2>1. first'[g] = first[g] /\ Seqs'[g] = Seqs[g]
    BY <1>1, <1>2, <1>5 DEF Seqs, Updated
  <2>2. Values(node', Seqs[g]) = Values(node, Seqs[g])
    BY <1>1, <1>5 DEF Values, Untouched
  <2> QED
    BY <1>3, <1>4, <2>1, <2>2
<1>6. Contents(h)' = IF first'[h] = Absent THEN Absent ELSE Values(node', s)
  <2>1. Seqs'[h] = s
    BY <1>1 DEF Seqs, Updated
  <2> QED
    BY <1>3, <2>1
<1> QED
  BY <1>5, <1>6 DEF Abstract

LEMMA AbstractKept ==
    ASSUME UNCHANGED <<node, first>>
    PROVE  Abstract' = Abstract
  BY DEF Abstract, Contents, List

\* The values of a chain with one more node, behind or in front.
LEMMA ValuesBehind ==
    ASSUME NEW heap, NEW heap2, NEW s, Readable(heap, s), NEW a,
           NEW v \in Vals, heap2[a].val = v,
           Kept(heap, heap2, s, 0)
    PROVE  Values(heap2, Append(s, a)) = Append(Values(heap, s), v)
<1> DEFINE t == Values(heap, s)
           n == Len(s)
<1>1. /\ t \in Seq(Vals) /\ Len(t) = n /\ n \in Nat /\ DOMAIN s = 1..n
      /\ \A i \in 1..n : t[i] = heap[s[i]].val /\ heap2[s[i]].val = t[i]
  BY ValuesSeq DEF Kept
<1> HIDE DEF t
<1>2. DOMAIN Append(s, a) = 1..(n + 1) /\ DOMAIN Append(t, v) = 1..(n + 1)
  BY <1>1
<1>3. ASSUME NEW i \in 1..(n + 1) PROVE heap2[Append(s, a)[i]].val = Append(t, v)[i]
  <2>1. CASE i = n + 1
    BY <1>1, <2>1
  <2>2. CASE i # n + 1
    <3>1. i \in 1..n /\ Append(s, a)[i] = s[i] /\ Append(t, v)[i] = t[i]
      BY <1>1, <2>2
    <3> QED
      BY <1>1, <3>1
  <2> QED
    BY <2>1, <2>2
<1>4. Append(t, v) = [i \in 1..(n + 1) |-> Append(t, v)[i]]
  <2>1. Append(t, v) \in Seq(Vals) /\ Len(Append(t, v)) = n + 1
    BY <1>1
  <2> QED
    BY <2>1, SeqIsFunction
<1> QED
  BY <1>2, <1>3, <1>4 DEF Values, t

Before(a, s) == <<a>> \o s

LEMMA ValuesBefore ==
    ASSUME NEW heap, NEW heap2, NEW s, Readable(heap, s), NEW a,
           NEW v \in Vals, heap2[a].val = v,
           Kept(heap, heap2, s, 0)
    PROVE  Values(heap2, Before(a, s)) = Before(v, Values(heap, s))
<1> DEFINE t == Values(heap, s)
           n == Len(s)
<1>1. /\ t \in Seq(Vals) /\ Len(t) = n /\ n \in Nat /\ DOMAIN s = 1..n
      /\ \A i \in 1..n : t[i] = heap[s[i]].val /\ heap2[s[i]].val = t[i]
  BY ValuesSeq DEF Kept
<1> HIDE DEF t
<1>2. DOMAIN (<<a>> \o s) = 1..(n + 1) /\ DOMAIN (<<v>> \o t) = 1..(n + 1)
  BY <1>1
<1>3. ASSUME NEW i \in 1..(n + 1) PROVE heap2[(<<a>> \o s)[i]].val = (<<v>> \o t)[i]
  <2>1. CASE i = 1
    BY <1>1, <2>1
  <2>2. CASE i # 1
    <3>1. /\ i - 1 \in 1..n /\ (<<a>> \o s)[i] = s[i - 1]
          /\ (<<v>> \o t)[i] = t[i - 1]
      BY <1>1, <2>2
    <3> QED
      BY <1>1, <3>1
  <2> QED
    BY <2>1, <2>2
<1>4. <<v>> \o t = [i \in 1..(n + 1) |-> (<<v>> \o t)[i]]
  BY <1>1, <1>2
<1> QED
  BY <1>2, <1>3, <1>4 DEF Values, Before, t

\* A sequence without its i-th element.
LEMMA WithoutIs ==
    ASSUME NEW V, NEW t \in Seq(V), NEW i \in 1..Len(t)
    PROVE  LET r == Promise!Without(t, i) IN
           /\ r \in Seq(V) /\ Len(r) = Len(t) - 1 /\ DOMAIN r = 1..(Len(t) - 1)
           /\ \A j \in 1..(Len(t) - 1) : r[j] = IF j < i THEN t[j] ELSE t[j + 1]
<1> DEFINE r == Promise!Without(t, i)
           low == SubSeq(t, 1, i - 1)
           high == SubSeq(t, i + 1, Len(t))
           n == Len(t)
<1>1. n \in Nat /\ i \in 1..n
  OBVIOUS
<1>2. /\ low \in Seq(V) /\ Len(low) = i - 1
      /\ \A j \in 1..(i - 1) : low[j] = t[j]
  BY <1>1
<1>3. /\ high \in Seq(V) /\ Len(high) = n - i
      /\ \A j \in 1..(n - i) : high[j] = t[j + i]
  BY <1>1
<1>4. r = low \o high
  BY DEF Promise!Without
<1> HIDE DEF low, high, r, n
<1>5. r \in Seq(V) /\ Len(r) = n - 1 /\ DOMAIN r = 1..(n - 1)
  BY <1>1, <1>2, <1>3, <1>4
<1>6. ASSUME NEW j \in 1..(n - 1) PROVE r[j] = IF j < i THEN t[j] ELSE t[j + 1]
  <2>1. CASE j < i
    <3>1. j \in 1..(i - 1) /\ r[j] = low[j]
      BY <1>1, <1>2, <1>3, <1>4, <2>1
    <3> QED
      BY <1>2, <2>1, <3>1
  <2>2. CASE ~(j < i)
    <3>1. j - (i - 1) \in 1..(n - i) /\ r[j] = high[j - (i - 1)]
      BY <1>1, <1>2, <1>3, <1>4, <2>2
    <3>2. (j - (i - 1)) + i = j + 1
      BY <1>1
    <3> QED
      BY <1>3, <2>2, <3>1, <3>2
  <2> QED
    BY <2>1, <2>2
<1> QED
  BY <1>5, <1>6 DEF n, r

LEMMA WithoutFirst ==
    ASSUME NEW V, NEW t \in Seq(V), 1 \in DOMAIN t
    PROVE  Promise!Without(t, 1) = Tail(t)
<1> DEFINE n == Len(t)
           r == Promise!Without(t, 1)
<1>1. 1 \in 1..n /\ n - 1 \in Nat
  OBVIOUS
<1>2. /\ r \in Seq(V) /\ Len(r) = n - 1
      /\ \A j \in 1..(n - 1) : r[j] = IF j < 1 THEN t[j] ELSE t[j + 1]
  BY <1>1, WithoutIs
<1>3. /\ Tail(t) \in Seq(V) /\ Len(Tail(t)) = n - 1
      /\ \A j \in 1..(n - 1) : Tail(t)[j] = t[j + 1]
  BY <1>1
<1> HIDE DEF r, n
<1>4. \A j \in 1..(n - 1) : r[j] = Tail(t)[j]
  BY <1>2, <1>3
<1> QED
  BY <1>2, <1>3, <1>4, SameSeq DEF r

\* The values of a chain without its i-th node.
LEMMA ValuesLess ==
    ASSUME NEW heap, NEW heap2, NEW s, Readable(heap, s), NEW i, i \in DOMAIN s,
           Kept(heap, heap2, s, i)
    PROVE  Values(heap2, Dropped(s, i)) = Promise!Without(Values(heap, s), i)
<1> DEFINE t == Values(heap, s)
           n == Len(s)
           r == Promise!Without(t, i)
           d == Dropped(s, i)
<1>1. /\ t \in Seq(Vals) /\ Len(t) = n /\ n \in Nat /\ DOMAIN s = 1..n
      /\ \A j \in 1..n : t[j] = heap[s[j]].val /\ (j # i => heap2[s[j]].val = t[j])
  BY ValuesSeq DEF Kept
<1>2. i \in 1..n /\ n - 1 \in Nat
  BY <1>1
<1>3. /\ DOMAIN d = 1..(n - 1)
      /\ \A j \in 1..(n - 1) : d[j] = IF j < i THEN s[j] ELSE s[j + 1]
  BY DEF Dropped
<1> HIDE DEF t, d
<1>4. /\ r \in Seq(Vals) /\ Len(r) = n - 1
      /\ \A j \in 1..(n - 1) : r[j] = IF j < i THEN t[j] ELSE t[j + 1]
  BY <1>1, <1>2, WithoutIs
<1> HIDE DEF r
<1>5. ASSUME NEW j \in 1..(n - 1) PROVE heap2[d[j]].val = r[j]
  <2>1. CASE j < i
    BY <1>1, <1>2, <1>3, <1>4, <2>1
  <2>2. CASE ~(j < i)
    <3>1. j + 1 \in 1..n /\ j + 1 # i
      BY <1>2, <2>2
    <3> QED
      BY <1>1, <1>3, <1>4, <2>2, <3>1
  <2> QED
    BY <2>1, <2>2
<1>6. r = [j \in 1..(n - 1) |-> r[j]]
  BY <1>4, SeqIsFunction
<1> QED
  BY <1>3, <1>5, <1>6 DEF Values, t, r, d

-----------------------------------------------------------------------------
(* The steps seen through the values *)

LEMMA AbstractAt == \A h \in Handles : Abstract[h] = Contents(h)
BY DEF Abstract

LEMMA Succeeds ==
    ASSUME NEW op, NEW g \in Handles, NEW t, reply' = Answer(op, "OK", NoVal),
           Abstract' = [Abstract EXCEPT ![g] = t]
    PROVE  Promise!Succeed(op, g, t)
BY DEF Promise!Succeed, Promise!Answer, Answer, Abstract

LEMMA Fails ==
    ASSUME NEW op, NEW err, Fail(op, err)
    PROVE  Promise!Fail(op, err)
<1>1. Abstract' = Abstract
  BY AbstractKept DEF Fail
<1> QED
  BY <1>1 DEF Fail, Promise!Fail, Promise!Answer, Answer, Abstract

\* The places of a key are the nodes that match it.
LEMMA PlacesAre ==
    ASSUME IInv, NEW h \in Handles, first[h] # Absent, NEW k
    PROVE  /\ Promise!Places(Contents(h), k) = Matches(h, k)
           /\ Promise!Place(Contents(h), k) = Match(h, k)
           /\ Contents(h) = <<>> <=> first[h] = Null
           /\ first[h] = Null => Matches(h, k) = {}
<1>1. /\ DOMAIN Contents(h) = DOMAIN List(h) /\ Contents(h) \in Seq(Vals)
      /\ DOMAIN List(h) = 1..Len(List(h)) /\ Len(Contents(h)) = Len(List(h))
      /\ \A i \in DOMAIN List(h) : Contents(h)[i] = node[List(h)[i]].val
  BY ContentsAre
<1>2. Promise!Places(Contents(h), k) = Matches(h, k)
  BY <1>1 DEF Promise!Places, Matches
<1>3. Promise!Place(Contents(h), k) = Match(h, k)
  BY <1>2 DEF Promise!Place, Match
<1>4. List(h) = <<>> <=> first[h] = Null
  BY ListFacts
<1>5. Contents(h) = <<>> <=> List(h) = <<>>
  <2>1. List(h) \in Seq(Live)
    BY ListFacts
  <2> QED
    BY <1>1, <2>1
<1>6. first[h] = Null => Matches(h, k) = {}
  BY <1>4 DEF Matches
<1> QED
  BY <1>2, <1>3, <1>4, <1>5, <1>6

LEMMA NewRefines ==
    ASSUME IInv, NEW h \in Handles, New(h)
    PROVE  Promise!New(h)
<1>1. first[h] = Absent /\ Contents(h) = Absent
  BY DEF New, Contents
<1>2. ~Promise!Exists(h)
  BY <1>1 DEF Promise!Exists
<1>3. CASE first' = first /\ reply' = Answer("new", "ALLOCERR", NoVal)
  <2>1. Fail("new", "ALLOCERR")
    BY <1>3 DEF Fail, New
  <2> QED
    BY <1>2, <2>1, Fails DEF Promise!New
<1>4. CASE first' = [first EXCEPT ![h] = Null] /\ reply' = Answer("new", "OK", NoVal)
  <2>1. Becomes(h, <<>>) /\ first'[h] = Null /\ Null # Absent
    BY <1>1, <1>4, NewEffect, ListAssumption DEF New
  <2>2. Values(node', <<>>) = <<>>
    BY DEF Values
  <2>3. Abstract' = [Abstract EXCEPT ![h] = <<>>]
    BY <2>1, <2>2, AbstractBecomes
  <2> QED
    BY <1>2, <1>4, <2>3, Succeeds DEF Promise!New
<1> QED
  BY <1>3, <1>4 DEF New

LEMMA FreeRefines ==
    ASSUME IInv, NEW h \in Handles, Free(h)
    PROVE  Promise!Free(h)
<1>1. /\ first[h] # Absent /\ reply' = Answer("free", "OK", NoVal)
      /\ node' = Restrict(node, Live \ Range(List(h)))
      /\ first' = [first EXCEPT ![h] = Absent]
  BY DEF Free, Call
<1>2. Becomes(h, <<>>) /\ first'[h] = Absent
  BY <1>1, FreeEffect
<1>3. Abstract' = [Abstract EXCEPT ![h] = Absent]
  BY <1>2, AbstractBecomes
<1> QED
  BY <1>1, <1>3, Succeeds DEF Promise!Free

LEMMA PushBackRefines ==
    ASSUME IInv, NEW h \in Handles, NEW v \in Vals, PushBack(h, v)
    PROVE  Promise!PushBack(h, v)
<1>1. first[h] # Absent /\ Readable(node, List(h))
  BY ContentsAre DEF PushBack, Call
<1>2. CASE Fail("push_back", "ALLOCERR")
  BY <1>2, Fails DEF Promise!PushBack
<1>3. ASSUME NEW a \in Fresh,
             node' = Linked(Allocate(a, [val |-> v, prev |-> LastNode(h), next |-> Null]),
                            LastNode(h), "next", a),
             first' = IF first[h] = Null THEN [first EXCEPT ![h] = a] ELSE first,
             reply' = Answer("push_back", "OK", NoVal)
      PROVE  Promise!PushBack(h, v)
  <2>1. /\ Becomes(h, Append(List(h), a)) /\ first'[h] # Absent
        /\ Kept(node, node', List(h), 0)
        /\ node'[a].val = v
    BY <1>1, <1>3, PushBackEffect
  <2>2. Values(node', Append(List(h), a)) = Append(Contents(h), v)
    <3>1. Values(node', Append(List(h), a)) = Append(Values(node, List(h)), v)
      BY <1>1, <2>1, ValuesBehind
    <3> QED
      BY <1>1, <3>1, ContentsAre
  <2>3. Abstract' = [Abstract EXCEPT ![h] = Append(Abstract[h], v)]
    BY <2>1, <2>2, AbstractBecomes, AbstractAt
  <2>4. Promise!Succeed("push_back", h, Append(Abstract[h], v))
    BY <1>3, <2>3, Succeeds
  <2> QED
    BY <2>4 DEF Promise!PushBack, Abstract
<1> QED
  BY <1>2, <1>3 DEF PushBack

LEMMA PushFrontRefines ==
    ASSUME IInv, NEW h \in Handles, NEW v \in Vals, PushFront(h, v)
    PROVE  Promise!PushFront(h, v)
<1>1. first[h] # Absent /\ Readable(node, List(h))
  BY ContentsAre DEF PushFront, Call
<1>2. CASE Fail("push_front", "ALLOCERR")
  BY <1>2, Fails DEF Promise!PushFront
<1>3. ASSUME NEW a \in Fresh,
             node' = Allocate(a, [val |-> v, prev |-> Null, next |-> first[h]]),
             first' = [first EXCEPT ![h] = a],
             reply' = Answer("push_front", "OK", NoVal)
      PROVE  Promise!PushFront(h, v)
  <2>1. /\ Becomes(h, <<a>> \o List(h)) /\ first'[h] # Absent
        /\ Kept(node, node', List(h), 0)
        /\ node'[a].val = v
    BY <1>1, <1>3, PushFrontEffect
  <2>2. Values(node', <<a>> \o List(h)) = <<v>> \o Contents(h)
    <3>1. Values(node', Before(a, List(h))) = Before(v, Values(node, List(h)))
      BY <1>1, <2>1, ValuesBefore
    <3> QED
      BY <1>1, <3>1, ContentsAre DEF Before
  <2>3. Abstract' = [Abstract EXCEPT ![h] = <<v>> \o Abstract[h]]
    BY <2>1, <2>2, AbstractBecomes, AbstractAt
  <2>4. Promise!Succeed("push_front", h, <<v>> \o Abstract[h])
    BY <1>3, <2>3, Succeeds
  <2> QED
    BY <2>4 DEF Promise!PushFront, Abstract
<1> QED
  BY <1>2, <1>3 DEF PushFront

LEMMA PopFrontRefines ==
    ASSUME IInv, NEW h \in Handles, PopFront(h)
    PROVE  Promise!PopFront(h)
<1>1. first[h] # Absent /\ Readable(node, List(h))
  BY ContentsAre DEF PopFront, Call
<1>2. Contents(h) = <<>> <=> first[h] = Null
  BY <1>1, PlacesAre
<1>3. CASE first[h] = Null
  <2>1. Fail("pop_front", "EMPTY") /\ Abstract[h] = <<>>
    BY <1>2, <1>3, AbstractAt DEF PopFront
  <2> QED
    BY <2>1, Fails DEF Promise!PopFront, Abstract
<1>4. CASE first[h] # Null
  <2>1. /\ first' = [first EXCEPT ![h] = node[first[h]].next]
        /\ reply' = Answer("pop_front", "OK", node[first[h]].val)
        /\ node' = Restrict(node, Live \ {first[h]})
    BY <1>4 DEF PopFront
  <2>2. /\ Becomes(h, Dropped(List(h), 1)) /\ first'[h] # Absent
        /\ 1 \in DOMAIN List(h) /\ first[h] = List(h)[1]
        /\ Kept(node, node', List(h), 1)
    BY <1>1, <1>4, <2>1, PopFrontEffect
  <2>3. Values(node', Dropped(List(h), 1)) = Tail(Contents(h))
    <3>1. Values(node', Dropped(List(h), 1)) = Promise!Without(Values(node, List(h)), 1)
      BY <1>1, <2>2, ValuesLess
    <3>2. Contents(h) \in Seq(Vals) /\ 1 \in DOMAIN Contents(h)
      BY <1>1, <2>2, ContentsAre
    <3>3. Promise!Without(Contents(h), 1) = Tail(Contents(h))
      BY <3>2, WithoutFirst
    <3> QED
      BY <1>1, <3>1, <3>3, ContentsAre
  <2>4. Head(Contents(h)) = node[first[h]].val
    BY <1>1, <2>2, ContentsAre
  <2>5. Abstract' = [Abstract EXCEPT ![h] = Tail(Abstract[h])]
    BY <2>2, <2>3, AbstractBecomes, AbstractAt
  <2>6. Abstract[h] # <<>> /\ reply' = Answer("pop_front", "OK", Head(Abstract[h]))
    BY <1>2, <1>4, <2>1, <2>4, AbstractAt
  <2> QED
    BY <2>5, <2>6 DEF Promise!PopFront, Promise!Answer, Answer, Abstract
<1> QED
  BY <1>3, <1>4

\* A search that finds nothing.
LEMMA Misses ==
    ASSUME IInv, NEW h \in Handles, first[h] # Absent, NEW k, NEW op,
           Matches(h, k) = {}, reply' = Missing(op, h), UNCHANGED <<node, first>>
    PROVE  Promise!NotThere(op, h, k)
<1>1. /\ Promise!Places(Abstract[h], k) = {} /\ (Abstract[h] = <<>> <=> first[h] = Null)
  BY PlacesAre, AbstractAt
<1>2. CASE first[h] = Null
  <2>1. Fail(op, "EMPTY")
    BY <1>2 DEF Missing, Fail
  <2> QED
    BY <1>1, <1>2, <2>1, Fails DEF Promise!NotThere, Abstract
<1>3. CASE first[h] # Null
  <2>1. Fail(op, "NOT_FOUND")
    BY <1>3 DEF Missing, Fail
  <2> QED
    BY <1>1, <1>3, <2>1, Fails DEF Promise!NotThere, Abstract
<1> QED
  BY <1>2, <1>3

LEMMA FindRefines ==
    ASSUME IInv, NEW h \in Handles, NEW k \in Keys, Find(h, k)
    PROVE  Promise!Find(h, k)
<1>1. first[h] # Absent /\ UNCHANGED <<node, first>>
  BY DEF Find, Call
<1>2. CASE Matches(h, k) = {}
  BY <1>1, <1>2, Misses DEF Find, Promise!Find
<1>3. CASE Matches(h, k) # {}
  <2>1. Match(h, k) \in DOMAIN List(h)
    BY <1>1, <1>3, MatchFacts
  <2>2. reply' = Answer("find", "OK", Contents(h)[Match(h, k)])
    BY <1>1, <1>3, <2>1, ContentsAre DEF Find
  <2>3. /\ Promise!Places(Abstract[h], k) # {} /\ Abstract' = Abstract
        /\ reply' = Answer("find", "OK", Abstract[h][Promise!Place(Abstract[h], k)])
    BY <1>1, <1>3, <2>2, PlacesAre, AbstractAt, AbstractKept
  <2> QED
    BY <2>3 DEF Promise!Find, Promise!Answer, Answer, Abstract
<1> QED
  BY <1>2, <1>3

LEMMA ReplaceRefines ==
    ASSUME IInv, NEW h \in Handles, NEW v \in Vals, Replace(h, v)
    PROVE  Promise!Replace(h, v)
<1>1. first[h] # Absent /\ first' = first
  BY DEF Replace, Call
<1>2. CASE Matches(h, v.key) = {}
  <2>1. reply' = Missing("replace", h) /\ UNCHANGED <<node, first>>
    BY <1>1, <1>2 DEF Replace
  <2> QED
    BY <1>1, <1>2, <2>1, Misses DEF Promise!Replace
<1>3. CASE Matches(h, v.key) # {}
  <2> DEFINE i == Match(h, v.key)
             s == List(h)
             t == Contents(h)
             u == [t EXCEPT ![i] = v]
  <2>1. i \in DOMAIN s
    BY <1>1, <1>3, MatchFacts
  <2>2. node' = [node EXCEPT ![s[i]].val = v] /\ reply' = Answer("replace", "OK", NoVal)
    BY <1>3 DEF Replace
  <2> HIDE DEF i
  <2>3. /\ Becomes(h, s)
        /\ Kept(node, node', s, i) /\ node'[s[i]].val = v
    BY <1>1, <2>1, <2>2, ReplaceEffect
  <2>4. /\ t \in Seq(Vals) /\ DOMAIN t = DOMAIN s
        /\ \A j \in DOMAIN s : t[j] = node[s[j]].val
    BY <1>1, ContentsAre
  <2> HIDE DEF s, t
  <2>5. Values(node', s) = u
    BY <2>1, <2>3, <2>4 DEF Values, Kept
  <2>6. Abstract' = [Abstract EXCEPT ![h] = u]
    BY <1>1, <2>3, <2>5, AbstractBecomes
  <2>7. /\ Promise!Places(Abstract[h], v.key) # {} /\ t = Abstract[h]
        /\ i = Promise!Place(Abstract[h], v.key)
    BY <1>1, <1>3, PlacesAre, AbstractAt DEF i, t
  <2>8. Promise!Succeed("replace", h,
                        [Abstract[h] EXCEPT ![Promise!Place(Abstract[h], v.key)] = v])
    BY <2>2, <2>6, <2>7, Succeeds
  <2> QED
    BY <2>7, <2>8 DEF Promise!Replace, Abstract
<1> QED
  BY <1>2, <1>3

LEMMA RemoveRefines ==
    ASSUME IInv, NEW h \in Handles, NEW k \in Keys, Remove(h, k)
    PROVE  Promise!Remove(h, k)
<1>1. first[h] # Absent /\ Backed(node, List(h)) /\ Readable(node, List(h))
  BY ContentsAre, ListBacked DEF Remove, Call
<1>2. CASE Matches(h, k) = {}
  <2>1. Fail("remove", "NOT_FOUND") /\ Promise!Places(Abstract[h], k) = {}
    BY <1>1, <1>2, PlacesAre, AbstractAt DEF Remove
  <2> QED
    BY <2>1, Fails DEF Promise!Remove, Abstract
<1>3. CASE Matches(h, k) # {}
  <2> DEFINE i == Match(h, k)
             a == List(h)[i]
             before == node[a].prev
             after == node[a].next
  <2>1. i \in DOMAIN List(h)
    BY <1>1, <1>3, MatchFacts
  <2>2. /\ node' = Restrict(Linked(Linked(node, before, "next", after),
                                   after, "prev", before),
                            Live \ {a})
        /\ first' = IF before = Null THEN [first EXCEPT ![h] = after] ELSE first
        /\ reply' = Answer("remove", "OK", NoVal)
    BY <1>3 DEF Remove
  <2> HIDE DEF i
  <2>3. /\ Becomes(h, Dropped(List(h), i)) /\ first'[h] # Absent
        /\ Kept(node, node', List(h), i)
    BY <1>1, <2>1, <2>2, RemoveEffect
  <2>4. Values(node', Dropped(List(h), i)) = Promise!Without(Contents(h), i)
    <3>1. Values(node', Dropped(List(h), i)) = Promise!Without(Values(node, List(h)), i)
      BY <1>1, <2>1, <2>3, ValuesLess
    <3> QED
      BY <1>1, <3>1, ContentsAre
  <2>5. Abstract' = [Abstract EXCEPT ![h] = Promise!Without(Abstract[h], i)]
    BY <2>3, <2>4, AbstractBecomes, AbstractAt
  <2>6. /\ Promise!Places(Abstract[h], k) # {}
        /\ i = Promise!Place(Abstract[h], k)
    BY <1>1, <1>3, PlacesAre, AbstractAt DEF i
  <2>7. Promise!Succeed("remove", h,
                        Promise!Without(Abstract[h], Promise!Place(Abstract[h], k)))
    BY <2>2, <2>5, <2>6, Succeeds
  <2> QED
    BY <2>6, <2>7 DEF Promise!Remove, Abstract
<1> QED
  BY <1>2, <1>3

\* The values a copy keeps are those of the list at the positions kept, all of
\* them when every position is.
LEMMA SelectedIs ==
    ASSUME IInv, NEW h \in Handles, first[h] # Absent,
           NEW n \in 0..Len(List(h)), NEW kept \in SUBSET (1..n)
    PROVE  ValuesAt(h, kept) = Promise!Selected(Contents(h), kept)
<1> DEFINE kth(k) == CHOOSE i \in kept : Cardinality({j \in kept : j < i}) = k - 1
           m == Cardinality(kept)
<1>1. /\ n \in Nat /\ kept \subseteq DOMAIN List(h)
      /\ \A i \in DOMAIN List(h) : Contents(h)[i] = node[List(h)[i]].val
  BY ContentsAre
<1>2. \A k \in 1..m : kth(k) \in kept
  BY <1>1, KthIsKept
<1>3. ValuesAt(h, kept) = [k \in 1..m |-> node[List(h)[kth(k)]].val]
  BY DEF ValuesAt
<1>4. Promise!Selected(Contents(h), kept) = [k \in 1..m |-> Contents(h)[kth(k)]]
  BY DEF Promise!Selected, Promise!Cardinality, Cardinality
<1> HIDE DEF kth, m
<1>5. \A k \in 1..m : node[List(h)[kth(k)]].val = Contents(h)[kth(k)]
  BY <1>1, <1>2
<1> QED
  BY <1>3, <1>4, <1>5

LEMMA SelectedAll ==
    ASSUME NEW V, NEW t \in Seq(V)
    PROVE  Promise!Selected(t, 1..Len(t)) = t
<1> DEFINE n == Len(t)
           kth(k) == CHOOSE i \in 1..n : Cardinality({j \in 1..n : j < i}) = k - 1
<1>1. n \in Nat /\ Cardinality(1..n) = n
  <2>1. n \in Nat /\ 1 \in Int /\ n \in Int
    OBVIOUS
  <2>2. Cardinality(1..n) = IF 1 > n THEN 0 ELSE n - 1 + 1
    BY <2>1, FS_Interval
  <2> QED
    BY <2>1, <2>2
<1>2. \A k \in 1..n : kth(k) = k
  BY <1>1, KthOfAll
<1>3. Promise!Selected(t, 1..n) = [k \in 1..n |-> t[kth(k)]]
  BY <1>1 DEF Promise!Selected, Promise!Cardinality, Cardinality
<1>4. t = [k \in 1..n |-> t[k]]
  BY SeqIsFunction
<1> HIDE DEF n, kth
<1>5. Promise!Selected(t, 1..n) = t
  BY <1>2, <1>3, <1>4
<1> QED
  BY <1>5 DEF n

LEMMA CopyRefines ==
    ASSUME IInv, Debug, NEW h \in Handles, NEW g \in Handles, Copy(h, g)
    PROVE  Promise!Copy(h, g) \/ UNCHANGED <<Abstract, reply>>
<1>1. first[h] # Absent /\ first[g] = Absent
  BY DEF Copy, Call
<1>2. ~Promise!Exists(g)
  BY <1>1 DEF Promise!Exists, Contents
<1>3. CASE Fail("copy", "ALLOCERR")
  BY <1>2, <1>3, Fails DEF Promise!Copy
<1>4. CASE UNCHANGED <<node, first, reply>>
  BY <1>4, AbstractKept
<1>5. ASSUME NEW n \in 0..Len(List(h)), NEW kept \in SUBSET (1..n),
             n = Len(List(h)) => kept = 1..n,
             NEW at \in Allocations(Cardinality(kept)),
             node' = Built(ValuesAt(h, kept), at),
             first' = [first EXCEPT ![g] = IF kept = {} THEN Null ELSE at[1]],
             reply' = Answer("copy", IF n < Len(List(h)) THEN "ALLOCERR"
                                     ELSE IF Len(List(h)) = 0 THEN "EMPTY" ELSE "OK", NoVal)
      PROVE  Promise!Copy(h, g)
  <2> DEFINE values == ValuesAt(h, kept)
             t == Contents(h)
             all == Len(List(h))
  <2>1. /\ values \in Seq(Vals) /\ Len(values) = Cardinality(kept)
        /\ Cardinality(kept) \in Nat /\ (Cardinality(kept) = 0 <=> kept = {})
    BY <1>1, ValuesAtFacts
  <2>2. node' = Built(values, at) /\ at \in Allocations(Len(values))
    BY <1>5, <2>1
  <2>3. first' = [first EXCEPT ![g] = At(at, 1)]
    <3>1. DOMAIN at = 1..Cardinality(kept)
      BY DEF Allocations
    <3> HIDE DEF values
    <3>2. \A m \in Nat : 1 \in 1..m <=> m # 0
      OBVIOUS
    <3>3. 1 \in 1..Cardinality(kept) <=> kept # {}
      BY <2>1, <3>2
    <3> QED
      BY <1>5, <3>1, <3>3 DEF At
  <2>4. values = Promise!Selected(t, kept)
    BY <1>1, SelectedIs
  <2>5. /\ t \in Seq(Vals) /\ Len(t) = all /\ DOMAIN t = 1..all /\ all \in Nat
        /\ t = Abstract[h]
    BY <1>1, ContentsAre, AbstractAt
  <2> HIDE DEF values, t, all
  <2>6. /\ Becomes(g, at) /\ first'[g] # Absent
        /\ DOMAIN at = 1..Len(values) /\ \A i \in DOMAIN at : node'[at[i]].val = values[i]
    BY <1>1, <2>1, <2>2, <2>3, BuiltEffect, ZenonT(40)
  <2>7. Values(node', at) = values
    <3>1. values = [i \in 1..Len(values) |-> values[i]]
      BY <2>1, SeqIsFunction
    <3>2. Values(node', at) = [i \in 1..Len(values) |-> node'[at[i]].val]
      BY <2>6 DEF Values
    <3>3. \A i \in 1..Len(values) : node'[at[i]].val = values[i]
      BY <2>6
    <3> QED
      BY <3>1, <3>2, <3>3
  <2>8. Abstract' = [Abstract EXCEPT ![g] = values]
    BY <2>6, <2>7, AbstractBecomes
  <2>9. n \in 0..all /\ kept \in SUBSET DOMAIN t
    BY <2>5 DEF all
  <2>10. CASE n < all
    <3>1. reply' = Answer("copy", "ALLOCERR", NoVal)
      BY <1>5, <2>10 DEF all
    <3>2. /\ reply' = Answer("copy", "ALLOCERR", NoVal)
          /\ Abstract' = [Abstract EXCEPT ![g] = Promise!Selected(Abstract[h], kept)]
          /\ kept \in SUBSET DOMAIN Abstract[h]
      BY <2>4, <2>5, <2>8, <2>9, <3>1
    <3> QED
      BY <1>2, <3>2 DEF Promise!Copy, Promise!Answer, Answer, Abstract
  <2>11. CASE n = all
    <3>1. values = t
      <4>1. kept = 1..all
        BY <1>5, <2>11 DEF all
      <4> QED
        BY <2>4, <2>5, <4>1, SelectedAll
    <3>2. CASE all = 0
      <4>1. t = <<>>
        BY <2>5, <3>2
      <4>2. reply' = Answer("copy", "EMPTY", NoVal)
        BY <1>5, <2>11, <3>2 DEF all
      <4>3. /\ reply' = Answer("copy", "EMPTY", NoVal) /\ Abstract[h] = <<>>
            /\ Abstract' = [Abstract EXCEPT ![g] = <<>>]
        BY <2>5, <2>8, <3>1, <4>1, <4>2
      <4> QED
        BY <1>2, <4>3 DEF Promise!Copy, Promise!Answer, Answer, Abstract
    <3>3. CASE all # 0
      <4>1. t # <<>>
        BY <2>5, <3>3
      <4>2. reply' = Answer("copy", "OK", NoVal)
        BY <1>5, <2>5, <2>11, <3>3 DEF all
      <4>3. Promise!Succeed("copy", g, Abstract[h]) /\ Abstract[h] # <<>>
        BY <2>5, <2>8, <3>1, <4>1, <4>2, Succeeds
      <4> QED
        BY <1>2, <4>3 DEF Promise!Copy, Abstract
    <3> QED
      BY <3>2, <3>3
  <2> QED
    BY <2>5, <2>9, <2>10, <2>11
<1> QED
  BY <1>3, <1>4, <1>5 DEF Copy

LEMMA StepRefines ==
    Debug /\ IInv /\ [Next]_vars => [Promise!Next]_<<Abstract, reply>>
<1> SUFFICES ASSUME Debug, IInv, [Next]_vars
             PROVE  Promise!Next \/ UNCHANGED <<Abstract, reply>>
  OBVIOUS
<1>1. Keys = Promise!Keys
  BY DEF Keys, Promise!Keys
<1>2. \A h \in Handles : first[h] # Absent => Promise!Exists(h)
  BY ContentsAre DEF Promise!Exists
<1>3. CASE UNCHANGED vars
  BY <1>3, AbstractKept DEF vars
<1>4. ASSUME NEW h \in Handles, New(h) PROVE Promise!Next
  BY <1>4, NewRefines DEF Promise!Next
<1>5. ASSUME NEW h \in Handles, Free(h) \/ PopFront(h) PROVE Promise!Next
  <2>1. first[h] # Absent
    BY <1>5 DEF Free, PopFront, Call
  <2> QED
    BY <1>2, <1>5, <2>1, FreeRefines, PopFrontRefines DEF Promise!Next
<1>6. ASSUME NEW h \in Handles, NEW v \in Vals,
             PushBack(h, v) \/ PushFront(h, v) \/ Replace(h, v)
      PROVE  Promise!Next
  <2>1. first[h] # Absent
    BY <1>6 DEF PushBack, PushFront, Replace, Call
  <2> QED
    BY <1>2, <1>6, <2>1, PushBackRefines, PushFrontRefines, ReplaceRefines DEF Promise!Next
<1>7. ASSUME NEW h \in Handles, NEW k \in Keys, Find(h, k) \/ Remove(h, k)
      PROVE  Promise!Next
  <2>1. first[h] # Absent
    BY <1>7 DEF Find, Remove, Call
  <2> QED
    BY <1>1, <1>2, <1>7, <2>1, FindRefines, RemoveRefines DEF Promise!Next
<1>8. ASSUME NEW h \in Handles, NEW g \in Handles, Copy(h, g)
      PROVE  Promise!Next \/ UNCHANGED <<Abstract, reply>>
  <2>1. first[h] # Absent
    BY <1>8 DEF Copy, Call
  <2> QED
    BY <1>2, <1>8, <2>1, CopyRefines DEF Promise!Next
<1> QED
  BY <1>3, <1>4, <1>5, <1>6, <1>7, <1>8 DEF Next

\* Seen through its values the list is a sequence, and a copy that answers OK is
\* the same sequence: where assertions are compiled in, clist_gen_copy() does
\* not come back from a copy that has lost a value without an error.
THEOREM ListImplemented == ASSUME Debug PROVE Spec => ImplementsList
<1>1. Init => Promise!Init
  BY DEF Init, Promise!Init, Promise!Answer, Answer, Contents
<1>2. Debug
  OBVIOUS
<1>3. IInv /\ [Next]_vars => [Promise!Next]_<<Abstract, reply>>
  BY <1>2, StepRefines
<1> QED
  BY <1>1, <1>3, Invariance, PTL DEF Spec, Promise!Spec, ImplementsList, Abstract

=============================================================================
