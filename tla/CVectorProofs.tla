--------------------------- MODULE CVectorProofs ---------------------------
(***************************************************************************)
(* Proofs about who owns the values of the vectors, the list and the array *)
(* of ccontainer, for any number of vectors, blocks, keys and places.      *)
(* The sort is proved to be one stable sort, and the vectors, the list and *)
(* the array to be the sequences of values that VectorSpec promises.       *)
(*                                                                         *)
(* All that can own a value is looked at as one function, from the seats   *)
(* (the vectors, the list and the array) to their sequences of places.     *)
(***************************************************************************)
EXTENDS CVector, FiniteSetTheorems, TLAPS

\* The places of each seat.
Seated == [c \in Seats |-> Places(c)]

InUse == DOMAIN heap \ lost

\* In the seats a each block of U has one place, and no other block any.
Held(a, U) == \A c \in Seats : \A i \in DOMAIN a[c] : a[c][i] \in U \cup {Null}

Once(a) ==
    \A c, d \in Seats : \A i \in DOMAIN a[c], j \in DOMAIN a[d] :
        a[c][i] = a[d][j] /\ a[c][i] # Null => c = d /\ i = j

Covered(a, U) == \A b \in U : \E c \in Seats : \E i \in DOMAIN a[c] : a[c][i] = b

Sole(a, U) == Held(a, U) /\ Once(a) /\ Covered(a, U)

-----------------------------------------------------------------------------
(* What is done to one seat keeps every block in one place *)

\* Its values are deleted.
LEMMA Emptied ==
    ASSUME NEW a, NEW U \in SUBSET Blocks, DOMAIN a = Seats, NEW c \in Seats, Sole(a, U)
    PROVE  Sole([a EXCEPT ![c] = <<>>], U \ BlocksOf(a[c]))
<1> DEFINE new == [a EXCEPT ![c] = <<>>]
           V == U \ BlocksOf(a[c])
<1>1. new[c] = <<>> /\ DOMAIN new[c] = {} /\ \A d \in Seats : d # c => new[d] = a[d]
  OBVIOUS
<1>2. Null \notin U /\ BlocksOf(a[c]) = {a[c][i] : i \in DOMAIN a[c]} \ {Null}
  BY VectorAssumption DEF BlocksOf, Range
<1> HIDE DEF new
<1>3. Held(new, V)
  <2>1. ASSUME NEW d \in Seats, NEW i \in DOMAIN new[d] PROVE new[d][i] \in V \cup {Null}
    <3>1. d # c /\ new[d] = a[d] /\ i \in DOMAIN a[d] /\ a[d][i] \in U \cup {Null}
      BY <1>1, <2>1 DEF Sole, Held
    <3>2. a[d][i] # Null => a[d][i] \notin BlocksOf(a[c])
      BY <1>2, <3>1 DEF Sole, Once
    <3> QED
      BY <3>1, <3>2
  <2> QED
    BY <2>1 DEF Held
<1>4. Once(new)
  BY <1>1 DEF Sole, Once
<1>5. Covered(new, V)
  BY <1>1, <1>2 DEF Sole, Covered
<1> QED
  BY <1>3, <1>4, <1>5 DEF Sole, new

\* Two of its places are exchanged.
LEMMA Exchanged ==
    ASSUME NEW a, NEW U \in SUBSET Blocks, DOMAIN a = Seats, NEW c \in Seats, Sole(a, U),
           NEW x \in DOMAIN a[c], NEW y \in DOMAIN a[c]
    PROVE  Sole([a EXCEPT ![c] = Swapped(a[c], x, y)], U)
<1> DEFINE new == [a EXCEPT ![c] = Swapped(a[c], x, y)]
           p(i) == IF i = x THEN y ELSE IF i = y THEN x ELSE i
<1>1. /\ \A d \in Seats : d # c => new[d] = a[d]
      /\ DOMAIN new[c] = DOMAIN a[c]
      /\ \A i \in DOMAIN a[c] : new[c][i] = a[c][p(i)]
  BY DEF Swapped
<1>2. /\ \A i \in DOMAIN a[c] : p(i) \in DOMAIN a[c] /\ p(p(i)) = i
      /\ \A i, j \in DOMAIN a[c] : p(i) = p(j) => i = j
  OBVIOUS
<1> HIDE DEF new, p
<1>3. Held(new, U)
  BY <1>1, <1>2 DEF Sole, Held
<1>4. Once(new)
  <2> SUFFICES ASSUME NEW d \in Seats, NEW e \in Seats, NEW i \in DOMAIN new[d],
                      NEW j \in DOMAIN new[e], new[d][i] = new[e][j], new[d][i] # Null
               PROVE  d = e /\ i = j
    BY DEF Once
  <2>1. CASE d = c /\ e = c
    BY <1>1, <1>2, <2>1 DEF Sole, Once
  <2>2. CASE d = c /\ e # c
    BY <1>1, <1>2, <2>2 DEF Sole, Once
  <2>3. CASE d # c /\ e = c
    BY <1>1, <1>2, <2>3 DEF Sole, Once
  <2>4. CASE d # c /\ e # c
    BY <1>1, <2>4 DEF Sole, Once
  <2> QED
    BY <2>1, <2>2, <2>3, <2>4
<1>5. Covered(new, U)
  <2> SUFFICES ASSUME NEW b \in U
               PROVE  \E d \in Seats : \E i \in DOMAIN new[d] : new[d][i] = b
    BY DEF Covered
  <2>1. PICK d \in Seats : \E i \in DOMAIN a[d] : a[d][i] = b
    BY DEF Sole, Covered
  <2>2. PICK i \in DOMAIN a[d] : a[d][i] = b
    BY <2>1
  <2>3. CASE d = c
    <3>1. p(i) \in DOMAIN new[c] /\ new[c][p(i)] = b
      BY <1>1, <1>2, <2>2, <2>3
    <3> QED
      BY <3>1
  <2>4. CASE d # c
    BY <1>1, <2>2, <2>4
  <2> QED
    BY <2>3, <2>4
<1> QED
  BY <1>3, <1>4, <1>5 DEF Sole, new

\* It was empty, and gets new values, some of which may be missing.
LEMMA Filled ==
    ASSUME NEW a, NEW U \in SUBSET Blocks, DOMAIN a = Seats, NEW c \in Seats, Sole(a, U),
           a[c] = <<>>, NEW s, NEW N \in SUBSET Blocks, N \cap U = {},
           \A i \in DOMAIN s : s[i] \in N \cup {Null},
           \A i, j \in DOMAIN s : s[i] = s[j] /\ s[i] # Null => i = j,
           \A b \in N : \E i \in DOMAIN s : s[i] = b
    PROVE  Sole([a EXCEPT ![c] = s], U \cup N)
<1> DEFINE new == [a EXCEPT ![c] = s]
<1>1. new[c] = s /\ \A d \in Seats : d # c => new[d] = a[d]
  OBVIOUS
<1>2. Null \notin U /\ Null \notin N /\ DOMAIN a[c] = {}
  BY VectorAssumption
<1> HIDE DEF new
<1>3. Held(new, U \cup N)
  <2> SUFFICES ASSUME NEW d \in Seats, NEW i \in DOMAIN new[d]
               PROVE  new[d][i] \in (U \cup N) \cup {Null}
    BY DEF Held
  <2>1. CASE d = c
    BY <1>1, <2>1
  <2>2. CASE d # c
    BY <1>1, <2>2 DEF Sole, Held
  <2> QED
    BY <2>1, <2>2
<1>4. Once(new)
  <2> SUFFICES ASSUME NEW d \in Seats, NEW e \in Seats, NEW i \in DOMAIN new[d],
                      NEW j \in DOMAIN new[e], new[d][i] = new[e][j], new[d][i] # Null
               PROVE  d = e /\ i = j
    BY DEF Once
  <2>1. CASE d = c /\ e = c
    BY <1>1, <2>1
  <2>2. CASE d = c /\ e # c
    <3>1. new[d][i] \in N /\ new[e][j] \in U
      BY <1>1, <1>2, <2>2 DEF Sole, Held
    <3> QED
      BY <3>1
  <2>3. CASE d # c /\ e = c
    <3>1. new[d][i] \in U /\ new[e][j] \in N
      BY <1>1, <1>2, <2>3 DEF Sole, Held
    <3> QED
      BY <3>1
  <2>4. CASE d # c /\ e # c
    BY <1>1, <2>4 DEF Sole, Once
  <2> QED
    BY <2>1, <2>2, <2>3, <2>4
<1>5. Covered(new, U \cup N)
  <2> SUFFICES ASSUME NEW b \in U \cup N
               PROVE  \E d \in Seats : \E i \in DOMAIN new[d] : new[d][i] = b
    BY DEF Covered
  <2>1. CASE b \in N
    BY <1>1, <2>1
  <2>2. CASE b \in U
    <3>1. PICK d \in Seats : \E i \in DOMAIN a[d] : a[d][i] = b
      BY <2>2 DEF Sole, Covered
    <3> QED
      BY <1>1, <1>2, <3>1
  <2> QED
    BY <2>1, <2>2
<1> QED
  BY <1>3, <1>4, <1>5 DEF Sole, new

\* It gets one new value more, the last.
LEMMA Appended ==
    ASSUME NEW a, NEW U \in SUBSET Blocks, DOMAIN a = Seats, NEW c \in Seats, Sole(a, U),
           a[c] \in Seq(Place), NEW b \in Blocks, b \notin U
    PROVE  Sole([a EXCEPT ![c] = Append(a[c], b)], U \cup {b})
<1> DEFINE new == [a EXCEPT ![c] = Append(a[c], b)]
           n == Len(a[c])
<1>1. \A d \in Seats : d # c => new[d] = a[d]
  OBVIOUS
<1>2. /\ DOMAIN a[c] = 1..n /\ n \in Nat
      /\ DOMAIN new[c] = 1..(n + 1) /\ new[c][n + 1] = b
      /\ \A i \in 1..n : new[c][i] = a[c][i]
  BY DEF Place
<1>3. /\ \A i \in DOMAIN new[c] : i = n + 1 \/ i \in DOMAIN a[c]
      /\ n + 1 \in DOMAIN new[c] /\ n + 1 \notin DOMAIN a[c]
      /\ DOMAIN a[c] \subseteq DOMAIN new[c]
      /\ \A i \in DOMAIN a[c] : new[c][i] = a[c][i]
  BY <1>2
<1>4. Null \notin U /\ Null # b /\ new[c][n + 1] = b
  BY <1>2, VectorAssumption
<1> HIDE DEF new, n
<1>5. \A d \in Seats : \A i \in DOMAIN a[d] : a[d][i] # b
  BY <1>4 DEF Sole, Held
<1>6. Held(new, U \cup {b})
  BY <1>1, <1>3, <1>4 DEF Sole, Held
<1>7. Once(new)
  <2> SUFFICES ASSUME NEW d \in Seats, NEW e \in Seats, NEW i \in DOMAIN new[d],
                      NEW j \in DOMAIN new[e], new[d][i] = new[e][j], new[d][i] # Null
               PROVE  d = e /\ i = j
    BY DEF Once
  <2>1. CASE new[d][i] = b
    <3>1. d = c /\ i = n + 1
      BY <1>1, <1>3, <1>5, <2>1
    <3>2. new[e][j] = b
      BY <2>1
    <3>3. e = c
      BY <1>1, <1>5, <3>2
    <3>4. j = n + 1
      BY <1>3, <1>5, <3>2, <3>3
    <3> QED
      BY <3>1, <3>3, <3>4
  <2>2. CASE new[d][i] # b
    <3>1. i \in DOMAIN a[d] /\ new[d][i] = a[d][i]
      BY <1>1, <1>3, <1>4, <2>2
    <3>2. j \in DOMAIN a[e] /\ new[e][j] = a[e][j]
      BY <1>1, <1>3, <1>4, <2>2
    <3>3. a[d][i] = a[e][j] /\ a[d][i] # Null
      BY <3>1, <3>2
    <3> QED
      BY <3>1, <3>2, <3>3 DEF Sole, Once
  <2> QED
    BY <2>1, <2>2
<1>8. Covered(new, U \cup {b})
  <2> SUFFICES ASSUME NEW x \in U \cup {b}
               PROVE  \E d \in Seats : \E i \in DOMAIN new[d] : new[d][i] = x
    BY DEF Covered
  <2>1. CASE x = b
    BY <1>3, <1>4, <2>1
  <2>2. CASE x \in U
    <3>1. PICK d \in Seats : \E i \in DOMAIN a[d] : a[d][i] = x
      BY <2>2 DEF Sole, Covered
    <3>2. PICK i \in DOMAIN a[d] : a[d][i] = x
      BY <3>1
    <3>3. CASE d = c
      <4>1. i \in DOMAIN new[c] /\ new[c][i] = x
        BY <1>3, <3>2, <3>3
      <4> QED
        BY <4>1
    <3>4. CASE d # c
      BY <1>1, <3>2, <3>4
    <3> QED
      BY <3>3, <3>4
  <2> QED
    BY <2>1, <2>2
<1> QED
  BY <1>6, <1>7, <1>8 DEF Sole, new

\* Its first value is taken out.
LEMMA Beheaded ==
    ASSUME NEW a, NEW U \in SUBSET Blocks, DOMAIN a = Seats, NEW c \in Seats, Sole(a, U),
           a[c] \in Seq(Blocks), a[c] # <<>>
    PROVE  Sole([a EXCEPT ![c] = Tail(a[c])], U \ {Head(a[c])})
<1> DEFINE new == [a EXCEPT ![c] = Tail(a[c])]
           n == Len(a[c])
           h == Head(a[c])
<1>1. \A d \in Seats : d # c => new[d] = a[d]
  OBVIOUS
<1>2. new[c] = Tail(a[c])
  OBVIOUS
<1>3. /\ DOMAIN a[c] = 1..n /\ n \in Nat \ {0} /\ h = a[c][1] /\ h \in Blocks
      /\ DOMAIN new[c] = 1..(n - 1)
      /\ \A i \in 1..(n - 1) : new[c][i] = a[c][i + 1]
  BY <1>2
<1>4. Null \notin U /\ Null # h
  BY <1>3, VectorAssumption
<1> HIDE DEF new, n, h
<1>5. /\ 1 \in DOMAIN a[c]
      /\ \A i \in DOMAIN new[c] : i + 1 \in DOMAIN a[c] /\ i + 1 # 1 /\ i \in Nat
      /\ \A i \in DOMAIN a[c] : i # 1 => i - 1 \in DOMAIN new[c] /\ (i - 1) + 1 = i
      /\ \A i \in DOMAIN new[c] : new[c][i] = a[c][i + 1]
  <2>1. \A i \in 1..(n - 1) : i + 1 \in 1..n /\ i + 1 # 1 /\ i \in Nat
    BY <1>3
  <2>2. 1 \in 1..n /\ \A i \in 1..n : i # 1 => i - 1 \in 1..(n - 1) /\ (i - 1) + 1 = i
    BY <1>3
  <2> QED
    BY <1>3, <2>1, <2>2
<1>6. Held(new, U \ {h})
  <2> SUFFICES ASSUME NEW d \in Seats, NEW i \in DOMAIN new[d]
               PROVE  new[d][i] \in (U \ {h}) \cup {Null}
    BY DEF Held
  <2>1. CASE d = c
    <3>1. /\ i + 1 \in DOMAIN a[c] /\ 1 \in DOMAIN a[c] /\ i + 1 # 1 /\ a[c][1] = h
          /\ new[d][i] = a[c][i + 1]
      BY <1>3, <1>5, <2>1
    <3>2. a[c][i + 1] \in U \cup {Null}
      BY <3>1 DEF Sole, Held
    <3>3. a[c][i + 1] # h
      BY <1>4, <3>1 DEF Sole, Once
    <3> QED
      BY <3>1, <3>2, <3>3
  <2>2. CASE d # c
    <3>1. i \in DOMAIN a[d] /\ new[d] = a[d]
      BY <1>1, <2>2
    <3>2. a[d][i] \in U \cup {Null} /\ a[d][i] # h
      BY <1>3, <1>4, <1>5, <2>2, <3>1 DEF Sole, Held, Once
    <3> QED
      BY <3>1, <3>2
  <2> QED
    BY <2>1, <2>2
<1>7. Once(new)
  <2> SUFFICES ASSUME NEW d \in Seats, NEW e \in Seats, NEW i \in DOMAIN new[d],
                      NEW j \in DOMAIN new[e], new[d][i] = new[e][j], new[d][i] # Null
               PROVE  d = e /\ i = j
    BY DEF Once
  <2>1. CASE d = c /\ e = c
    <3>1. i + 1 = j + 1
      BY <1>5, <2>1 DEF Sole, Once
    <3> QED
      BY <1>5, <2>1, <3>1
  <2>2. CASE d = c /\ e # c
    BY <1>1, <1>5, <2>2 DEF Sole, Once
  <2>3. CASE d # c /\ e = c
    BY <1>1, <1>5, <2>3 DEF Sole, Once
  <2>4. CASE d # c /\ e # c
    BY <1>1, <2>4 DEF Sole, Once
  <2> QED
    BY <2>1, <2>2, <2>3, <2>4
<1>8. Covered(new, U \ {h})
  <2> SUFFICES ASSUME NEW x \in U \ {h}
               PROVE  \E d \in Seats : \E i \in DOMAIN new[d] : new[d][i] = x
    BY DEF Covered
  <2>1. PICK d \in Seats : \E i \in DOMAIN a[d] : a[d][i] = x
    BY DEF Sole, Covered
  <2>2. PICK i \in DOMAIN a[d] : a[d][i] = x
    BY <2>1
  <2>3. CASE d = c
    <3>1. i # 1
      BY <1>3, <2>2, <2>3
    <3>2. i - 1 \in DOMAIN new[c] /\ new[c][i - 1] = x
      BY <1>5, <2>2, <2>3, <3>1
    <3> QED
      BY <3>2
  <2>4. CASE d # c
    BY <1>1, <2>2, <2>4
  <2> QED
    BY <2>3, <2>4
<1> QED
  BY <1>6, <1>7, <1>8 DEF Sole, new, h

\* All its values go to another, empty one.
LEMMA Moved ==
    ASSUME NEW a, NEW U \in SUBSET Blocks, DOMAIN a = Seats, Sole(a, U),
           NEW c \in Seats, NEW d \in Seats, c # d, a[d] = <<>>
    PROVE  Sole([a EXCEPT ![d] = a[c], ![c] = <<>>], U)
<1> DEFINE new == [a EXCEPT ![d] = a[c], ![c] = <<>>]
<1>1. /\ new[d] = a[c] /\ new[c] = <<>> /\ DOMAIN new[c] = {}
      /\ \A e \in Seats \ {c, d} : new[e] = a[e]
  OBVIOUS
<1>2. DOMAIN a[d] = {}
  OBVIOUS
<1> HIDE DEF new
<1>3. Held(new, U)
  BY <1>1 DEF Sole, Held
<1>4. Once(new)
  <2> SUFFICES ASSUME NEW x \in Seats, NEW y \in Seats, NEW i \in DOMAIN new[x],
                      NEW j \in DOMAIN new[y], new[x][i] = new[y][j], new[x][i] # Null
               PROVE  x = y /\ i = j
    BY DEF Once
  <2>1. x # c /\ y # c
    BY <1>1
  <2>2. CASE x = d /\ y = d
    BY <1>1, <2>2 DEF Sole, Once
  <2>3. CASE x = d /\ y # d
    BY <1>1, <2>1, <2>3 DEF Sole, Once
  <2>4. CASE x # d /\ y = d
    BY <1>1, <2>1, <2>4 DEF Sole, Once
  <2>5. CASE x # d /\ y # d
    BY <1>1, <2>1, <2>5 DEF Sole, Once
  <2> QED
    BY <2>2, <2>3, <2>4, <2>5
<1>5. Covered(new, U)
  <2> SUFFICES ASSUME NEW b \in U
               PROVE  \E x \in Seats : \E i \in DOMAIN new[x] : new[x][i] = b
    BY DEF Covered
  <2>1. PICK x \in Seats : \E i \in DOMAIN a[x] : a[x][i] = b
    BY DEF Sole, Covered
  <2> QED
    BY <1>1, <1>2, <2>1
<1> QED
  BY <1>3, <1>4, <1>5 DEF Sole, new

\* A block in use has one owner, and no other block has any.
LEMMA SoleOwners == Sole(Seated, InUse) /\ lost \subseteq DOMAIN heap => OneOwner
<1> SUFFICES ASSUME Sole(Seated, InUse), NEW b \in Blocks
             PROVE  IF b \in DOMAIN heap \ lost THEN Cardinality(Owners(b)) = 1
                    ELSE Owners(b) = {}
  BY DEF OneOwner
<1>1. \A p \in Owners(b) :
        \E c \in Seats : \E i \in DOMAIN Seated[c] : p = <<c, i>> /\ Seated[c][i] = b
  BY DEF Owners, Seated, Places
<1>2. \A c \in Seats : \A i \in DOMAIN Seated[c] : Seated[c][i] = b => <<c, i>> \in Owners(b)
  BY DEF Owners, Seated, Places
<1>3. b # Null
  BY VectorAssumption
<1>4. CASE b \in InUse
  <2>1. PICK c \in Seats : \E i \in DOMAIN Seated[c] : Seated[c][i] = b
    BY <1>4 DEF Sole, Covered
  <2>2. PICK i \in DOMAIN Seated[c] : Seated[c][i] = b
    BY <2>1
  <2>3. \A p \in Owners(b) : p = <<c, i>>
    BY <1>1, <1>3, <2>2 DEF Sole, Once
  <2>4. Owners(b) = {<<c, i>>}
    BY <1>2, <2>2, <2>3
  <2> QED
    BY <1>4, <2>4, FS_Singleton DEF InUse
<1>5. CASE b \notin InUse
  <2>1. \A p : p \notin Owners(b)
    BY <1>1, <1>3, <1>5 DEF Sole, Held
  <2> QED
    BY <1>5, <2>1 DEF InUse
<1> QED
  BY <1>4, <1>5

\* As many free blocks as are asked for are found, none twice.
LEMMA FreshAreNew ==
    ASSUME NEW S, IsFiniteSet(S), Cardinality(S) <= Cardinality(Free)
    PROVE  /\ Fresh(S) \in [S -> Free]
           /\ \A i, j \in S : Fresh(S)[i] = Fresh(S)[j] => i = j
<1> DEFINE m == Cardinality(S)
           n == Cardinality(Free)
<1>1. IsFiniteSet(Free) /\ n \in Nat /\ m \in Nat
  BY VectorAssumption, FS_Subset, FS_CardinalityType DEF Free
<1>2. PICK f \in Bijection(1..m, S) : TRUE
  BY FS_CardinalityType DEF ExistsBijection
<1>3. PICK g \in Bijection(1..n, Free) : TRUE
  BY <1>1, FS_CardinalityType DEF ExistsBijection
<1>4. \A x \in S : \E i \in 1..m : f[i] = x
  BY <1>2 DEF Bijection, Surjection
<1>5. /\ g \in [1..n -> Free]
      /\ \A i, j \in 1..n : g[i] = g[j] => i = j
  BY <1>3 DEF Bijection, Injection, IsInjective
<1> DEFINE at(x) == CHOOSE i \in 1..m : f[i] = x
<1>6. \A x \in S : at(x) \in 1..m /\ f[at(x)] = x
  BY <1>4
<1>7. 1..m \subseteq 1..n
  BY <1>1
<1> HIDE DEF at, m, n
<1> DEFINE ids == [x \in S |-> g[at(x)]]
<1>8. ids \in [S -> Free]
  BY <1>5, <1>6, <1>7
<1>9. \A i, j \in S : ids[i] = ids[j] => i = j
  <2> SUFFICES ASSUME NEW i \in S, NEW j \in S, ids[i] = ids[j] PROVE i = j
    OBVIOUS
  <2>1. at(i) = at(j)
    BY <1>5, <1>6, <1>7
  <2> QED
    BY <1>6, <2>1
<1> HIDE DEF ids
<1> QED
  BY <1>8, <1>9 DEF Fresh

LEMMA NewBlockIsFree == Free # {} => NewBlock \in Free
  BY DEF NewBlock

-----------------------------------------------------------------------------
(* The inductive invariant *)

VecTyped ==
    /\ vec \in [Vectors -> {Absent, Garbage} \cup Vector]
    /\ \A v \in Vectors : Alive(v) => Len(Items(v)) <= vec[v].capacity

PlacesTyped == list \in Seq(Blocks) /\ array \in Seq(Place)

HeapTyped ==
    /\ DOMAIN heap \subseteq Blocks /\ lost \subseteq DOMAIN heap
    /\ \A b \in DOMAIN heap : heap[b] \in Keys

\* What is sorted exists: nobody may call while it is.
JobTyped == job \in Job \cup {NoJob} /\ (job # NoJob => Alive(job.v))

SettingTyped ==
    fate \in {"ok", "aborted", "undefined"} /\ used \in Profiles /\ debug \in BOOLEAN

IInv ==
    /\ VecTyped /\ PlacesTyped /\ HeapTyped /\ JobTyped /\ SettingTyped
    /\ Sole(Seated, InUse)

-----------------------------------------------------------------------------
(* What the steps do to the seats and to the heap *)

LEMMA SeatedIs ==
    /\ DOMAIN Seated = Seats /\ "list" \in Seats /\ "array" \in Seats /\ "list" # "array"
    /\ Seated["list"] = list /\ Seated["array"] = array
    /\ \A v \in Vectors :
        /\ v \in Seats /\ v # "list" /\ v # "array"
        /\ Alive(v) => Seated[v] = Items(v)
        /\ ~Alive(v) => Seated[v] = <<>>
  BY VectorAssumption DEF Seated, Places, Seats

LEMMA AliveIs ==
    ASSUME VecTyped, NEW v \in Vectors, Alive(v)
    PROVE  /\ vec[v] \in Vector /\ Items(v) \in Seq(Place) /\ vec[v].capacity \in Nat
           /\ Len(Items(v)) \in Nat /\ DOMAIN Items(v) = 1..Len(Items(v))
           /\ Len(Items(v)) <= vec[v].capacity
<1>1. vec[v] \in Vector
  BY DEF VecTyped, Alive
<1>2. Items(v) \in Seq(Place) /\ vec[v].capacity \in Nat
  BY <1>1 DEF Vector, Items
<1> QED
  BY <1>1, <1>2 DEF VecTyped

\* A vector gets other places, or another capacity.
LEMMA VectorSet ==
    ASSUME VecTyped, NEW v \in Vectors, NEW s \in Seq(Place), NEW n \in Nat, Len(s) <= n,
           SetVector(v, s, n), UNCHANGED <<list, array>>
    PROVE  /\ VecTyped' /\ Seated' = [Seated EXCEPT ![v] = s]
           /\ \A w \in Vectors : Alive(w) => Alive(w)'
<1> DEFINE r == [items |-> s, capacity |-> n]
<1>1. r \in Vector /\ r.items = s /\ r.capacity = n
  BY DEF Vector
<1>2. r \notin {Absent, Garbage}
  BY <1>1, VectorAssumption
<1>3. vec' = [vec EXCEPT ![v] = r]
  BY DEF SetVector
<1> HIDE DEF r
<1>4. vec'[v] = r /\ \A w \in Vectors : w # v => vec'[w] = vec[w]
  BY <1>3 DEF VecTyped
<1>5. /\ Alive(v)' /\ Items(v)' = s
      /\ \A w \in Vectors : w # v => (Alive(w)' <=> Alive(w)) /\ Items(w)' = Items(w)
  BY <1>1, <1>2, <1>4 DEF Alive, Items
<1>6. VecTyped'
  <2>1. vec' \in [Vectors -> {Absent, Garbage} \cup Vector]
    BY <1>1, <1>3 DEF VecTyped
  <2>2. ASSUME NEW w \in Vectors, Alive(w)' PROVE Len(Items(w))' <= vec'[w].capacity
    <3>1. CASE w = v
      BY <1>1, <1>4, <1>5, <3>1
    <3>2. CASE w # v
      BY <1>4, <1>5, <2>2, <3>2 DEF VecTyped
    <3> QED
      BY <3>1, <3>2
  <2> QED
    BY <2>1, <2>2 DEF VecTyped
<1>7. Seated' = [Seated EXCEPT ![v] = s]
  BY <1>5, VectorAssumption DEF Seated, Places, Seats
<1> QED
  BY <1>5, <1>6, <1>7

\* A vector is released, or could not be made.
LEMMA VectorGone ==
    ASSUME VecTyped, NEW v \in Vectors, NEW x \in {Absent, Garbage},
           vec' = [vec EXCEPT ![v] = x], UNCHANGED <<list, array>>
    PROVE  VecTyped' /\ Seated' = [Seated EXCEPT ![v] = <<>>]
<1>1. vec'[v] = x /\ \A w \in Vectors : w # v => vec'[w] = vec[w]
  BY DEF VecTyped
<1>2. /\ ~Alive(v)'
      /\ \A w \in Vectors : w # v => (Alive(w)' <=> Alive(w)) /\ Items(w)' = Items(w)
  BY <1>1 DEF Alive, Items
<1>3. VecTyped'
  <2>1. vec' \in [Vectors -> {Absent, Garbage} \cup Vector]
    BY DEF VecTyped
  <2>2. ASSUME NEW w \in Vectors, Alive(w)' PROVE Len(Items(w))' <= vec'[w].capacity
    BY <1>1, <1>2, <2>2 DEF VecTyped
  <2> QED
    BY <2>1, <2>2 DEF VecTyped
<1>4. Seated' = [Seated EXCEPT ![v] = <<>>]
  BY <1>2, VectorAssumption DEF Seated, Places, Seats
<1> QED
  BY <1>3, <1>4

LEMMA ListSet ==
    ASSUME NEW s, list' = s, UNCHANGED <<vec, array>>
    PROVE  Seated' = [Seated EXCEPT !["list"] = s] /\ (VecTyped => VecTyped')
  BY DEF Seated, Places, Seats, Alive, Items, VecTyped

LEMMA ArraySet ==
    ASSUME NEW s, array' = s, UNCHANGED <<vec, list>>
    PROVE  Seated' = [Seated EXCEPT !["array"] = s] /\ (VecTyped => VecTyped')
  BY DEF Seated, Places, Seats, Alive, Items, VecTyped

\* New blocks, none of which was in use.
LEMMA HeapGrows ==
    ASSUME HeapTyped, NEW s, NEW keys, Range(s) \subseteq Free,
           \A i \in DOMAIN s : keys[i] \in Keys,
           heap' = With(s, keys), lost' = lost
    PROVE  /\ HeapTyped' /\ InUse' = InUse \cup Range(s)
           /\ Range(s) \subseteq Blocks /\ Range(s) \cap InUse = {}
<1>1. DOMAIN heap' = DOMAIN heap \cup Range(s)
  BY DEF With
<1>2. ASSUME NEW b \in DOMAIN heap' PROVE heap'[b] \in Keys
  <2>1. CASE b \in Range(s)
    <3>1. \E i \in DOMAIN s : s[i] = b
      BY <2>1 DEF Range
    <3>2. heap'[b] = keys[CHOOSE i \in DOMAIN s : s[i] = b]
      BY <1>1, <2>1 DEF With
    <3> QED
      BY <3>1, <3>2
  <2>2. CASE b \notin Range(s)
    BY <1>1, <2>2 DEF With, HeapTyped
  <2> QED
    BY <2>1, <2>2
<1>3. HeapTyped'
  BY <1>1, <1>2 DEF HeapTyped, Free
<1> QED
  BY <1>1, <1>3 DEF InUse, Free, HeapTyped

\* A new block nothing points at.
LEMMA HeapLeaks ==
    ASSUME HeapTyped, NEW b \in Free, NEW k \in Keys, heap' = With(<<b>>, <<k>>),
           lost' = lost \cup {b}
    PROVE  HeapTyped' /\ InUse' = InUse
<1>1. Range(<<b>>) = {b} /\ DOMAIN <<b>> = {1} /\ <<b>>[1] = b /\ <<k>>[1] = k
  BY DEF Range
<1>2. DOMAIN heap' = DOMAIN heap \cup {b}
  BY <1>1 DEF With
<1>3. ASSUME NEW x \in DOMAIN heap' PROVE heap'[x] \in Keys
  <2>1. CASE x = b
    <3>1. heap'[x] = <<k>>[CHOOSE i \in {1} : <<b>>[i] = b]
      BY <1>1, <1>2, <2>1 DEF With
    <3> QED
      BY <1>1, <3>1
  <2>2. CASE x # b
    BY <1>1, <1>2, <2>2 DEF With, HeapTyped
  <2> QED
    BY <2>1, <2>2
<1>4. HeapTyped'
  BY <1>2, <1>3 DEF HeapTyped, Free
<1> QED
  BY <1>2, <1>4 DEF InUse, Free, HeapTyped

\* Blocks that are not lost are freed.
LEMMA HeapShrinks ==
    ASSUME HeapTyped, NEW S, S \cap lost = {}, heap' = Without(S), lost' = lost
    PROVE  HeapTyped' /\ InUse' = InUse \ S
<1>1. DOMAIN heap' = DOMAIN heap \ S /\ \A b \in DOMAIN heap' : heap'[b] = heap[b]
  BY DEF Without, Restrict
<1> QED
  BY <1>1 DEF HeapTyped, InUse

\* What has an owner is in use: it has a key, and was not lost.
LEMMA OwnedInUse ==
    ASSUME IInv, NEW c \in Seats
    PROVE  /\ BlocksOf(Seated[c]) \cap lost = {}
           /\ \A i \in DOMAIN Seated[c] : Seated[c][i] # Null => heap[Seated[c][i]] \in Keys
<1>1. \A i \in DOMAIN Seated[c] : Seated[c][i] \in InUse \cup {Null}
  BY DEF IInv, Sole, Held
<1>2. BlocksOf(Seated[c]) \subseteq InUse
  BY <1>1 DEF BlocksOf, Range
<1> QED
  BY <1>1, <1>2 DEF IInv, HeapTyped, InUse

LEMMA InUseBlocks == HeapTyped => InUse \in SUBSET Blocks
  BY DEF HeapTyped, InUse

-----------------------------------------------------------------------------
(* One step for each operation *)

LEMMA Stopped ==
    ASSUME IInv, NEW o \in {"ok", "aborted", "undefined"}, Become(o) PROVE IInv'
<1>1. UNCHANGED <<vec, list, array, heap, lost, job, used, debug>>
  BY DEF Become, setting
<1> QED
  BY <1>1 DEF Become, IInv, VecTyped, PlacesTyped, HeapTyped, JobTyped, SettingTyped,
     Seated, Places, Alive, Items, InUse

LEMMA TroubleIs == Trouble \in {"ok", "aborted", "undefined"}
  BY DEF Trouble

\* A call that ends well: no sort runs, and all the rest is as it was.
LEMMA Served ==
    ASSUME IInv, Calm, UNCHANGED <<job, fate, setting>>, VecTyped', PlacesTyped', HeapTyped',
           Sole(Seated', InUse')
    PROVE  IInv'
<1>1. JobTyped' /\ SettingTyped'
  BY DEF Calm, IInv, JobTyped, SettingTyped, setting
<1> QED
  BY <1>1 DEF IInv

LEMMA NewKeeps ==
    ASSUME IInv, NEW v \in Vectors, NEW n \in Nat, Calm, vec[v] = Absent,
           SetVector(v, <<>>, n) \/ vec' = [vec EXCEPT ![v] = Garbage],
           UNCHANGED <<list, array, heap, lost, job, fate, setting>>
    PROVE  IInv'
<1>1. VecTyped /\ HeapTyped' /\ PlacesTyped' /\ Sole(Seated, InUse) /\ InUse' = InUse
  BY DEF IInv, HeapTyped, PlacesTyped, InUse
<1>2. VecTyped' /\ Seated' = [Seated EXCEPT ![v] = <<>>]
  <2>1. CASE SetVector(v, <<>>, n)
    <3>1. <<>> \in Seq(Place) /\ Len(<<>>) <= n
      OBVIOUS
    <3> QED
      BY <1>1, <2>1, <3>1, VectorSet
  <2>2. CASE vec' = [vec EXCEPT ![v] = Garbage]
    BY <1>1, <2>2, VectorGone
  <2> QED
    BY <2>1, <2>2
<1>3. Seated[v] = <<>>
  BY SeatedIs DEF Alive
<1>4. Seated' = Seated
  BY <1>2, <1>3 DEF Seated, Places
<1> QED
  BY <1>1, <1>2, <1>4, Served

LEMMA EmptyKeeps ==
    ASSUME IInv, NEW v \in Vectors, Calm, Alive(v), heap' = Without(Deleted(Items(v))),
           \/ SetVector(v, <<>>, vec[v].capacity)
           \/ vec' = [vec EXCEPT ![v] = Absent],
           UNCHANGED <<list, array, lost, job, fate, setting>>
    PROVE  IInv'
<1>1. VecTyped /\ HeapTyped /\ PlacesTyped' /\ Sole(Seated, InUse)
  BY DEF IInv, PlacesTyped
<1>2. VecTyped' /\ Seated' = [Seated EXCEPT ![v] = <<>>]
  <2>1. CASE SetVector(v, <<>>, vec[v].capacity)
    <3>1. <<>> \in Seq(Place) /\ Len(<<>>) = 0 /\ vec[v].capacity \in Nat
      BY <1>1, AliveIs
    <3>2. Len(<<>>) <= vec[v].capacity
      BY <3>1
    <3> QED
      BY <1>1, <2>1, <3>1, <3>2, VectorSet
  <2>2. CASE vec' = [vec EXCEPT ![v] = Absent]
    BY <1>1, <2>2, VectorGone
  <2> QED
    BY <2>1, <2>2
<1>3. Seated[v] = Items(v) /\ v \in Seats /\ DOMAIN Seated = Seats
  BY SeatedIs
<1>4. HeapTyped' /\ InUse' = InUse \ BlocksOf(Seated[v])
  BY <1>1, <1>3, OwnedInUse, HeapShrinks DEF Deleted
<1>5. Sole([Seated EXCEPT ![v] = <<>>], InUse \ BlocksOf(Seated[v]))
  BY <1>1, <1>3, InUseBlocks, Emptied
<1> QED
  BY <1>1, <1>2, <1>4, <1>5, Served

LEMMA CopyKeeps ==
    ASSUME IInv, NEW v \in Vectors, NEW w \in Vectors, Calm, Alive(v), vec[w] = Absent,
           NEW n \in 0..Len(Items(v)), n <= Cardinality(Free),
           \A i \in DOMAIN Items(v) : i <= n + 1 => Items(v)[i] # Null, CopyTo(v, w, n)
    PROVE  IInv'
<1> DEFINE s == Items(v)
           ids == Fresh(1..n)
           t == [i \in DOMAIN s |-> IF i <= n THEN ids[i] ELSE Null]
           ks == KeysOf(SubSeq(s, 1, n))
<1>1. VecTyped /\ HeapTyped /\ PlacesTyped' /\ Sole(Seated, InUse)
  BY DEF IInv, PlacesTyped, CopyTo
<1>2. s \in Seq(Place) /\ Len(s) \in Nat /\ DOMAIN s = 1..Len(s) /\ n \in Nat /\ n <= Len(s)
  BY <1>1, AliveIs
<1>3. ids \in [1..n -> Free] /\ \A i, j \in 1..n : ids[i] = ids[j] => i = j
  <2>1. IsFiniteSet(1..n) /\ Cardinality(1..n) = n
    BY <1>2, FS_Interval
  <2> QED
    BY <2>1, FreshAreNew
<1>4. Range(ids) \subseteq Free /\ DOMAIN ids = 1..n /\ Free \subseteq Blocks
  BY <1>3 DEF Range, Free
<1>5. \A i \in 1..n : ks[i] \in Keys
  <2>1. SubSeq(s, 1, n) \in Seq(Place) /\ DOMAIN SubSeq(s, 1, n) = 1..n
    BY <1>2
  <2>2. \A i \in 1..n : SubSeq(s, 1, n)[i] = s[i] /\ i \in DOMAIN s /\ s[i] # Null
    BY <1>2
  <2>3. Seated[v] = s /\ v \in Seats
    BY SeatedIs
  <2>4. \A i \in DOMAIN s : s[i] # Null => heap[s[i]] \in Keys
    BY <2>3, OwnedInUse
  <2> HIDE DEF s
  <2> QED
    BY <2>1, <2>2, <2>4 DEF KeysOf
<1>6. t \in Seq(Place) /\ Len(t) = Len(s)
  BY <1>2, <1>3, <1>4 DEF Place
<1>7. SetVector(w, t, Len(s)) /\ heap' = With(ids, ks) /\ UNCHANGED <<list, array, lost, job, fate, setting>>
  BY DEF CopyTo
<1>8. VecTyped' /\ Seated' = [Seated EXCEPT ![w] = t]
  <2>1. Len(t) <= Len(s)
    BY <1>2, <1>6
  <2> HIDE DEF t, s
  <2> QED
    BY <1>1, <1>2, <1>6, <1>7, <2>1, VectorSet
<1>9. /\ HeapTyped' /\ InUse' = InUse \cup Range(ids)
      /\ Range(ids) \subseteq Blocks /\ Range(ids) \cap InUse = {}
  <2> HIDE DEF ids, ks
  <2> QED
    BY <1>1, <1>4, <1>5, <1>7, HeapGrows
<1>10. Sole([Seated EXCEPT ![w] = t], InUse \cup Range(ids))
  <2>1. Seated[w] = <<>> /\ w \in Seats /\ DOMAIN Seated = Seats
    BY SeatedIs DEF Alive
  <2>2. \A i \in DOMAIN t : t[i] \in Range(ids) \cup {Null}
    BY <1>2, <1>3 DEF Range
  <2>3. \A i, j \in DOMAIN t : t[i] = t[j] /\ t[i] # Null => i = j
    BY <1>2, <1>3
  <2>4. \A b \in Range(ids) : \E i \in DOMAIN t : t[i] = b
    <3> SUFFICES ASSUME NEW b \in Range(ids) PROVE \E i \in DOMAIN t : t[i] = b
      OBVIOUS
    <3>1. PICK i \in 1..n : ids[i] = b
      BY <1>4 DEF Range
    <3>2. i \in DOMAIN t /\ t[i] = b
      BY <1>2, <3>1
    <3> QED
      BY <3>2
  <2> HIDE DEF t, ids
  <2> QED
    BY <1>1, <1>9, <2>1, <2>2, <2>3, <2>4, InUseBlocks, Filled
<1> HIDE DEF t, ids, s, ks
<1> QED
  BY <1>1, <1>7, <1>8, <1>9, <1>10, Served

LEMMA CapacityKeeps ==
    ASSUME IInv, NEW v \in Vectors, NEW n \in Nat, Calm, Alive(v), n > vec[v].capacity,
           SetVector(v, Items(v), n), UNCHANGED <<list, array, heap, lost, job, fate, setting>>
    PROVE  IInv'
<1>1. VecTyped /\ HeapTyped' /\ PlacesTyped' /\ Sole(Seated, InUse) /\ InUse' = InUse
  BY DEF IInv, HeapTyped, PlacesTyped, InUse
<1>2. Items(v) \in Seq(Place) /\ Len(Items(v)) <= n
  BY <1>1, AliveIs
<1>3. VecTyped' /\ Seated' = [Seated EXCEPT ![v] = Items(v)]
  BY <1>1, <1>2, VectorSet
<1>4. Seated[v] = Items(v)
  BY SeatedIs
<1>5. Seated' = Seated
  BY <1>3, <1>4 DEF Seated, Places
<1> QED
  BY <1>1, <1>3, <1>5, Served

LEMMA PushKeeps ==
    ASSUME IInv, NEW v \in Vectors, NEW k \in Keys, Calm, Alive(v), Free # {},
           SetVector(v, Append(Items(v), NewBlock),
                     IF Fits(v) THEN vec[v].capacity ELSE Needed(v)),
           heap' = With(<<NewBlock>>, <<k>>), UNCHANGED <<list, array, lost, job, fate, setting>>
    PROVE  IInv'
<1> DEFINE b == NewBlock
           cap == IF Fits(v) THEN vec[v].capacity ELSE Needed(v)
<1>1. VecTyped /\ HeapTyped /\ PlacesTyped' /\ Sole(Seated, InUse)
  BY DEF IInv, PlacesTyped
<1>2. b \in Free /\ b \in Blocks /\ b \in Place
  BY NewBlockIsFree DEF Free, Place
<1>3. /\ Items(v) \in Seq(Place) /\ Len(Items(v)) \in Nat /\ vec[v].capacity \in Nat
  BY <1>1, AliveIs
<1>4. /\ Append(Items(v), b) \in Seq(Place) /\ Len(Append(Items(v), b)) = Len(Items(v)) + 1
  BY <1>2, <1>3
<1>5. cap \in Nat /\ Len(Items(v)) + 1 <= cap
  BY <1>3 DEF Fits, Needed
<1>6. Range(<<b>>) = {b} /\ DOMAIN <<b>> = {1} /\ <<k>>[1] = k
  BY DEF Range
<1> HIDE DEF b, cap
<1>7. SetVector(v, Append(Items(v), b), cap) /\ heap' = With(<<b>>, <<k>>)
  BY DEF b, cap
<1>8. VecTyped' /\ Seated' = [Seated EXCEPT ![v] = Append(Items(v), b)]
  BY <1>1, <1>4, <1>5, <1>7, VectorSet
<1>9. /\ Range(<<b>>) \subseteq Free /\ \A i \in DOMAIN <<b>> : <<k>>[i] \in Keys
  BY <1>2, <1>6
<1>10. HeapTyped' /\ InUse' = InUse \cup {b} /\ b \notin InUse
  BY <1>1, <1>6, <1>7, <1>9, HeapGrows
<1>11. Seated[v] = Items(v) /\ v \in Seats /\ DOMAIN Seated = Seats
  BY SeatedIs
<1>12. Sole([Seated EXCEPT ![v] = Append(Seated[v], b)], InUse \cup {b})
  BY <1>1, <1>2, <1>3, <1>10, <1>11, InUseBlocks, Appended
<1> QED
  BY <1>1, <1>8, <1>10, <1>11, <1>12, Served

LEMMA LeakKeeps ==
    ASSUME IInv, NEW k \in Keys, Calm, Free # {}, heap' = With(<<NewBlock>>, <<k>>),
           lost' = lost \cup {NewBlock}, UNCHANGED <<vec, list, array, job, fate, setting>>
    PROVE  IInv'
<1>1. HeapTyped' /\ InUse' = InUse
  BY NewBlockIsFree, HeapLeaks DEF IInv
<1>2. VecTyped' /\ PlacesTyped' /\ Seated' = Seated
  BY DEF IInv, VecTyped, PlacesTyped, Seated, Places, Alive, Items
<1>3. Sole(Seated', InUse')
  BY <1>1, <1>2 DEF IInv
<1> QED
  BY <1>1, <1>2, <1>3, Served

\* Two places of a vector are exchanged: by swap(), or by the sort.
LEMMA SwapKeeps ==
    ASSUME IInv, NEW v \in Vectors, Alive(v), NEW i \in DOMAIN Items(v), NEW j \in DOMAIN Items(v),
           SetVector(v, Swapped(Items(v), i, j), vec[v].capacity),
           UNCHANGED <<list, array, heap, lost>>
    PROVE  /\ VecTyped' /\ PlacesTyped' /\ HeapTyped' /\ Sole(Seated', InUse')
           /\ \A w \in Vectors : Alive(w) => Alive(w)'
<1> DEFINE s == Items(v)
           t == Swapped(s, i, j)
<1>1. VecTyped /\ HeapTyped /\ HeapTyped' /\ PlacesTyped' /\ Sole(Seated, InUse) /\ InUse' = InUse
  BY DEF IInv, HeapTyped, PlacesTyped, InUse
<1>2. /\ s \in Seq(Place) /\ Len(s) \in Nat /\ DOMAIN s = 1..Len(s)
      /\ vec[v].capacity \in Nat /\ Len(s) <= vec[v].capacity
  BY <1>1, AliveIs
<1>3. t \in Seq(Place) /\ Len(t) = Len(s)
  BY <1>2 DEF Swapped
<1>4. Seated[v] = s /\ v \in Seats /\ DOMAIN Seated = Seats
  BY SeatedIs
<1> HIDE DEF t
<1>5. VecTyped' /\ Seated' = [Seated EXCEPT ![v] = t] /\ \A w \in Vectors : Alive(w) => Alive(w)'
  <2>1. SetVector(v, t, vec[v].capacity) /\ Len(t) <= vec[v].capacity
    BY <1>2, <1>3 DEF t
  <2> QED
    BY <1>1, <1>2, <1>3, <2>1, VectorSet
<1>6. Sole([Seated EXCEPT ![v] = t], InUse)
  BY <1>1, <1>4, InUseBlocks, Exchanged DEF t
<1> QED
  BY <1>1, <1>5, <1>6

\* The sort begins with a vector that exists.
LEMMA StartSortKeeps ==
    ASSUME IInv, NEW v \in Vectors, NEW order \in {"bigger", "smaller"}, StartSort(v, order)
    PROVE  IInv'
<1>1. VecTyped' /\ PlacesTyped' /\ HeapTyped' /\ SettingTyped' /\ Sole(Seated', InUse')
  BY DEF StartSort, setting, IInv, VecTyped, PlacesTyped, HeapTyped, SettingTyped,
     Seated, Places, Alive, Items, InUse
<1>2. Items(v) \in Seq(Place) /\ Len(Items(v)) \in Nat
  BY AliveIs DEF StartSort, IInv
<1>3. job' \in Job
  BY <1>2 DEF StartSort, Job
<1>4. job'.v = v
  BY DEF StartSort
<1>5. Alive(v)'
  BY DEF StartSort, Alive
<1>6. JobTyped'
  BY <1>3, <1>4, <1>5 DEF JobTyped, Alive
<1> QED
  BY <1>1, <1>6 DEF IInv

\* A swap and the next pass change the counters of the sort only.
LEMMA SwapChanges ==
    ASSUME NEW j \in Job, NEW n \in Nat \ {0}
    PROVE  /\ [j EXCEPT !.i = n, !.swapped = TRUE] \in Job
           /\ [j EXCEPT !.i = n, !.swapped = TRUE].v = j.v
<1>1. TRUE \in BOOLEAN
  OBVIOUS
<1> QED
  BY <1>1, Zenon DEF Job

LEMMA PassChanges ==
    ASSUME NEW j \in Job, NEW sz \in Nat
    PROVE  /\ [j EXCEPT !.size = sz, !.i = 1, !.swapped = FALSE] \in Job
           /\ [j EXCEPT !.size = sz, !.i = 1, !.swapped = FALSE].v = j.v
<1>1. FALSE \in BOOLEAN /\ 1 \in Nat \ {0}
  OBVIOUS
<1> QED
  BY <1>1, Zenon DEF Job

LEMMA NextPassIs ==
    ASSUME job \in Job
    PROVE  NextPass \in Job /\ NextPass.v = job.v
<1> DEFINE sz == IF job.size = 0 THEN MaxCapacity ELSE job.size - 1
<1>1. sz \in Nat
  BY VectorAssumption DEF Job
<1>2. NextPass = [job EXCEPT !.size = sz, !.i = 1, !.swapped = FALSE]
  BY DEF NextPass
<1> HIDE DEF sz
<1>3. /\ [job EXCEPT !.size = sz, !.i = 1, !.swapped = FALSE] \in Job
      /\ [job EXCEPT !.size = sz, !.i = 1, !.swapped = FALSE].v = job.v
  BY <1>1, PassChanges, ZenonT(60)
<1> QED
  BY <1>2, <1>3, ZenonT(30)

LEMMA CompareKeeps == ASSUME IInv, Compare PROVE IInv'
<1> DEFINE v == job.v
           s == Items(v)
           i == job.i
<1>1. job \in Job /\ v \in Vectors /\ i \in Nat \ {0} /\ Alive(v) /\ VecTyped
  BY DEF Compare, IInv, JobTyped, Job
<1>2. /\ s \in Seq(Place) /\ Len(s) \in Nat /\ DOMAIN s = 1..Len(s)
  BY <1>1, AliveIs
<1>3. CASE i + 1 > Len(s) \/ Null \in {s[i], s[i + 1]}
  BY <1>3, Stopped DEF Compare
<1>4. CASE ~(i + 1 > Len(s) \/ Null \in {s[i], s[i + 1]})
  <2>1. i \in DOMAIN s /\ i + 1 \in DOMAIN s
    BY <1>1, <1>2, <1>4
  <2>2. UNCHANGED <<list, array, heap, lost, fate, setting>>
    BY <1>4 DEF Compare
  <2>3. SettingTyped'
    BY <2>2 DEF IInv, SettingTyped, setting
  <2>4. CASE OutOfOrder(s[i], s[i + 1])
    <3>1. /\ SetVector(v, Swapped(s, i, i + 1), vec[v].capacity)
          /\ job' = [job EXCEPT !.i = i + 1, !.swapped = TRUE]
      BY <1>4, <2>4 DEF Compare
    <3>2. job' \in Job /\ job'.v = v
      <4>1. i + 1 \in Nat \ {0}
        BY <1>1
      <4>2. job \in Job /\ v = job.v
        BY <1>1
      <4> HIDE DEF i, v
      <4>3. /\ [job EXCEPT !.i = i + 1, !.swapped = TRUE] \in Job
            /\ [job EXCEPT !.i = i + 1, !.swapped = TRUE].v = job.v
        BY <4>1, <4>2, SwapChanges, ZenonT(60)
      <4> QED
        BY <3>1, <4>2, <4>3, ZenonT(30)
    <3>3. /\ VecTyped' /\ PlacesTyped' /\ HeapTyped' /\ Sole(Seated', InUse')
          /\ Alive(v)'
      <4> HIDE DEF i, v
      <4>1. /\ VecTyped' /\ PlacesTyped' /\ HeapTyped' /\ Sole(Seated', InUse')
            /\ \A w \in Vectors : Alive(w) => Alive(w)'
        BY <1>1, <2>1, <2>2, <3>1, SwapKeeps
      <4>2. Alive(v) /\ v \in Vectors
        BY <1>1
      <4>3. vec'[v] \notin {Absent, Garbage}
        BY <4>1, <4>2 DEF Alive
      <4> QED
        BY <3>2, <4>1, <4>3 DEF Alive, v
    <3>4. JobTyped'
      BY <3>2, <3>3 DEF JobTyped, Alive
    <3> QED
      BY <2>3, <3>3, <3>4 DEF IInv
  <2>5. CASE ~OutOfOrder(s[i], s[i + 1])
    <3>1. job' = [job EXCEPT !.i = i + 1] /\ UNCHANGED vec
      BY <1>4, <2>5 DEF Compare
    <3>2. job' \in Job /\ job'.v = v
      BY <1>1, <3>1 DEF Job
    <3>3. VecTyped' /\ PlacesTyped' /\ HeapTyped' /\ Sole(Seated', InUse')
      BY <2>2, <3>1 DEF IInv, VecTyped, PlacesTyped, HeapTyped, Seated, Places, Alive, Items, InUse
    <3>4. JobTyped'
      BY <1>1, <3>1, <3>2 DEF JobTyped, Alive
    <3> QED
      BY <2>3, <3>3, <3>4 DEF IInv
  <2> QED
    BY <2>4, <2>5
<1> QED
  BY <1>3, <1>4

LEMMA EndPassKeeps == ASSUME IInv, EndPass PROVE IInv'
<1>1. VecTyped' /\ PlacesTyped' /\ HeapTyped' /\ SettingTyped' /\ Sole(Seated', InUse')
  BY DEF EndPass, setting, IInv, VecTyped, PlacesTyped, HeapTyped, SettingTyped,
     Seated, Places, Alive, Items, InUse
<1>2. job \in Job /\ Alive(job.v) /\ UNCHANGED vec
  BY DEF EndPass, IInv, JobTyped
<1>3. NextPass \in Job /\ NextPass.v = job.v
  BY <1>2, NextPassIs
<1>4. JobTyped'
  <2>1. CASE job.swapped
    BY <1>2, <1>3, <2>1 DEF EndPass, JobTyped, Alive
  <2>2. CASE ~job.swapped
    BY <2>2 DEF EndPass, JobTyped
  <2> QED
    BY <2>1, <2>2
<1> QED
  BY <1>1, <1>4 DEF IInv

LEMMA ListPushKeeps == ASSUME IInv, NEW k \in Keys, ListPush(k) PROVE IInv'
<1> DEFINE b == NewBlock
<1>1. CASE list' = Append(list, b) /\ UNCHANGED lost
  <2>1. VecTyped /\ HeapTyped /\ PlacesTyped /\ Sole(Seated, InUse)
    BY DEF IInv
  <2>2. b \in Free /\ b \in Blocks
    BY NewBlockIsFree DEF Free, ListPush
  <2>3. Range(<<b>>) = {b} /\ DOMAIN <<b>> = {1} /\ <<k>>[1] = k
    BY DEF Range
  <2>4. /\ Calm /\ heap' = With(<<b>>, <<k>>) /\ lost' = lost
        /\ UNCHANGED <<vec, array, job, fate, setting>>
    BY <1>1 DEF ListPush
  <2> HIDE DEF b
  <2>5. Range(<<b>>) \subseteq Free /\ \A i \in DOMAIN <<b>> : <<k>>[i] \in Keys
    BY <2>2, <2>3
  <2>6. HeapTyped' /\ InUse' = InUse \cup {b} /\ b \notin InUse
    BY <2>1, <2>3, <2>4, <2>5, HeapGrows
  <2>7. VecTyped' /\ Seated' = [Seated EXCEPT !["list"] = Append(list, b)]
    BY <1>1, <2>1, <2>4, ListSet
  <2>8. list \in Seq(Blocks) /\ list \in Seq(Place) /\ PlacesTyped'
    BY <1>1, <2>1, <2>2, <2>4 DEF PlacesTyped, Place
  <2>9. Seated["list"] = list /\ "list" \in Seats /\ DOMAIN Seated = Seats
    BY SeatedIs
  <2>10. Sole([Seated EXCEPT !["list"] = Append(Seated["list"], b)], InUse \cup {b})
    BY <2>1, <2>2, <2>6, <2>8, <2>9, InUseBlocks, Appended
  <2> QED
    BY <2>4, <2>6, <2>7, <2>8, <2>9, <2>10, Served
<1>2. CASE lost' = lost \cup {b} /\ UNCHANGED list
  BY <1>2, LeakKeeps DEF ListPush
<1> QED
  BY <1>1, <1>2 DEF ListPush

LEMMA ListPopKeeps == ASSUME IInv, ListPop PROVE IInv'
<1>1. VecTyped /\ HeapTyped /\ PlacesTyped /\ Sole(Seated, InUse)
  BY DEF IInv
<1>2. Seated["list"] = list /\ "list" \in Seats /\ DOMAIN Seated = Seats
  BY SeatedIs
<1>3. /\ list \in Seq(Blocks) /\ list # <<>> /\ Head(list) \in Blocks
      /\ Tail(list) \in Seq(Blocks) /\ PlacesTyped'
  BY <1>1 DEF ListPop, PlacesTyped
<1>4. {Head(list)} \cap lost = {}
  <2>1. Head(list) = list[1] /\ 1 \in DOMAIN list
    BY <1>3
  <2>2. list[1] \in InUse \cup {Null}
    BY <1>1, <1>2, <2>1 DEF Sole, Held
  <2> QED
    BY <1>3, <2>1, <2>2, VectorAssumption DEF InUse
<1>5. HeapTyped' /\ InUse' = InUse \ {Head(list)}
  BY <1>1, <1>4, HeapShrinks DEF ListPop
<1>6. VecTyped' /\ Seated' = [Seated EXCEPT !["list"] = Tail(list)]
  BY <1>1, ListSet DEF ListPop
<1>7. Sole([Seated EXCEPT !["list"] = Tail(Seated["list"])], InUse \ {Head(Seated["list"])})
  BY <1>1, <1>2, <1>3, InUseBlocks, Beheaded
<1> QED
  BY <1>2, <1>3, <1>5, <1>6, <1>7, Served DEF ListPop

\* The array gets copies of some values of a seat, and NULL for the others.
LEMMA ArrayKeeps ==
    ASSUME IInv, Calm, array = <<>>, NEW c \in Seats, NEW s, s = Seated[c], s \in Seq(Place),
           NEW copied \in SUBSET DOMAIN s, Cardinality(copied) <= Cardinality(Free),
           \A i \in copied : s[i] # Null,
           array' = [i \in DOMAIN s |-> IF i \in copied THEN Fresh(copied)[i] ELSE Null],
           heap' = With(Fresh(copied), KeysOf(s)),
           UNCHANGED <<vec, list, lost, job, fate, setting>>
    PROVE  IInv'
<1> DEFINE ids == Fresh(copied)
           t == [i \in DOMAIN s |-> IF i \in copied THEN ids[i] ELSE Null]
<1>1. VecTyped /\ HeapTyped /\ PlacesTyped /\ Sole(Seated, InUse)
  BY DEF IInv
<1>2. Len(s) \in Nat /\ DOMAIN s = 1..Len(s)
  OBVIOUS
<1>3. IsFiniteSet(copied)
  <2>1. IsFiniteSet(DOMAIN s)
    BY <1>2, FS_Interval
  <2> QED
    BY <2>1, FS_Subset
<1>4. ids \in [copied -> Free] /\ \A i, j \in copied : ids[i] = ids[j] => i = j
  BY <1>3, FreshAreNew
<1>5. Range(ids) \subseteq Free /\ DOMAIN ids = copied /\ Free \subseteq Blocks
  BY <1>4 DEF Range, Free
<1>6. \A i \in DOMAIN ids : KeysOf(s)[i] \in Keys
  BY <1>5, OwnedInUse DEF KeysOf
<1>7. t \in Seq(Place) /\ PlacesTyped'
  BY <1>1, <1>2, <1>4, <1>5 DEF PlacesTyped, Place
<1>8. array' = t /\ heap' = With(ids, KeysOf(s))
  OBVIOUS
<1>9. \A i \in DOMAIN t : t[i] \in Range(ids) \cup {Null}
  BY <1>5 DEF Range
<1>10. \A i, j \in DOMAIN t : t[i] = t[j] /\ t[i] # Null => i = j
  BY <1>4
<1>11. \A b \in Range(ids) : \E i \in DOMAIN t : t[i] = b
  <2> SUFFICES ASSUME NEW b \in Range(ids) PROVE \E i \in DOMAIN t : t[i] = b
    OBVIOUS
  <2>1. PICK i \in copied : ids[i] = b
    BY <1>5 DEF Range
  <2>2. i \in DOMAIN t /\ t[i] = b
    BY <2>1
  <2> QED
    BY <2>2
<1> HIDE DEF t, ids
<1>12. VecTyped' /\ Seated' = [Seated EXCEPT !["array"] = t]
  BY <1>1, <1>8, ArraySet
<1>13. /\ HeapTyped' /\ InUse' = InUse \cup Range(ids)
       /\ Range(ids) \subseteq Blocks /\ Range(ids) \cap InUse = {}
  BY <1>1, <1>5, <1>6, <1>8, HeapGrows
<1>14. Seated["array"] = <<>> /\ "array" \in Seats /\ DOMAIN Seated = Seats
  BY SeatedIs
<1>15. Sole([Seated EXCEPT !["array"] = t], InUse \cup Range(ids))
  BY <1>1, <1>9, <1>10, <1>11, <1>13, <1>14, InUseBlocks, Filled
<1> QED
  BY <1>7, <1>12, <1>13, <1>15, Served

LEMMA ListArrayKeeps == ASSUME IInv, ListArray PROVE IInv'
<1>1. PICK copied \in SUBSET DOMAIN list :
        /\ Cardinality(copied) <= Cardinality(Free)
        /\ array' = [i \in DOMAIN list |-> IF i \in copied THEN Fresh(copied)[i] ELSE Null]
        /\ heap' = With(Fresh(copied), KeysOf(list))
  BY DEF ListArray
<1>2. list = Seated["list"] /\ "list" \in Seats /\ list \in Seq(Place)
      /\ \A i \in copied : list[i] # Null
  BY SeatedIs, VectorAssumption DEF IInv, PlacesTyped, Place
<1>3. Calm /\ array = <<>> /\ UNCHANGED <<vec, list, lost, job, fate, setting>>
  BY DEF ListArray
<1> QED
  BY <1>1, <1>2, <1>3, ArrayKeeps

LEMMA VectorArrayKeeps == ASSUME IInv, NEW v \in Vectors, VectorArray(v) PROVE IInv'
<1> DEFINE s == Items(v)
           copied == DOMAIN s
<1>1. CASE Become("undefined")
  BY <1>1, Stopped
<1>2. CASE ~Become("undefined")
  <2>1. /\ Calm /\ Alive(v) /\ array = <<>> /\ ~HasHole(s) /\ Len(s) <= Cardinality(Free)
        /\ array' = Fresh(copied) /\ heap' = With(Fresh(copied), KeysOf(s))
        /\ UNCHANGED <<vec, list, lost, job, fate, setting>>
    BY <1>2, SMTT(40) DEF VectorArray
  <2>2. s \in Seq(Place) /\ Len(s) \in Nat /\ copied = 1..Len(s)
    BY <2>1, AliveIs DEF IInv
  <2>3. s = Seated[v] /\ v \in Seats
    BY <2>1, SeatedIs
  <2>4. \A i \in copied : s[i] # Null
    BY <2>1 DEF HasHole, Range
  <2>5. IsFiniteSet(copied) /\ Cardinality(copied) = Len(s)
    BY <2>2, FS_Interval
  <2>6. Fresh(copied) \in [copied -> Free]
    BY <2>1, <2>5, FreshAreNew
  <2>7. array' = [i \in DOMAIN s |-> IF i \in copied THEN Fresh(copied)[i] ELSE Null]
    BY <2>1, <2>6
  <2>8. copied \in SUBSET DOMAIN s /\ Cardinality(copied) <= Cardinality(Free)
    BY <2>1, <2>5
  <2> HIDE DEF copied, s
  <2> QED
    BY <2>1, <2>2, <2>3, <2>4, <2>7, <2>8, ArrayKeeps
<1> QED
  BY <1>1, <1>2

LEMMA DeleteArrayKeeps == ASSUME IInv, DeleteArray PROVE IInv'
<1>1. VecTyped /\ HeapTyped /\ PlacesTyped /\ Sole(Seated, InUse)
  BY DEF IInv
<1>2. Seated["array"] = array /\ "array" \in Seats /\ DOMAIN Seated = Seats
  BY SeatedIs
<1>3. HeapTyped' /\ InUse' = InUse \ BlocksOf(Seated["array"])
  BY <1>1, <1>2, OwnedInUse, HeapShrinks DEF DeleteArray
<1>4. VecTyped' /\ Seated' = [Seated EXCEPT !["array"] = <<>>]
  BY <1>1, ArraySet DEF DeleteArray
<1>5. Sole([Seated EXCEPT !["array"] = <<>>], InUse \ BlocksOf(Seated["array"]))
  BY <1>1, <1>2, InUseBlocks, Emptied
<1>6. PlacesTyped'
  BY <1>1 DEF DeleteArray, PlacesTyped
<1> QED
  BY <1>3, <1>4, <1>5, <1>6, Served DEF DeleteArray

LEMMA TransferKeeps == ASSUME IInv, NEW v \in Vectors, Transfer(v) PROVE IInv'
<1>1. CASE Become("undefined")
  BY <1>1, Stopped
<1>2. CASE ~Become("undefined")
  <2>1. /\ SetVector(v, list, Len(list)) /\ list' = <<>> /\ vec[v] = Absent /\ Calm
        /\ UNCHANGED <<array, heap, lost, job, fate, setting>>
    BY <1>2 DEF Transfer
  <2>2. VecTyped /\ PlacesTyped /\ HeapTyped' /\ Sole(Seated, InUse) /\ InUse' = InUse
    BY <2>1 DEF IInv, HeapTyped, InUse
  <2>3. list \in Seq(Place) /\ Len(list) \in Nat /\ Len(list) <= Len(list) /\ PlacesTyped'
    BY <2>1, <2>2 DEF PlacesTyped, Place
  <2>4. VecTyped' /\ Seated' = [Seated EXCEPT ![v] = Seated["list"], !["list"] = <<>>]
    <3> DEFINE r == [items |-> list, capacity |-> Len(list)]
    <3>1. r \in Vector /\ r.items = list /\ r.capacity = Len(list)
      BY <2>3 DEF Vector
    <3>2. r \notin {Absent, Garbage}
      BY <3>1, VectorAssumption
    <3>3. vec' = [vec EXCEPT ![v] = r]
      BY <2>1 DEF SetVector
    <3> HIDE DEF r
    <3>4. vec'[v] = r /\ \A w \in Vectors : w # v => vec'[w] = vec[w]
      BY <2>2, <3>3 DEF VecTyped
    <3>5. /\ Alive(v)' /\ Items(v)' = list
          /\ \A w \in Vectors : w # v => (Alive(w)' <=> Alive(w)) /\ Items(w)' = Items(w)
      BY <3>1, <3>2, <3>4 DEF Alive, Items
    <3>6. VecTyped'
      <4>1. vec' \in [Vectors -> {Absent, Garbage} \cup Vector]
        BY <2>2, <3>1, <3>3 DEF VecTyped
      <4>2. ASSUME NEW w \in Vectors, Alive(w)' PROVE Len(Items(w))' <= vec'[w].capacity
        <5>1. CASE w = v
          BY <2>3, <3>1, <3>4, <3>5, <5>1
        <5>2. CASE w # v
          BY <2>2, <3>4, <3>5, <4>2, <5>2 DEF VecTyped
        <5> QED
          BY <5>1, <5>2
      <4> QED
        BY <4>1, <4>2 DEF VecTyped
    <3>7. Seated' = [Seated EXCEPT ![v] = Seated["list"], !["list"] = <<>>]
      BY <2>1, <3>5, VectorAssumption DEF Seated, Places, Seats
    <3> QED
      BY <3>6, <3>7
  <2>5. Sole([Seated EXCEPT ![v] = Seated["list"], !["list"] = <<>>], InUse)
    <3>1. /\ v \in Seats /\ "list" \in Seats /\ "list" # v /\ DOMAIN Seated = Seats
          /\ Seated[v] = <<>>
      BY <2>1, SeatedIs DEF Alive
    <3>2. InUse \in SUBSET Blocks
      BY InUseBlocks DEF IInv
    <3> QED
      BY <2>2, <3>1, <3>2, Moved
  <2> QED
    BY <2>1, <2>2, <2>3, <2>4, <2>5, Served
<1> QED
  BY <1>1, <1>2

-----------------------------------------------------------------------------
(* The theorems *)

LEMMA InitInvariant == Init => IInv
<1> SUFFICES ASSUME Init PROVE IInv
  OBVIOUS
<1>1. VecTyped /\ PlacesTyped /\ HeapTyped /\ JobTyped /\ SettingTyped
  BY DEF Init, VecTyped, PlacesTyped, HeapTyped, JobTyped, SettingTyped, Alive
<1>2. InUse = {} /\ \A c \in Seats : Seated[c] = <<>>
  BY DEF Init, InUse, Seated, Places, Seats, Alive
<1>3. Sole(Seated, InUse)
  BY <1>2 DEF Sole, Held, Once, Covered
<1> QED
  BY <1>1, <1>3 DEF IInv

LEMMA VectorKeeps == ASSUME IInv, NEW v \in Vectors, OnVector(v) PROVE IInv'
<1>1. CASE UseGarbage(v)
  BY <1>1, Stopped DEF UseGarbage
<1>2. CASE Clear(v) \/ Delete(v)
  BY <1>2, EmptyKeeps DEF Clear, Delete
<1>3. CASE New(v)
  <2>1. CASE Become("undefined")
    BY <2>1, Stopped
  <2>2. CASE ~Become("undefined")
    BY <1>3, <2>2, NewKeeps, 0 \in Nat DEF New
  <2> QED
    BY <2>1, <2>2
<1>4. ASSUME NEW n \in Capacities, NewWithCapacity(v, n) PROVE IInv'
  <2>1. n \in Nat
    BY VectorAssumption
  <2>2. CASE Become("undefined")
    BY <2>2, Stopped
  <2>3. CASE ~Become("undefined")
    BY <1>4, <2>1, <2>3, NewKeeps DEF NewWithCapacity
  <2> QED
    BY <2>2, <2>3
<1>5. ASSUME NEW k \in Keys, PushBack(v, k) PROVE IInv'
  <2>1. CASE Become("aborted")
    BY <2>1, Stopped
  <2>2. CASE ~Become("aborted")
    BY <1>5, <2>2, PushKeeps DEF PushBack
  <2> QED
    BY <2>1, <2>2
<1>6. ASSUME NEW k \in Keys, PushLost(v, k) PROVE IInv'
  BY <1>6, LeakKeeps DEF PushLost
<1>7. ASSUME NEW i, ReadNothing(v, i) PROVE IInv'
  BY <1>7, Stopped DEF ReadNothing
<1>8. ASSUME NEW w \in Vectors, Copy(v, w) PROVE IInv'
  <2>1. CASE Become("undefined")
    BY <2>1, Stopped
  <2>2. CASE Become(Trouble)
    BY <2>2, Stopped, TroubleIs
  <2>3. CASE vec' = [vec EXCEPT ![w] = Garbage] /\ UNCHANGED <<list, array, heap, lost, job, fate, setting>>
    BY <1>8, <2>3, NewKeeps, 0 \in Nat DEF Copy
  <2>4. ASSUME NEW n \in 0..Len(Items(v)), n <= Cardinality(Free),
               ~(\E i \in DOMAIN Items(v) : i <= n + 1 /\ Items(v)[i] = Null),
               CopyTo(v, w, n)
        PROVE  IInv'
    BY <1>8, <2>4, CopyKeeps DEF Copy
  <2> QED
    BY <1>8, <2>1, <2>2, <2>3, <2>4 DEF Copy
<1>9. ASSUME NEW n \in Capacities, SetCapacity(v, n) PROVE IInv'
  <2>1. CASE Become("aborted")
    BY <2>1, Stopped
  <2>2. CASE ~Become("aborted")
    <3>1. n \in Nat
      BY VectorAssumption
    <3> QED
      BY <1>9, <2>2, <3>1, CapacityKeeps DEF SetCapacity
  <2> QED
    BY <2>1, <2>2
<1>10. ASSUME NEW i, NEW j, Swap(v, i, j) PROVE IInv'
  <2>1. CASE Become("aborted")
    BY <2>1, Stopped
  <2>2. CASE ~Become("aborted")
    <3>1. /\ Calm /\ Alive(v) /\ i \in DOMAIN Items(v) /\ j \in DOMAIN Items(v)
          /\ SetVector(v, Swapped(Items(v), i, j), vec[v].capacity)
          /\ UNCHANGED <<list, array, heap, lost, job, fate, setting>>
      BY <1>10, <2>2 DEF Swap
    <3>2. VecTyped' /\ PlacesTyped' /\ HeapTyped' /\ Sole(Seated', InUse')
      BY <3>1, SwapKeeps
    <3> QED
      BY <3>1, <3>2, Served
  <2> QED
    BY <2>1, <2>2
<1>11. ASSUME NEW order \in {"bigger", "smaller"}, StartSort(v, order) PROVE IInv'
  BY <1>11, StartSortKeeps
<1>12. CASE VectorArray(v)
  BY <1>12, VectorArrayKeeps
<1>13. CASE Transfer(v)
  BY <1>13, TransferKeeps
<1> QED
  BY <1>1, <1>2, <1>3, <1>4, <1>5, <1>6, <1>7, <1>8, <1>9, <1>10, <1>11, <1>12, <1>13
     DEF OnVector

LEMMA NextInvariant == IInv /\ [Next]_vars => IInv'
<1> SUFFICES ASSUME IInv, [Next]_vars PROVE IInv'
  OBVIOUS
<1>1. ASSUME NEW v \in Vectors, OnVector(v) PROVE IInv'
  BY <1>1, VectorKeeps
<1>2. CASE Sorting
  BY <1>2, CompareKeeps, EndPassKeeps DEF Sorting
<1>3. CASE DeleteArray
  BY <1>3, DeleteArrayKeeps
<1>4. CASE OnList
  BY <1>4, ListPushKeeps, ListPopKeeps, ListArrayKeeps DEF OnList
<1>5. CASE UNCHANGED vars
  BY <1>5 DEF vars, setting, IInv, VecTyped, PlacesTyped, HeapTyped, JobTyped, SettingTyped,
     Seated, Places, Alive, Items, InUse
<1> QED
  BY <1>1, <1>2, <1>3, <1>4, <1>5 DEF Next

\* The inductive invariant holds in every state a program can reach.
THEOREM Invariance == Spec => []IInv
  BY InitInvariant, NextInvariant, PTL DEF Spec

\* No vector is ever longer than its array, and every variable has its type,
\* whatever the sequence of calls and of failed allocations
\* (cvector_generic.c:41-230).
THEOREM TypeCorrect == Spec => []TypeOK
<1>1. IInv => TypeOK
  <2> SUFFICES ASSUME IInv PROVE TypeOK
    OBVIOUS
  <2>1. \A v \in Vectors :
          \/ vec[v] \in {Absent, Garbage}
          \/ vec[v] \in Vector /\ Len(Items(v)) <= vec[v].capacity
    BY DEF IInv, VecTyped, Alive
  <2>2. Range(heap) \subseteq Keys
    BY DEF IInv, HeapTyped, Range
  <2> QED
    BY <2>1, <2>2 DEF IInv, PlacesTyped, HeapTyped, JobTyped, SettingTyped, TypeOK
<1> QED
  BY <1>1, Invariance, PTL

\* An allocated value has exactly one owner, or was forgotten by a push that
\* failed, and nothing points at what was freed, for any number of vectors and
\* of values (cvector_generic.c:41-230, ccontainer_utils.c:16-53).
THEOREM Owned == Spec => []OneOwner
<1>1. IInv => OneOwner
  BY SoleOwners DEF IInv, HeapTyped
<1> QED
  BY <1>1, Invariance, PTL

-----------------------------------------------------------------------------
(* What the promise sees *)

View == <<Contents, list, array, OwnedKeys, Task, Status>>

Refines == Promise!Next \/ UNCHANGED View

\* Between two calls no sort runs.
LEMMA Idle ==
    ASSUME Calm, UNCHANGED <<job, fate>>
    PROVE  /\ Status = "idle" /\ Status' = "idle" /\ Task = NoJob /\ Task' = NoJob
           /\ \A v \in Vectors : Contents[v] = IF Alive(v) THEN Items(v) ELSE Absent
           /\ DOMAIN Contents = Vectors
  BY DEF Calm, Status, Task, Contents, Seen, Alive, Items

LEMMA Exists ==
    ASSUME VecTyped, Calm, NEW v \in Vectors
    PROVE  /\ Promise!Exists(v) <=> Alive(v)
           /\ Alive(v) => Contents[v] = Items(v)
<1>1. Alive(v) => Items(v) # Absent
  BY AliveIs, VectorAssumption
<1> QED
  BY <1>1 DEF Calm, Contents, Seen, Promise!Exists, Alive, Items

\* A call that ends well.
LEMMA AsCall ==
    ASSUME Calm, UNCHANGED <<job, fate>>, Promise!Call
    PROVE  Refines
  BY DEF Refines, Promise!Next

\* One that does not.
LEMMA AsHalt ==
    ASSUME fate = "ok", NEW o \in {"aborted", "undefined"}, Become(o)
    PROVE  Refines
<1>1. UNCHANGED <<vec, list, array, heap, lost, job>> /\ fate' # "ok"
  BY DEF Become
<1>2. UNCHANGED <<Contents, list, array, OwnedKeys, Task>>
  BY <1>1 DEF Contents, Seen, Alive, Items, OwnedKeys, Task
<1>3. Status' = "stopped" /\ Status # "stopped"
  BY <1>1 DEF Status
<1>4. Promise!Halt
  BY <1>2, <1>3 DEF Promise!Halt
<1> QED
  BY <1>4 DEF Refines, Promise!Next

LEMMA TroubleHalts == Trouble \in {"aborted", "undefined"}
  BY DEF Trouble

\* A vector gets other places, or ends.
LEMMA ContentsSet ==
    ASSUME VecTyped, Calm, UNCHANGED job, NEW v \in Vectors, NEW s \in Seq(Place), NEW n \in Nat,
           SetVector(v, s, n)
    PROVE  Contents' = [Contents EXCEPT ![v] = s]
<1> DEFINE r == [items |-> s, capacity |-> n]
<1>1. r \in Vector /\ r.items = s
  BY DEF Vector
<1>2. r \notin {Absent, Garbage}
  BY <1>1, VectorAssumption
<1>3. vec' = [vec EXCEPT ![v] = r]
  BY DEF SetVector
<1> HIDE DEF r
<1>4. vec'[v] = r /\ \A w \in Vectors : w # v => vec'[w] = vec[w]
  BY <1>3 DEF VecTyped
<1>5. job = NoJob /\ job' = NoJob
  BY DEF Calm
<1> QED
  BY <1>1, <1>2, <1>4, <1>5 DEF Contents, Seen, Alive, Items

LEMMA ContentsGone ==
    ASSUME VecTyped, Calm, UNCHANGED job, NEW v \in Vectors, NEW x \in {Absent, Garbage},
           vec' = [vec EXCEPT ![v] = x]
    PROVE  Contents' = [Contents EXCEPT ![v] = Absent]
<1>1. vec'[v] = x /\ \A w \in Vectors : w # v => vec'[w] = vec[w]
  BY DEF VecTyped
<1>2. job = NoJob /\ job' = NoJob
  BY DEF Calm
<1>3. DOMAIN Contents = Vectors /\ DOMAIN Contents' = Vectors
  BY DEF Contents
<1>4. Contents'[v] = Absent
  BY <1>1 DEF Contents, Seen, Alive, Items
<1>5. \A w \in Vectors : w # v => Contents'[w] = Contents[w]
  BY <1>1, <1>2 DEF Contents, Seen, Alive, Items
<1> QED
  BY <1>3, <1>4, <1>5 DEF Contents

\* The same vectors are seen.
LEMMA ContentsSame ==
    ASSUME UNCHANGED <<vec, job>> PROVE Contents' = Contents
  BY DEF Contents, Seen, Alive, Items

-----------------------------------------------------------------------------
(* The keys of what is in use *)

\* The promise knows what is in use, and no block that was forgotten.
LEMMA KeysAre ==
    DOMAIN OwnedKeys = InUse /\ \A b \in InUse : OwnedKeys[b] = heap[b]
  BY DEF OwnedKeys, Restrict, InUse

LEMMA KeysSame ==
    ASSUME UNCHANGED <<heap, lost>> PROVE OwnedKeys' = OwnedKeys
  BY DEF OwnedKeys

\* New blocks are values nobody had.
LEMMA KeysGrow ==
    ASSUME HeapTyped, NEW s, NEW keys, Range(s) \subseteq Free,
           heap' = With(s, keys), lost' = lost
    PROVE  /\ Promise!NewKeys(s, keys)
           /\ Range(s) \subseteq Blocks \ DOMAIN OwnedKeys
           /\ \A i \in DOMAIN s : s[i] \in Range(s)
           /\ \A b \in DOMAIN OwnedKeys : b \in DOMAIN OwnedKeys' /\ OwnedKeys'[b] = OwnedKeys[b]
           /\ DOMAIN OwnedKeys' = DOMAIN OwnedKeys \cup Range(s)
<1> DEFINE new(b) == keys[CHOOSE i \in DOMAIN s : s[i] = b]
           R == Range(s)
<1>1. heap' = [b \in DOMAIN heap \cup R |-> IF b \in R THEN new(b) ELSE heap[b]]
  BY DEF With
<1>2. R \subseteq Blocks /\ R \cap DOMAIN heap = {} /\ lost \subseteq DOMAIN heap
  BY DEF Free, HeapTyped
<1>3. \A i \in DOMAIN s : s[i] \in R
  BY DEF Range
<1>4. R = Promise!Range(s)
  BY DEF Range, Promise!Range
<1> HIDE DEF new, R
<1>5. InUse' = InUse \cup R /\ R \cap InUse = {}
  BY <1>1, <1>2 DEF InUse
<1>6. OwnedKeys' = [b \in InUse \cup R |-> IF b \in R THEN new(b) ELSE OwnedKeys[b]]
  <2>1. OwnedKeys' = [b \in InUse' |-> heap'[b]] /\ OwnedKeys = [b \in InUse |-> heap[b]]
    BY DEF OwnedKeys, Restrict, InUse
  <2>2. \A b \in InUse \cup R : heap'[b] = IF b \in R THEN new(b) ELSE heap[b]
    BY <1>1 DEF InUse
  <2> QED
    BY <1>5, <2>1, <2>2
<1>7. DOMAIN OwnedKeys = InUse
  BY KeysAre
<1>8. Promise!NewKeys(s, keys)
  BY <1>4, <1>6, <1>7 DEF Promise!NewKeys, new
<1>9. /\ \A b \in DOMAIN OwnedKeys : b \in DOMAIN OwnedKeys' /\ OwnedKeys'[b] = OwnedKeys[b]
      /\ DOMAIN OwnedKeys' = DOMAIN OwnedKeys \cup R
  BY <1>5, <1>6, <1>7
<1> QED
  BY <1>2, <1>3, <1>5, <1>7, <1>8, <1>9 DEF R

\* Each has the key it was made with.
LEMMA KeyGrows ==
    ASSUME HeapTyped, NEW s, NEW keys, Range(s) \subseteq Free,
           heap' = With(s, keys), lost' = lost,
           NEW i \in DOMAIN s, \A j \in DOMAIN s : s[j] = s[i] => j = i
    PROVE  OwnedKeys'[s[i]] = keys[i]
<1> DEFINE new(b) == keys[CHOOSE j \in DOMAIN s : s[j] = b]
<1>1. s[i] \in Range(s)
  BY DEF Range
<1>2. (CHOOSE j \in DOMAIN s : s[j] = s[i]) = i
  OBVIOUS
<1>3. new(s[i]) = keys[i]
  BY <1>2
<1>4. heap' = [b \in DOMAIN heap \cup Range(s) |-> IF b \in Range(s) THEN new(b) ELSE heap[b]]
  BY DEF With
<1> HIDE DEF new
<1>5. s[i] \in DOMAIN heap' /\ heap'[s[i]] = keys[i]
  BY <1>1, <1>3, <1>4
<1>6. s[i] \in InUse'
  BY <1>1, <1>5 DEF InUse, HeapTyped, Free
<1>7. OwnedKeys' = [b \in InUse' |-> heap'[b]]
  BY DEF OwnedKeys, Restrict, InUse
<1> QED
  BY <1>5, <1>6, <1>7

\* A block that is forgotten at once was never a value.
LEMMA KeysLeak ==
    ASSUME HeapTyped, NEW b \in Free, NEW k, heap' = With(<<b>>, <<k>>), lost' = lost \cup {b}
    PROVE  OwnedKeys' = OwnedKeys
<1>1. Range(<<b>>) = {b}
  BY DEF Range
<1>2. DOMAIN heap' = DOMAIN heap \cup {b} /\ \A x \in DOMAIN heap : heap'[x] = heap[x]
  BY <1>1 DEF With, Free
<1>3. InUse' = InUse /\ \A x \in InUse : heap'[x] = heap[x]
  BY <1>2 DEF InUse, Free, HeapTyped
<1> QED
  BY <1>3 DEF OwnedKeys, Restrict, InUse

\* What is freed ends.
LEMMA KeysEnd ==
    ASSUME HeapTyped, NEW S, heap' = Without(S), lost' = lost
    PROVE  Promise!End(S)
<1>1. DOMAIN heap' = DOMAIN heap \ S /\ \A b \in DOMAIN heap' : heap'[b] = heap[b]
  BY DEF Without, Restrict
<1>2. InUse' = InUse \ S /\ \A b \in InUse' : heap'[b] = heap[b]
  BY <1>1 DEF InUse
<1>3. OwnedKeys' = [b \in InUse' |-> heap'[b]] /\ OwnedKeys = [b \in InUse |-> heap[b]]
  BY DEF OwnedKeys, Restrict, InUse
<1> QED
  BY <1>2, <1>3 DEF Promise!End, Promise!Restrict

-----------------------------------------------------------------------------
(* Each call is one of the promise, or is not seen *)

\* A vector whose members were not initialised is not seen.
LEMMA NewRefines ==
    ASSUME IInv, NEW v \in Vectors, NEW n \in Nat, Calm, vec[v] = Absent,
           SetVector(v, <<>>, n) \/ vec' = [vec EXCEPT ![v] = Garbage],
           UNCHANGED <<list, array, heap, lost, job, fate, setting>>
    PROVE  Refines
<1>1. VecTyped /\ ~Alive(v) /\ Contents[v] = Absent /\ DOMAIN Contents = Vectors
  BY Idle DEF IInv, Alive
<1>2. /\ UNCHANGED <<list, array, OwnedKeys, Task>> /\ Status = "idle" /\ Status' = "idle"
  BY Idle, KeysSame
<1>3. CASE SetVector(v, <<>>, n)
  <2>1. Contents' = [Contents EXCEPT ![v] = <<>>]
    <3>1. <<>> \in Seq(Place)
      OBVIOUS
    <3> QED
      BY <1>1, <1>3, <3>1, ContentsSet
  <2>2. Promise!New(v)
    BY <1>1, <1>2, <2>1 DEF Promise!New, Promise!Set, Promise!Exists
  <2> QED
    BY <1>2, <2>2, AsCall DEF Promise!Call
<1>4. CASE vec' = [vec EXCEPT ![v] = Garbage]
  <2>1. Contents' = [Contents EXCEPT ![v] = Absent]
    BY <1>1, <1>4, ContentsGone
  <2>2. Contents' = Contents
    BY <1>1, <2>1 DEF Contents
  <2> QED
    BY <1>2, <2>2 DEF Refines, View
<1> QED
  BY <1>3, <1>4

LEMMA EmptyRefines ==
    ASSUME IInv, NEW v \in Vectors, Calm, Alive(v), heap' = Without(Deleted(Items(v))),
           \/ SetVector(v, <<>>, vec[v].capacity)
           \/ vec' = [vec EXCEPT ![v] = Absent],
           UNCHANGED <<list, array, lost, job, fate, setting>>
    PROVE  Refines
<1>1. /\ VecTyped /\ HeapTyped /\ Promise!Exists(v) /\ Contents[v] = Items(v)
      /\ vec[v].capacity \in Nat
  BY Exists, AliveIs DEF IInv
<1>2. /\ UNCHANGED <<list, array, Task>> /\ Status = "idle" /\ Status' = "idle"
  BY Idle
<1>3. Promise!End(Promise!Values(Contents[v]))
  <2>1. Deleted(Items(v)) = Promise!Values(Contents[v])
    BY <1>1 DEF Deleted, BlocksOf, Range, Promise!Values, Promise!Range
  <2> QED
    BY <1>1, <2>1, KeysEnd
<1>4. Contents' = [Contents EXCEPT ![v] = <<>>] \/ Contents' = [Contents EXCEPT ![v] = Absent]
  <2>1. <<>> \in Seq(Place)
    OBVIOUS
  <2> QED
    BY <1>1, <2>1, ContentsSet, ContentsGone
<1>5. Promise!Clear(v)
  BY <1>1, <1>2, <1>3, <1>4 DEF Promise!Clear, Promise!Set
<1> QED
  BY <1>2, <1>5, AsCall DEF Promise!Call

LEMMA PushRefines ==
    ASSUME IInv, NEW v \in Vectors, NEW k \in Keys, Calm, Alive(v), Free # {},
           SetVector(v, Append(Items(v), NewBlock),
                     IF Fits(v) THEN vec[v].capacity ELSE Needed(v)),
           heap' = With(<<NewBlock>>, <<k>>), UNCHANGED <<list, array, lost, job, fate, setting>>
    PROVE  Refines
<1> DEFINE b == NewBlock
           cap == IF Fits(v) THEN vec[v].capacity ELSE Needed(v)
<1>1. /\ VecTyped /\ HeapTyped /\ Promise!Exists(v) /\ Contents[v] = Items(v)
  BY Exists DEF IInv
<1>2. b \in Free /\ b \in Blocks /\ b \in Place
  BY NewBlockIsFree DEF Free, Place
<1>3. /\ Append(Items(v), b) \in Seq(Place) /\ cap \in Nat
  BY <1>1, <1>2, AliveIs DEF Fits, Needed
<1>4. Range(<<b>>) = {b} /\ Promise!Range(<<b>>) = {b} /\ DOMAIN <<b>> = {1}
  BY DEF Range, Promise!Range
<1> HIDE DEF b, cap
<1>5. SetVector(v, Append(Items(v), b), cap) /\ heap' = With(<<b>>, <<k>>)
  BY DEF b, cap
<1>6. Contents' = [Contents EXCEPT ![v] = Append(Contents[v], b)]
  BY <1>1, <1>3, <1>5, ContentsSet
<1>7. Range(<<b>>) \subseteq Free
  BY <1>2, <1>4
<1>8. Promise!NewKeys(<<b>>, <<k>>) /\ Range(<<b>>) \subseteq Blocks \ DOMAIN OwnedKeys
  BY <1>1, <1>5, <1>7, KeysGrow
<1>9. Promise!Fresh(<<b>>)
  BY <1>4, <1>8 DEF Promise!Fresh
<1>10. UNCHANGED <<list, array, Task>> /\ Status = "idle" /\ Status' = "idle"
  BY Idle
<1>11. Promise!PushBack(v, b, k)
  BY <1>1, <1>6, <1>8, <1>9, <1>10 DEF Promise!PushBack, Promise!Set
<1> QED
  BY <1>2, <1>10, <1>11, AsCall DEF Promise!Call

\* A push that failed is not seen.
LEMMA LeakRefines ==
    ASSUME IInv, NEW k \in Keys, Calm, Free # {}, heap' = With(<<NewBlock>>, <<k>>),
           lost' = lost \cup {NewBlock}, UNCHANGED <<vec, list, array, job, fate, setting>>
    PROVE  Refines
<1>1. OwnedKeys' = OwnedKeys
  BY NewBlockIsFree, KeysLeak DEF IInv
<1> QED
  BY <1>1, Idle, ContentsSame DEF Refines, View

\* Nor is the growth of a vector.
LEMMA CapacityRefines ==
    ASSUME IInv, NEW v \in Vectors, NEW n \in Nat, Calm, Alive(v),
           SetVector(v, Items(v), n), UNCHANGED <<list, array, heap, lost, job, fate, setting>>
    PROVE  Refines
<1>1. VecTyped /\ Items(v) \in Seq(Place) /\ Contents[v] = Items(v)
  BY AliveIs, Exists DEF IInv
<1>2. Contents' = [Contents EXCEPT ![v] = Items(v)]
  BY <1>1, ContentsSet
<1>3. Contents' = Contents
  BY <1>1, <1>2 DEF Contents
<1> QED
  BY <1>3, Idle, KeysSame DEF Refines, View

LEMMA SwapRefines ==
    ASSUME IInv, NEW v \in Vectors, Calm, Alive(v), NEW i \in DOMAIN Items(v),
           NEW j \in DOMAIN Items(v), SetVector(v, Swapped(Items(v), i, j), vec[v].capacity),
           UNCHANGED <<list, array, heap, lost, job, fate, setting>>
    PROVE  Refines
<1>1. /\ VecTyped /\ Promise!Exists(v) /\ Contents[v] = Items(v) /\ Items(v) \in Seq(Place)
      /\ vec[v].capacity \in Nat
  BY Exists, AliveIs DEF IInv
<1>2. Swapped(Items(v), i, j) \in Seq(Place)
  BY <1>1 DEF Swapped
<1>3. Contents' = [Contents EXCEPT ![v] = Swapped(Contents[v], i, j)]
  BY <1>1, <1>2, ContentsSet
<1>4. UNCHANGED <<list, array, OwnedKeys, Task>> /\ Status = "idle" /\ Status' = "idle"
  BY Idle, KeysSame
<1>5. Promise!Swap(v)
  BY <1>1, <1>3, <1>4 DEF Promise!Swap, Promise!Set, Swapped
<1> QED
  BY <1>4, <1>5, AsCall DEF Promise!Call

LEMMA TransferRefines ==
    ASSUME IInv, NEW v \in Vectors, Transfer(v)
    PROVE  Refines
<1>1. CASE Become("undefined")
  BY <1>1, AsHalt DEF Transfer, Calm
<1>2. CASE ~Become("undefined")
  <2>1. /\ SetVector(v, list, Len(list)) /\ list' = <<>> /\ vec[v] = Absent /\ Calm
        /\ UNCHANGED <<array, heap, lost, job, fate, setting>>
    BY <1>2 DEF Transfer
  <2>2. VecTyped /\ list \in Seq(Place) /\ Len(list) \in Nat /\ ~Alive(v)
    BY <2>1 DEF IInv, PlacesTyped, Place, Alive
  <2>3. Contents' = [Contents EXCEPT ![v] = list] /\ ~Promise!Exists(v)
    BY <2>1, <2>2, ContentsSet, Exists
  <2>4. UNCHANGED <<array, OwnedKeys, Task>> /\ Status = "idle" /\ Status' = "idle"
    BY <2>1, Idle, KeysSame
  <2>5. Promise!Transfer(v)
    BY <2>1, <2>3, <2>4 DEF Promise!Transfer, Promise!Set
  <2> QED
    BY <2>1, <2>4, <2>5, AsCall DEF Promise!Call
<1> QED
  BY <1>1, <1>2

\* The copy of the first n places, those before the one that could not be copied.
LEMMA CopyRefines ==
    ASSUME IInv, NEW v \in Vectors, NEW w \in Vectors, Calm, Alive(v), vec[w] = Absent,
           NEW n \in 0..Len(Items(v)), n <= Cardinality(Free),
           \A i \in DOMAIN Items(v) : i <= n + 1 => Items(v)[i] # Null, CopyTo(v, w, n)
    PROVE  Refines
<1> DEFINE s == Items(v)
           ids == Fresh(1..n)
           t == [i \in DOMAIN s |-> IF i <= n THEN ids[i] ELSE Null]
           ks == KeysOf(SubSeq(s, 1, n))
<1>1. VecTyped /\ HeapTyped /\ Sole(Seated, InUse)
  BY DEF IInv
<1>2. s \in Seq(Place) /\ Len(s) \in Nat /\ DOMAIN s = 1..Len(s) /\ n \in Nat /\ n <= Len(s)
  BY <1>1, AliveIs
<1>3. ids \in [1..n -> Free] /\ \A i, j \in 1..n : ids[i] = ids[j] => i = j
  <2>1. IsFiniteSet(1..n) /\ Cardinality(1..n) = n
    BY <1>2, FS_Interval
  <2> QED
    BY <2>1, FreshAreNew
<1>4. Range(ids) \subseteq Free /\ DOMAIN ids = 1..n /\ Free \subseteq Blocks
  BY <1>3 DEF Range, Free
<1>5. t \in Seq(Place) /\ Len(t) = Len(s) /\ DOMAIN t = 1..Len(s)
  BY <1>2, <1>3, <1>4 DEF Place
<1>6. /\ SetVector(w, t, Len(s)) /\ heap' = With(ids, ks)
      /\ UNCHANGED <<list, array, lost, job, fate, setting>>
  BY DEF CopyTo
<1>7. ks = [i \in 1..n |-> OwnedKeys[s[i]]]
  <2>1. \A i \in 1..n : SubSeq(s, 1, n)[i] = s[i] /\ i \in DOMAIN s /\ s[i] # Null
    BY <1>2
  <2>2. DOMAIN SubSeq(s, 1, n) = 1..n
    BY <1>2
  <2>3. \A i \in DOMAIN s : s[i] \in InUse \cup {Null}
    BY <1>1, SeatedIs DEF Sole, Held
  <2>4. \A i \in 1..n : heap[s[i]] = OwnedKeys[s[i]]
    BY <2>1, <2>3, KeysAre
  <2> HIDE DEF s
  <2> QED
    BY <2>1, <2>2, <2>4 DEF KeysOf
<1>8. SubSeq(t, 1, n) = ids
  <2>1. \A i \in 1..n : t[i] = ids[i]
    BY <1>2
  <2> HIDE DEF t, ids, s
  <2>2. /\ SubSeq(t, 1, n) = [i \in 1..n |-> t[i]]
    BY <1>2, <1>5
  <2> QED
    BY <1>3, <2>1, <2>2
<1>9. \A i \in (n + 1)..Len(s) : t[i] = Null
  BY <1>2
<1>10. v # w
  BY DEF Alive
<1> HIDE DEF t, ids, ks
<1>11. Promise!NewKeys(ids, ks) /\ Range(ids) \subseteq Blocks \ DOMAIN OwnedKeys
  BY <1>1, <1>4, <1>6, KeysGrow
<1>12. Promise!Fresh(ids)
  BY <1>3, <1>4, <1>11 DEF Promise!Fresh, Promise!Range, Range
<1>13. Contents' = [Contents EXCEPT ![w] = t] /\ Contents'[w] = t
  <2>1. Contents' = [Contents EXCEPT ![w] = t]
    BY <1>1, <1>2, <1>5, <1>6, ContentsSet
  <2> QED
    BY <2>1, Idle DEF Contents
<1>14. /\ Promise!Exists(v) /\ Contents[v] = s /\ ~Promise!Exists(w)
  BY <1>1, Exists DEF Alive
<1>15. UNCHANGED <<list, array, Task>> /\ Status = "idle" /\ Status' = "idle"
  BY <1>6, Idle
<1> HIDE DEF s
<1>16. Promise!NewKeys(ids, [i \in 1..n |-> OwnedKeys[s[i]]])
  BY <1>7, <1>11
<1> DEFINE keys(c) == [i \in 1..n |-> OwnedKeys[c[i]]]
<1>17. /\ Len(Contents'[w]) = Len(Contents[v])
       /\ \A i \in (n + 1)..Len(Contents[v]) : Contents'[w][i] = Null
       /\ Promise!Fresh(SubSeq(Contents'[w], 1, n))
       /\ Promise!NewKeys(SubSeq(Contents'[w], 1, n), keys(Contents[v]))
       /\ Contents' = [Contents EXCEPT ![w] = Contents'[w]]
       /\ n \in 0..Len(Contents[v])
  <2>1. Promise!NewKeys(ids, keys(s))
    BY <1>16
  <2> HIDE DEF keys
  <2>2. Contents'[w] = t /\ Contents[v] = s
    BY <1>13, <1>14
  <2>3. Promise!NewKeys(SubSeq(Contents'[w], 1, n), keys(Contents[v]))
    BY <2>1, <2>2, <1>8
  <2>4. Promise!Fresh(SubSeq(Contents'[w], 1, n))
    BY <2>2, <1>8, <1>12
  <2> QED
    BY <2>2, <2>3, <2>4, <1>2, <1>5, <1>8, <1>9, <1>12, <1>13, <1>14, <1>16
<1>18. Promise!Copy(v, w)
  <2>1. Promise!Set(w, Contents'[w])
    BY <1>17 DEF Promise!Set
  <2> QED
    BY <1>14, <1>15, <1>17, <2>1 DEF Promise!Copy, keys
<1> QED
  BY <1>6, <1>15, <1>18, AsCall DEF Promise!Call

LEMMA ListPushRefines ==
    ASSUME IInv, NEW k \in Keys, ListPush(k)
    PROVE  Refines
<1> DEFINE b == NewBlock
<1>1. CASE list' = Append(list, b) /\ UNCHANGED lost
  <2>1. b \in Free /\ b \in Blocks
    BY NewBlockIsFree DEF Free, ListPush
  <2>2. Range(<<b>>) = {b} /\ Promise!Range(<<b>>) = {b} /\ DOMAIN <<b>> = {1}
    BY DEF Range, Promise!Range
  <2>3. /\ Calm /\ heap' = With(<<b>>, <<k>>) /\ lost' = lost /\ HeapTyped
        /\ UNCHANGED <<vec, array, job, fate, setting>>
    BY <1>1 DEF ListPush, IInv
  <2> HIDE DEF b
  <2>4. Range(<<b>>) \subseteq Free
    BY <2>1, <2>2
  <2>5. Promise!NewKeys(<<b>>, <<k>>) /\ Range(<<b>>) \subseteq Blocks \ DOMAIN OwnedKeys
    BY <2>3, <2>4, KeysGrow
  <2>6. Promise!Fresh(<<b>>)
    BY <2>2, <2>5 DEF Promise!Fresh
  <2>7. UNCHANGED <<Contents, array, Task>> /\ Status = "idle" /\ Status' = "idle"
    BY <2>3, Idle, ContentsSame
  <2>8. Promise!ListPush(b, k)
    BY <1>1, <2>5, <2>6, <2>7 DEF Promise!ListPush
  <2> QED
    BY <2>1, <2>3, <2>7, <2>8, AsCall DEF Promise!Call
<1>2. CASE lost' = lost \cup {b} /\ UNCHANGED list
  BY <1>2, LeakRefines DEF ListPush
<1> QED
  BY <1>1, <1>2 DEF ListPush

LEMMA ListPopRefines ==
    ASSUME IInv, ListPop
    PROVE  Refines
<1>1. /\ Calm /\ list # <<>> /\ heap' = Without({Head(list)}) /\ list' = Tail(list) /\ HeapTyped
      /\ UNCHANGED <<vec, array, lost, job, fate, setting>>
  BY DEF ListPop, IInv
<1>2. Promise!End({Head(list)})
  BY <1>1, KeysEnd
<1>3. UNCHANGED <<Contents, array, Task>> /\ Status = "idle" /\ Status' = "idle"
  BY <1>1, Idle, ContentsSame
<1>4. Promise!ListPop
  BY <1>1, <1>2, <1>3 DEF Promise!ListPop
<1> QED
  BY <1>1, <1>3, <1>4, AsCall DEF Promise!Call

LEMMA DeleteArrayRefines ==
    ASSUME IInv, DeleteArray
    PROVE  Refines
<1>1. /\ Calm /\ heap' = Without(BlocksOf(array)) /\ array' = <<>> /\ HeapTyped
      /\ UNCHANGED <<vec, list, lost, job, fate, setting>>
  BY DEF DeleteArray, IInv
<1>2. Promise!End(Promise!Values(array))
  <2>1. BlocksOf(array) = Promise!Values(array)
    BY DEF BlocksOf, Range, Promise!Values, Promise!Range
  <2> QED
    BY <1>1, <2>1, KeysEnd
<1>3. UNCHANGED <<Contents, list, Task>> /\ Status = "idle" /\ Status' = "idle"
  BY <1>1, Idle, ContentsSame
<1>4. Promise!DeleteArray
  BY <1>1, <1>2, <1>3 DEF Promise!DeleteArray
<1> QED
  BY <1>1, <1>3, <1>4, AsCall DEF Promise!Call

\* The array gets copies of some values of a seat, and NULL for the others.
LEMMA ArrayRefines ==
    ASSUME IInv, Calm, array = <<>>, NEW c \in Seats, NEW s, s = Seated[c], s \in Seq(Place),
           NEW copied \in SUBSET DOMAIN s, Cardinality(copied) <= Cardinality(Free),
           \A i \in copied : s[i] # Null,
           array' = [i \in DOMAIN s |-> IF i \in copied THEN Fresh(copied)[i] ELSE Null],
           heap' = With(Fresh(copied), KeysOf(s)),
           UNCHANGED <<vec, list, lost, job, fate, setting>>
    PROVE  Promise!ArrayOf(s)
<1> DEFINE ids == Fresh(copied)
           t == [i \in DOMAIN s |-> IF i \in copied THEN ids[i] ELSE Null]
           ks == KeysOf(s)
<1>1. HeapTyped /\ Sole(Seated, InUse)
  BY DEF IInv
<1>2. Len(s) \in Nat /\ DOMAIN s = 1..Len(s)
  OBVIOUS
<1>3. ids \in [copied -> Free] /\ \A i, j \in copied : ids[i] = ids[j] => i = j
  <2>1. IsFiniteSet(copied)
    <3>1. IsFiniteSet(DOMAIN s)
      BY <1>2, FS_Interval
    <3> QED
      BY <3>1, FS_Subset
  <2> QED
    BY <2>1, FreshAreNew
<1>4. Range(ids) \subseteq Free /\ DOMAIN ids = copied /\ Free \subseteq Blocks
  BY <1>3 DEF Range, Free
<1>5. t \in Seq(Place) /\ Len(t) = Len(s) /\ DOMAIN t = DOMAIN s
  BY <1>2, <1>3, <1>4 DEF Place
<1>6. array' = t /\ heap' = With(ids, ks) /\ lost' = lost
  OBVIOUS
<1>7. \A i, j \in DOMAIN s : t[i] = t[j] /\ t[i] # Null => i = j
  BY <1>3
<1>8. Null \notin Range(ids)
  BY <1>4, VectorAssumption
<1>9. Promise!Values(t) = Range(ids)
  <2>1. ASSUME NEW b \in Range(ids) PROVE b \in Promise!Values(t)
    <3>1. PICK i \in copied : ids[i] = b
      BY <1>4, <2>1 DEF Range
    <3>2. i \in DOMAIN t /\ t[i] = b /\ b # Null
      BY <1>8, <2>1, <3>1
    <3> QED
      BY <3>2 DEF Promise!Values, Promise!Range
  <2>2. ASSUME NEW b \in Promise!Values(t) PROVE b \in Range(ids)
    <3>1. PICK i \in DOMAIN t : t[i] = b /\ b # Null
      BY <2>2 DEF Promise!Values, Promise!Range
    <3>2. i \in copied /\ ids[i] = b
      BY <3>1
    <3> QED
      BY <1>4, <3>2 DEF Range
  <2> QED
    BY <2>1, <2>2
<1>10. \A i \in DOMAIN s : t[i] # Null => i \in copied /\ t[i] = ids[i]
  OBVIOUS
<1>11. \A i \in copied : ks[i] = OwnedKeys[s[i]]
  <2>1. \A i \in DOMAIN s : s[i] \in InUse \cup {Null}
    BY <1>1 DEF Sole, Held
  <2>2. \A i \in copied : heap[s[i]] = OwnedKeys[s[i]]
    BY <2>1, KeysAre
  <2> QED
    BY <2>2 DEF KeysOf
<1> HIDE DEF t, ids, ks
<1>12. /\ Range(ids) \subseteq Blocks \ DOMAIN OwnedKeys
       /\ \A b \in DOMAIN OwnedKeys : b \in DOMAIN OwnedKeys' /\ OwnedKeys'[b] = OwnedKeys[b]
       /\ DOMAIN OwnedKeys' = DOMAIN OwnedKeys \cup Range(ids)
       /\ \A i \in copied : OwnedKeys'[ids[i]] = ks[i]
  <2>1. \A i, j \in DOMAIN ids : ids[i] = ids[j] => i = j
    BY <1>3, <1>4
  <2>2. Range(ids) \subseteq Free
    BY <1>4
  <2>3. /\ Range(ids) \subseteq Blocks \ DOMAIN OwnedKeys
        /\ \A b \in DOMAIN OwnedKeys : b \in DOMAIN OwnedKeys' /\ OwnedKeys'[b] = OwnedKeys[b]
        /\ DOMAIN OwnedKeys' = DOMAIN OwnedKeys \cup Range(ids)
    BY <1>1, <1>6, <2>2, KeysGrow
  <2>4. \A i \in DOMAIN ids : OwnedKeys'[ids[i]] = ks[i]
    BY <1>1, <1>6, <2>1, <2>2, KeyGrows
  <2> QED
    BY <1>4, <2>1, <2>3, <2>4
<1>13. ASSUME NEW i \in DOMAIN s, t[i] # Null PROVE OwnedKeys'[t[i]] = OwnedKeys[s[i]]
  <2>1. i \in copied /\ t[i] = ids[i]
    BY <1>10, <1>13
  <2> QED
    BY <1>11, <1>12, <2>1
<1>14. UNCHANGED <<Contents, list, Task>>
  BY Idle, ContentsSame
<1>15. /\ Len(array') = Len(s) /\ Promise!Values(array') = Range(ids)
       /\ \A i, j \in DOMAIN s : array'[i] = array'[j] /\ array'[i] # Null => i = j
  BY <1>5, <1>6, <1>7, <1>9
<1>16. \A i \in DOMAIN s : array'[i] # Null => OwnedKeys'[array'[i]] = OwnedKeys[s[i]]
  BY <1>6, <1>13
<1>17. /\ Promise!Values(array') \subseteq Blocks \ DOMAIN OwnedKeys
       /\ DOMAIN OwnedKeys' = DOMAIN OwnedKeys \cup Promise!Values(array')
       /\ \A b \in DOMAIN OwnedKeys : OwnedKeys'[b] = OwnedKeys[b]
  BY <1>12, <1>15
<1> QED
  BY <1>14, <1>15, <1>16, <1>17, ZenonT(40) DEF Promise!ArrayOf

LEMMA ListArrayRefines ==
    ASSUME IInv, ListArray
    PROVE  Refines
<1>1. PICK copied \in SUBSET DOMAIN list :
        /\ Cardinality(copied) <= Cardinality(Free)
        /\ array' = [i \in DOMAIN list |-> IF i \in copied THEN Fresh(copied)[i] ELSE Null]
        /\ heap' = With(Fresh(copied), KeysOf(list))
  BY DEF ListArray
<1>2. list = Seated["list"] /\ "list" \in Seats /\ list \in Seq(Place)
      /\ \A i \in copied : list[i] # Null
  BY SeatedIs, VectorAssumption DEF IInv, PlacesTyped, Place
<1>3. Calm /\ array = <<>> /\ UNCHANGED <<vec, list, lost, job, fate, setting>>
  BY DEF ListArray
<1>4. Promise!ArrayOf(list)
  BY <1>1, <1>2, <1>3, ArrayRefines
<1> QED
  BY <1>3, <1>4, Idle, AsCall DEF Promise!Call

LEMMA VectorArrayRefines ==
    ASSUME IInv, NEW v \in Vectors, VectorArray(v)
    PROVE  Refines
<1> DEFINE s == Items(v)
           copied == DOMAIN s
<1>1. CASE Become("undefined")
  BY <1>1, AsHalt DEF VectorArray, Calm
<1>2. CASE ~Become("undefined")
  <2>1. /\ Calm /\ Alive(v) /\ array = <<>> /\ ~HasHole(s) /\ Len(s) <= Cardinality(Free)
        /\ array' = Fresh(copied) /\ heap' = With(Fresh(copied), KeysOf(s))
        /\ UNCHANGED <<vec, list, lost, job, fate, setting>>
    BY <1>2, SMTT(40) DEF VectorArray
  <2>2. s \in Seq(Place) /\ Len(s) \in Nat /\ copied = 1..Len(s)
    BY <2>1, AliveIs DEF IInv
  <2>3. s = Seated[v] /\ v \in Seats
    BY <2>1, SeatedIs
  <2>4. \A i \in copied : s[i] # Null
    BY <2>1 DEF HasHole, Range
  <2>5. IsFiniteSet(copied) /\ Cardinality(copied) = Len(s)
    BY <2>2, FS_Interval
  <2>6. Fresh(copied) \in [copied -> Free]
    BY <2>1, <2>5, FreshAreNew
  <2>7. array' = [i \in DOMAIN s |-> IF i \in copied THEN Fresh(copied)[i] ELSE Null]
    BY <2>1, <2>6
  <2>8. copied \in SUBSET DOMAIN s /\ Cardinality(copied) <= Cardinality(Free)
    BY <2>1, <2>5
  <2>9. Promise!Exists(v) /\ Contents[v] = s
    BY <2>1, Exists DEF IInv
  <2>10. Null \notin Promise!Range(Contents[v])
    BY <2>1, <2>9 DEF HasHole, Range, Promise!Range
  <2> HIDE DEF copied, s
  <2>11. Promise!ArrayOf(s)
    BY <2>1, <2>2, <2>3, <2>4, <2>7, <2>8, ArrayRefines
  <2>12. Status = "idle" /\ Status' = "idle"
    BY <2>1, Idle
  <2>13. Promise!Call
    BY <2>9, <2>10, <2>11, <2>12 DEF Promise!Call
  <2> QED
    BY <2>1, <2>13, AsCall
<1> QED
  BY <1>1, <1>2

-----------------------------------------------------------------------------
(* The sort: what holds of the places s between two comparisons.  val is     *)
(* what is compared, lowest first, and was where each value stood at first.  *)

Progress(s, size, i, swapped) ==
    /\ size \in Nat /\ size <= Len(s) /\ (size = 0 => Len(s) = 0)
    /\ i \in Nat \ {0} /\ (i = 1 \/ i <= size)
    /\ swapped \in BOOLEAN /\ (swapped => i > 1)

\* No NULL among the values compared: a pass would have read it.
Scanned(s, size, i) ==
    \A q \in 1..Len(s) : (i > 1 /\ q <= i) \/ size < Len(s) => s[q] # Null

EqualKept(s, val, was) ==
    \A q, r \in 1..Len(s) :
        q < r /\ s[q] # Null /\ s[r] # Null /\ val[s[q]] = val[s[r]] => was[s[q]] < was[s[r]]

\* The passes that ended put the biggest values last; this one carries the
\* biggest it met.
LastOnes(s, val, size) ==
    \A q, r \in 1..Len(s) : q < r /\ r > size => val[s[q]] <= val[s[r]]

Carried(s, val, i) == \A q \in 1..Len(s) : q < i => val[s[q]] <= val[s[i]]

\* A pass that swapped nothing met values in order.
InOrder(s, val, i, swapped) ==
    ~swapped => \A q, r \in 1..Len(s) : q < r /\ r <= i => val[s[q]] <= val[s[r]]

Partly(s, val, was, size, i, swapped) ==
    /\ Progress(s, size, i, swapped) /\ Scanned(s, size, i) /\ EqualKept(s, val, was)
    /\ LastOnes(s, val, size) /\ Carried(s, val, i) /\ InOrder(s, val, i, swapped)

\* It holds when the sort starts, ...
LEMMA PartlyStarted ==
    ASSUME NEW s \in Seq(Place), NEW val, NEW was,
           \A q \in 1..Len(s) : s[q] # Null => was[s[q]] = q
    PROVE  Partly(s, val, was, Len(s), 1, FALSE)
<1>1. Len(s) \in Nat
  OBVIOUS
<1>2. EqualKept(s, val, was)
  BY <1>1 DEF EqualKept
<1>3. /\ Progress(s, Len(s), 1, FALSE) /\ Scanned(s, Len(s), 1) /\ LastOnes(s, val, Len(s))
      /\ Carried(s, val, 1) /\ InOrder(s, val, 1, FALSE)
  BY <1>1 DEF Progress, Scanned, LastOnes, Carried, InOrder
<1> QED
  BY <1>2, <1>3 DEF Partly

\* ... after a comparison that swaps nothing, ...
LEMMA PartlyAdvanced ==
    ASSUME NEW s \in Seq(Place), NEW val \in [Place -> Int], NEW was, NEW size, NEW i,
           NEW swapped, Partly(s, val, was, size, i, swapped), i < size,
           s[i] # Null, s[i + 1] # Null, val[s[i]] <= val[s[i + 1]]
    PROVE  Partly(s, val, was, size, i + 1, swapped)
<1>1. /\ Len(s) \in Nat /\ \A q \in 1..Len(s) : s[q] \in Place /\ val[s[q]] \in Int
  OBVIOUS
<1>2. /\ Progress(s, size, i, swapped) /\ Scanned(s, size, i) /\ EqualKept(s, val, was)
      /\ LastOnes(s, val, size) /\ Carried(s, val, i) /\ InOrder(s, val, i, swapped)
  BY DEF Partly
<1>3. size \in Nat /\ size <= Len(s) /\ i \in Nat /\ i \in 1..Len(s) /\ i + 1 \in 1..Len(s)
  BY <1>1, <1>2 DEF Progress
<1>4. Progress(s, size, i + 1, swapped)
  BY <1>2, <1>3 DEF Progress
<1>5. Scanned(s, size, i + 1)
  BY <1>2, <1>3 DEF Scanned
<1>6. Carried(s, val, i + 1)
  BY <1>1, <1>2, <1>3 DEF Carried
<1>7. InOrder(s, val, i + 1, swapped)
  BY <1>2, <1>3, <1>6 DEF InOrder, Carried
<1> QED
  BY <1>2, <1>4, <1>5, <1>6, <1>7 DEF Partly

\* ... after one that swaps, ...
LEMMA PartlySwapped ==
    ASSUME NEW s \in Seq(Place), NEW val \in [Place -> Int], NEW was, NEW size, NEW i,
           NEW swapped, Partly(s, val, was, size, i, swapped), i < size,
           s[i] # Null, s[i + 1] # Null, ~(val[s[i]] <= val[s[i + 1]])
    PROVE  Partly(Swapped(s, i, i + 1), val, was, size, i + 1, TRUE)
<1> DEFINE t == Swapped(s, i, i + 1)
           n == Len(s)
           p(q) == IF q = i THEN i + 1 ELSE IF q = i + 1 THEN i ELSE q
<1>1. /\ n \in Nat /\ DOMAIN s = 1..n /\ \A q \in 1..n : s[q] \in Place /\ val[s[q]] \in Int
  OBVIOUS
<1>2. /\ Progress(s, size, i, swapped) /\ Scanned(s, size, i) /\ EqualKept(s, val, was)
      /\ LastOnes(s, val, size) /\ Carried(s, val, i)
  BY DEF Partly
<1>3. size \in Nat /\ size <= n /\ i \in Nat /\ i \in 1..n /\ i + 1 \in 1..n
  BY <1>1, <1>2 DEF Progress
<1>4. t \in Seq(Place) /\ Len(t) = n /\ \A q \in 1..n : p(q) \in 1..n /\ t[q] = s[p(q)]
  <2>1. t \in Seq(Place) /\ Len(t) = n /\ DOMAIN t = 1..n
    BY <1>1, <1>3 DEF Swapped
  <2>2. \A q \in 1..n : p(q) \in 1..n
    BY <1>3
  <2>3. \A q \in 1..n : t[q] = s[p(q)]
    BY <1>1, <1>3 DEF Swapped
  <2> QED
    BY <2>1, <2>2, <2>3
<1>5. \A q, r \in 1..n : q < r => p(q) < p(r) \/ (q = i /\ r = i + 1)
  <2> SUFFICES ASSUME NEW q \in 1..n, NEW r \in 1..n, q < r, ~(q = i /\ r = i + 1)
               PROVE  p(q) < p(r)
    OBVIOUS
  <2>1. q \in Nat /\ r \in Nat
    OBVIOUS
  <2>2. CASE q = i
    BY <1>3, <2>1, <2>2
  <2>3. CASE q = i + 1
    BY <1>3, <2>1, <2>3
  <2>4. CASE q # i /\ q # i + 1
    BY <1>3, <2>1, <2>4
  <2> QED
    BY <2>2, <2>3, <2>4
<1>6. /\ t[i] = s[i + 1] /\ t[i + 1] = s[i]
      /\ \A q \in 1..n : q \notin {i, i + 1} => t[q] = s[q]
  BY <1>3, <1>4
<1>7. /\ val[t[i]] < val[t[i + 1]] /\ val[t[i]] \in Int /\ val[t[i + 1]] \in Int
  BY <1>1, <1>3, <1>6
<1> HIDE DEF t, n
<1>8. Progress(t, size, i + 1, TRUE)
  BY <1>2, <1>3, <1>4 DEF Progress, n
<1>9. Scanned(t, size, i + 1)
  <2> SUFFICES ASSUME NEW q \in 1..n, q <= i + 1 \/ size < n PROVE t[q] # Null
    BY <1>4 DEF Scanned
  <2>1. CASE q \in {i, i + 1}
    BY <1>6, <2>1
  <2>2. CASE q \notin {i, i + 1}
    <3>1. (i > 1 /\ q <= i) \/ size < n
      BY <1>3, <2>2
    <3>2. s[q] # Null
      BY <1>2, <3>1 DEF Scanned, n
    <3> QED
      BY <1>6, <2>2, <3>2
  <2> QED
    BY <2>1, <2>2
<1>10. EqualKept(t, val, was)
  <2> SUFFICES ASSUME NEW q \in 1..n, NEW r \in 1..n, q < r, t[q] # Null, t[r] # Null,
                      val[t[q]] = val[t[r]]
               PROVE  was[t[q]] < was[t[r]]
    BY <1>4 DEF EqualKept
  <2>1. ~(q = i /\ r = i + 1)
    BY <1>7
  <2>2. PICK x \in 1..n, y \in 1..n : x < y /\ t[q] = s[x] /\ t[r] = s[y]
    <3>1. p(q) < p(r) /\ p(q) \in 1..n /\ p(r) \in 1..n /\ t[q] = s[p(q)] /\ t[r] = s[p(r)]
      BY <1>4, <1>5, <2>1
    <3> HIDE DEF p
    <3> QED
      BY <3>1
  <2>3. \A a, b \in 1..n :
          a < b /\ s[a] # Null /\ s[b] # Null /\ val[s[a]] = val[s[b]] => was[s[a]] < was[s[b]]
    BY <1>2 DEF EqualKept, n
  <2> QED
    BY <2>2, <2>3
<1>11. LastOnes(t, val, size)
  <2> SUFFICES ASSUME NEW q \in 1..n, NEW r \in 1..n, q < r, r > size
               PROVE  val[t[q]] <= val[t[r]]
    BY <1>4 DEF LastOnes
  <2>1. p(r) = r /\ p(q) < r
    BY <1>3
  <2>2. p(q) \in 1..n /\ t[q] = s[p(q)] /\ t[r] = s[r]
    BY <1>4, <2>1
  <2> HIDE DEF p
  <2> QED
    BY <1>2, <2>1, <2>2 DEF LastOnes, n
<1>12. Carried(t, val, i + 1)
  <2> SUFFICES ASSUME NEW q \in 1..n, q < i + 1 PROVE val[t[q]] <= val[t[i + 1]]
    BY <1>4 DEF Carried
  <2>1. CASE q = i
    BY <1>7, <2>1
  <2>2. CASE q # i
    BY <1>2, <1>3, <1>6, <2>2 DEF Carried, n
  <2> QED
    BY <2>1, <2>2
<1>13. InOrder(t, val, i + 1, TRUE)
  BY DEF InOrder
<1> QED
  BY <1>8, <1>9, <1>10, <1>11, <1>12, <1>13 DEF Partly, t

\* ... and when another pass begins: size is not 0 then, and does not wrap.
LEMMA PartlyNextPass ==
    ASSUME NEW s \in Seq(Place), NEW val \in [Place -> Int], NEW was, NEW size, NEW i,
           Partly(s, val, was, size, i, TRUE), i >= size
    PROVE  size # 0 /\ Partly(s, val, was, size - 1, 1, FALSE)
<1>1. Len(s) \in Nat
  OBVIOUS
<1>2. /\ Progress(s, size, i, TRUE) /\ Scanned(s, size, i) /\ EqualKept(s, val, was)
      /\ LastOnes(s, val, size) /\ Carried(s, val, i)
  BY DEF Partly
<1>3. size \in Nat /\ i = size /\ size > 1 /\ size <= Len(s)
  BY <1>1, <1>2 DEF Progress
<1>4. Progress(s, size - 1, 1, FALSE)
  BY <1>1, <1>3 DEF Progress
<1>5. Scanned(s, size - 1, 1)
  BY <1>1, <1>2, <1>3 DEF Scanned
<1>6. LastOnes(s, val, size - 1)
  BY <1>1, <1>2, <1>3 DEF LastOnes, Carried
<1>7. Carried(s, val, 1) /\ InOrder(s, val, 1, FALSE)
  BY <1>1 DEF Carried, InOrder
<1>8. size # 0
  BY <1>3
<1> QED
  BY <1>2, <1>4, <1>5, <1>6, <1>7, <1>8 DEF Partly

\* A pass that swapped nothing was the last.
LEMMA PartlyDone ==
    ASSUME NEW s \in Seq(Place), NEW val \in [Place -> Int], NEW was, NEW size, NEW i,
           Partly(s, val, was, size, i, FALSE), i >= size, Len(s) >= 2
    PROVE  \A q, r \in 1..Len(s) : q < r =>
             /\ s[q] # Null /\ s[r] # Null /\ val[s[q]] <= val[s[r]]
             /\ val[s[q]] = val[s[r]] => was[s[q]] < was[s[r]]
<1>1. Len(s) \in Nat
  OBVIOUS
<1>2. /\ Progress(s, size, i, FALSE) /\ Scanned(s, size, i) /\ EqualKept(s, val, was)
      /\ LastOnes(s, val, size) /\ InOrder(s, val, i, FALSE)
  BY DEF Partly
<1>3. size \in Nat /\ i \in Nat /\ size <= Len(s)
  BY <1>1, <1>2 DEF Progress
<1>4. \A q \in 1..Len(s) : s[q] # Null
  BY <1>1, <1>2, <1>3 DEF Scanned
<1>5. \A q, r \in 1..Len(s) : q < r => val[s[q]] <= val[s[r]]
  BY <1>1, <1>2, <1>3 DEF LastOnes, InOrder
<1> QED
  BY <1>2, <1>4, <1>5 DEF EqualKept

\* What is compared, lowest first, and where each value stood at first.
Weights ==
    [b \in Place |-> IF b \notin InUse THEN 0
                     ELSE IF job.order = "bigger" THEN heap[b] ELSE 0 - heap[b]]
Ranks == [b \in Place |-> Promise!At(job.before, b)]

\* What a sort that runs has done so far.
SortInv ==
    job # NoJob =>
        /\ Len(Items(job.v)) = Len(job.before) /\ Range(Items(job.v)) = Range(job.before)
        /\ Partly(Items(job.v), Weights, Ranks, job.size, job.i, job.swapped)

-----------------------------------------------------------------------------
(* The steps of a sort *)

LEMMA WeightsTyped == HeapTyped => Weights \in [Place -> Int]
<1> SUFFICES ASSUME HeapTyped PROVE Weights \in [Place -> Int]
  OBVIOUS
<1>1. \A b \in InUse : heap[b] \in Nat
  BY VectorAssumption DEF HeapTyped, InUse
<1> QED
  BY <1>1 DEF Weights

\* One order of weights stands for both comparaters.
LEMMA WeightsCompare ==
    ASSUME HeapTyped, NEW a \in InUse, NEW b \in InUse
    PROVE  /\ OutOfOrder(a, b) <=> ~(Weights[a] <= Weights[b])
           /\ heap[a] = heap[b] <=> Weights[a] = Weights[b]
<1>1. heap[a] \in Nat /\ heap[b] \in Nat /\ a \in Place /\ b \in Place
  BY VectorAssumption DEF HeapTyped, InUse, Place
<1>2. CASE job.order = "bigger"
  BY <1>1, <1>2 DEF Weights, OutOfOrder, After
<1>3. CASE job.order # "bigger"
  BY <1>1, <1>3 DEF Weights, OutOfOrder, After
<1> QED
  BY <1>2, <1>3

LEMMA SwappedRange ==
    ASSUME NEW D, NEW s \in Seq(D), NEW x \in DOMAIN s, NEW y \in DOMAIN s
    PROVE  Range(Swapped(s, x, y)) = Range(s) /\ Len(Swapped(s, x, y)) = Len(s)
<1> DEFINE t == Swapped(s, x, y)
           p(i) == IF i = x THEN y ELSE IF i = y THEN x ELSE i
<1>1. Len(t) = Len(s) /\ DOMAIN t = DOMAIN s
  BY DEF Swapped
<1>2. \A i \in DOMAIN s : p(i) \in DOMAIN s /\ p(p(i)) = i /\ t[i] = s[p(i)]
  BY DEF Swapped
<1> HIDE DEF p, t
<1>3. \A i \in DOMAIN s : t[p(i)] = s[i]
  BY <1>2
<1>4. Range(t) = Range(s)
  BY <1>1, <1>2, <1>3 DEF Range
<1> QED
  BY <1>1, <1>4 DEF t

\* The places of one vector hold values in use, none twice.
LEMMA SeatOf ==
    ASSUME IInv, NEW v \in Vectors, Alive(v)
    PROVE  /\ \A i \in DOMAIN Items(v) : Items(v)[i] # Null => Items(v)[i] \in InUse
           /\ \A i, j \in DOMAIN Items(v) :
                Items(v)[i] = Items(v)[j] /\ Items(v)[i] # Null => i = j
<1>1. Seated[v] = Items(v) /\ v \in Seats
  BY SeatedIs
<1>2. Held(Seated, InUse) /\ Once(Seated)
  BY DEF IInv, Sole
<1> QED
  BY <1>1, <1>2 DEF Held, Once

\* The sort starts, and the promise sees it.
LEMMA SortStarts ==
    ASSUME IInv, NEW v \in Vectors, NEW order \in {"bigger", "smaller"}, StartSort(v, order)
    PROVE  SortInv' /\ Refines
<1> DEFINE s == Items(v)
<1>1. /\ Calm /\ Alive(v) /\ UNCHANGED <<vec, list, array, heap, lost, fate>>
      /\ job' = [v |-> v, order |-> order, size |-> Len(s), i |-> 1, swapped |-> FALSE,
                 before |-> s]
  BY DEF StartSort
<1>2. s \in Seq(Place) /\ Len(s) \in Nat /\ DOMAIN s = 1..Len(s)
  BY <1>1, AliveIs DEF IInv
<1>3. /\ job'.v = v /\ job'.order = order /\ job'.size = Len(s) /\ job'.i = 1
      /\ job'.swapped = FALSE /\ job'.before = s /\ Items(job.v)' = s /\ Alive(v)'
  BY <1>1 DEF Items, Alive
<1>4. job' # NoJob
  <2>1. job' \in Job
    BY <1>1, <1>2 DEF Job
  <2> QED
    BY <2>1, VectorAssumption
<1>5. \A q \in 1..Len(s) : s[q] # Null => Ranks'[s[q]] = q
  <2> SUFFICES ASSUME NEW q \in 1..Len(s), s[q] # Null PROVE Ranks'[s[q]] = q
    OBVIOUS
  <2>1. s[q] \in Place /\ q \in DOMAIN s
    BY <1>2
  <2>2. \A j \in DOMAIN s : s[j] = s[q] => j = q
    BY <1>1, <2>1, SeatOf
  <2>3. Promise!At(s, s[q]) = q
    BY <2>1, <2>2 DEF Promise!At
  <2> QED
    BY <1>3, <2>1, <2>3 DEF Ranks
<1>6. SortInv'
  <2>1. Partly(s, Weights', Ranks', Len(s), 1, FALSE)
    <3> HIDE DEF s
    <3> QED
      BY <1>2, <1>5, PartlyStarted
  <2> QED
    BY <1>3, <2>1 DEF SortInv
<1>7. Refines
  <2>1. Promise!Exists(v)
    BY <1>1, Exists DEF IInv
  <2>2. UNCHANGED <<list, array, OwnedKeys>>
    BY <1>1, KeysSame
  <2>3. Contents' = Contents
    <3>1. job = NoJob
      BY <1>1 DEF Calm
    <3> HIDE DEF s
    <3> QED
      BY <1>1, <1>3, <1>4, <3>1 DEF Contents, Seen, Alive, Items, s
  <2>4. Status = "idle" /\ Status' = "sorting"
    BY <1>1, <1>4 DEF Calm, Status
  <2>5. Task' \in [v: {v}, order: {"bigger", "smaller"}]
    BY <1>3, <1>4 DEF Task
  <2>6. Promise!StartSort(v)
    BY <2>1, <2>2, <2>3, <2>4, <2>5 DEF Promise!StartSort
  <2> QED
    BY <2>4, <2>6 DEF Refines, Promise!Next
<1> QED
  BY <1>6, <1>7

\* While the sort goes on, what it compares is what it was.
LEMMA SortGoesOn ==
    ASSUME UNCHANGED <<heap, lost>>, job'.order = job.order, job'.before = job.before
    PROVE  Weights' = Weights /\ Ranks' = Ranks
  BY DEF Weights, Ranks, InUse

\* A comparison is not seen.
LEMMA CompareUnseen ==
    ASSUME IInv, IInv', job # NoJob, job' # NoJob, job'.v = job.v, job'.order = job.order,
           job'.before = job.before, UNCHANGED <<list, array, heap, lost, fate>>,
           \A w \in Vectors : w # job.v => vec'[w] = vec[w]
    PROVE  Refines
<1>1. Alive(job.v) /\ vec'[job.v] \notin {Absent, Garbage}
  BY DEF IInv, JobTyped, Alive
<1>2. Contents' = Contents
  BY <1>1 DEF Contents, Seen, Alive, Items
<1> QED
  BY <1>2, KeysSame DEF Refines, View, Task, Status

LEMMA CompareSorts ==
    ASSUME IInv, IInv', SortInv, Compare
    PROVE  SortInv' /\ Refines
<1> DEFINE v == job.v
           s == Items(v)
           i == job.i
<1>1. /\ job \in Job /\ v \in Vectors /\ i \in Nat \ {0} /\ Alive(v) /\ VecTyped /\ HeapTyped
      /\ job # NoJob /\ i < job.size
  BY DEF Compare, IInv, JobTyped, Job
<1>2. s \in Seq(Place) /\ Len(s) \in Nat /\ DOMAIN s = 1..Len(s)
  BY <1>1, AliveIs
<1>3. CASE i + 1 > Len(s) \/ Null \in {s[i], s[i + 1]}
  <2>1. Become("undefined")
    BY <1>3 DEF Compare
  <2>2. Refines
    BY <2>1, AsHalt DEF Compare
  <2>3. SortInv'
    <3>1. UNCHANGED <<vec, heap, lost, job>>
      BY <2>1 DEF Become
    <3>2. Weights' = Weights /\ Ranks' = Ranks /\ Items(job.v)' = Items(job.v)
      BY <3>1, SortGoesOn DEF Items
    <3> QED
      BY <3>1, <3>2 DEF SortInv
  <2> QED
    BY <2>2, <2>3
<1>4. CASE ~(i + 1 > Len(s) \/ Null \in {s[i], s[i + 1]})
  <2>1. i \in DOMAIN s /\ i + 1 \in DOMAIN s /\ s[i] # Null /\ s[i + 1] # Null
    BY <1>1, <1>2, <1>4
  <2>2. UNCHANGED <<list, array, heap, lost, fate>>
    BY <1>4 DEF Compare
  <2>3. s[i] \in InUse /\ s[i + 1] \in InUse
    BY <1>1, <2>1, SeatOf
  <2>4. /\ Partly(s, Weights, Ranks, job.size, i, job.swapped)
        /\ Len(s) = Len(job.before) /\ Range(s) = Range(job.before)
    BY <1>1 DEF SortInv
  <2>5. Weights \in [Place -> Int]
    BY <1>1, WeightsTyped
  <2>6. CASE OutOfOrder(s[i], s[i + 1])
    <3>1. /\ SetVector(v, Swapped(s, i, i + 1), vec[v].capacity)
          /\ job' = [job EXCEPT !.i = i + 1, !.swapped = TRUE]
      BY <1>4, <2>6 DEF Compare
    <3>2. /\ job'.v = v /\ job'.order = job.order /\ job'.before = job.before
          /\ job'.size = job.size /\ job'.i = i + 1 /\ job'.swapped = TRUE
      BY <1>1, <3>1 DEF Job
    <3>3. job' # NoJob
      <4>1. i + 1 \in Nat \ {0}
        BY <1>1
      <4>2. job \in Job /\ i = job.i
        BY <1>1
      <4> HIDE DEF i
      <4>3. [job EXCEPT !.i = i + 1, !.swapped = TRUE] \in Job
        BY <4>1, <4>2, SwapChanges, ZenonT(60)
      <4> QED
        BY <3>1, <4>3, VectorAssumption
    <3>4. /\ Items(v)' = Swapped(s, i, i + 1)
          /\ \A w \in Vectors : w # v => vec'[w] = vec[w]
      BY <1>1, <3>1 DEF VecTyped, SetVector, Items
    <3>5. ~(Weights[s[i]] <= Weights[s[i + 1]])
      BY <1>1, <2>3, <2>6, WeightsCompare
    <3> HIDE DEF s, i, v
    <3>6. Refines
      BY <1>1, <2>2, <3>2, <3>3, <3>4, CompareUnseen DEF v
    <3>7. Partly(Swapped(s, i, i + 1), Weights, Ranks, job.size, i + 1, TRUE)
      BY <1>1, <1>2, <2>1, <2>4, <2>5, <3>5, PartlySwapped
    <3>8. /\ Range(Swapped(s, i, i + 1)) = Range(s) /\ Len(Swapped(s, i, i + 1)) = Len(s)
      BY <1>2, <2>1, SwappedRange
    <3>9. Weights' = Weights /\ Ranks' = Ranks
      BY <2>2, <3>2, SortGoesOn
    <3>10. Items(job.v)' = Swapped(s, i, i + 1)
      BY <3>4 DEF v
    <3>11. SortInv'
      BY <2>4, <3>2, <3>7, <3>8, <3>9, <3>10 DEF SortInv
    <3> QED
      BY <3>6, <3>11
  <2>7. CASE ~OutOfOrder(s[i], s[i + 1])
    <3>1. job' = [job EXCEPT !.i = i + 1] /\ UNCHANGED vec
      BY <1>4, <2>7 DEF Compare
    <3>2. /\ job'.v = v /\ job'.order = job.order /\ job'.before = job.before
          /\ job'.size = job.size /\ job'.i = i + 1 /\ job'.swapped = job.swapped
      BY <1>1, <3>1 DEF Job
    <3>3. job' # NoJob
      <4>1. job' \in Job
        BY <1>1, <3>1 DEF Job
      <4> QED
        BY <4>1, VectorAssumption
    <3>4. Weights[s[i]] <= Weights[s[i + 1]]
      BY <1>1, <2>3, <2>7, WeightsCompare
    <3>5. Items(job.v)' = s
      BY <3>1, <3>2 DEF Items
    <3> HIDE DEF s, i, v
    <3>6. Refines
      BY <1>1, <2>2, <3>1, <3>2, <3>3, CompareUnseen DEF v
    <3>7. Partly(s, Weights, Ranks, job.size, i + 1, job.swapped)
      BY <1>1, <1>2, <2>1, <2>4, <2>5, <3>4, PartlyAdvanced
    <3>8. Weights' = Weights /\ Ranks' = Ranks
      BY <2>2, <3>2, SortGoesOn
    <3>9. SortInv'
      BY <2>4, <3>2, <3>5, <3>7, <3>8 DEF SortInv
    <3> QED
      BY <3>6, <3>9
  <2> QED
    BY <2>6, <2>7
<1> QED
  BY <1>3, <1>4

\* Nothing moves in a sequence of one value.
LEMMA ShortSequence ==
    ASSUME NEW D, NEW s \in Seq(D), NEW t \in Seq(D), Len(s) = Len(t), Range(s) = Range(t),
           Len(s) < 2
    PROVE  s = t
<1>1. /\ DOMAIN s = 1..Len(s) /\ DOMAIN t = 1..Len(s) /\ Len(s) \in Nat
      /\ s = [q \in 1..Len(s) |-> s[q]] /\ t = [q \in 1..Len(s) |-> t[q]]
  OBVIOUS
<1>2. \A q \in 1..Len(s) : q = 1
  BY <1>1
<1>3. \A q \in 1..Len(s) : s[q] = t[q]
  <2> SUFFICES ASSUME NEW q \in 1..Len(s) PROVE s[q] = t[q]
    OBVIOUS
  <2>1. q \in DOMAIN s /\ q \in DOMAIN t
    BY <1>1
  <2>2. s[q] \in Range(t)
    BY <2>1 DEF Range
  <2>3. PICK r \in DOMAIN t : t[r] = s[q]
    BY <2>2 DEF Range
  <2> QED
    BY <1>1, <1>2, <2>3
<1> QED
  BY <1>1, <1>3

\* The last pass ends one stable sort of what there was when it started.
LEMMA EndPassSorts ==
    ASSUME IInv, IInv', SortInv, EndPass
    PROVE  SortInv' /\ Refines
<1> DEFINE v == job.v
           s == Items(v)
           i == job.i
<1>1. /\ job \in Job /\ v \in Vectors /\ i \in Nat \ {0} /\ Alive(v) /\ VecTyped /\ HeapTyped
      /\ job # NoJob /\ i >= job.size /\ fate = "ok" /\ job.size \in Nat /\ job.swapped \in BOOLEAN
      /\ UNCHANGED <<vec, list, array, heap, lost, fate>>
  BY DEF EndPass, IInv, JobTyped, Job
<1>2. s \in Seq(Place) /\ Len(s) \in Nat /\ DOMAIN s = 1..Len(s)
  BY <1>1, AliveIs
<1>3. /\ Partly(s, Weights, Ranks, job.size, i, job.swapped)
      /\ Len(s) = Len(job.before) /\ Range(s) = Range(job.before)
  BY <1>1 DEF SortInv
<1>4. Weights \in [Place -> Int]
  BY <1>1, WeightsTyped
<1>5. CASE job.swapped
  <2>1. job' = NextPass /\ job.swapped = TRUE
    BY <1>1, <1>5 DEF EndPass
  <2>2. job.size # 0 /\ Partly(s, Weights, Ranks, job.size - 1, 1, FALSE)
    <3> HIDE DEF s, i
    <3> QED
      BY <1>1, <1>2, <1>3, <1>4, <2>1, PartlyNextPass
  <2>3. /\ job'.v = v /\ job'.order = job.order /\ job'.before = job.before
        /\ job'.size = job.size - 1 /\ job'.i = 1 /\ job'.swapped = FALSE
    BY <1>1, <2>1, <2>2 DEF NextPass, Job
  <2>4. job' # NoJob
    <3>1. job' \in Job
      BY <1>1, <2>1, NextPassIs
    <3> QED
      BY <3>1, VectorAssumption
  <2>5. Items(job.v)' = s
    BY <1>1, <2>3 DEF Items
  <2> HIDE DEF s, i, v
  <2>6. Refines
    BY <1>1, <2>3, <2>4, CompareUnseen DEF v
  <2>7. Weights' = Weights /\ Ranks' = Ranks
    BY <1>1, <2>3, SortGoesOn
  <2>8. SortInv'
    BY <1>3, <2>2, <2>3, <2>5, <2>7 DEF SortInv
  <2> QED
    BY <2>6, <2>8
<1>6. CASE ~job.swapped
  <2>1. job' = NoJob /\ job.swapped = FALSE
    BY <1>1, <1>6 DEF EndPass
  <2>2. Contents[v] = job.before /\ Contents' = [Contents EXCEPT ![v] = s] /\ Contents'[v] = s
    <3>1. \A w \in Vectors : Contents'[w] = IF Alive(w) THEN Items(w) ELSE Absent
      BY <1>1, <2>1 DEF Contents, Seen, Alive, Items
    <3>2. \A w \in Vectors : w # v => Contents'[w] = Contents[w]
      BY <1>1, <2>1 DEF Contents, Seen, Alive, Items
    <3>3. DOMAIN Contents = Vectors /\ DOMAIN Contents' = Vectors /\ Contents[v] = job.before
      BY <1>1 DEF Contents, Seen, Alive, Items
    <3>4. Contents'[v] = s
      BY <1>1, <3>1
    <3> QED
      BY <3>2, <3>3, <3>4 DEF Contents
  <2>3. /\ Status = "sorting" /\ Status' = "idle" /\ Task' = NoJob
        /\ Task.v = v /\ Task.order = job.order /\ UNCHANGED <<list, array, OwnedKeys>>
    BY <1>1, <2>1, KeysSame DEF Status, Task
  <2>4. ASSUME Len(s) < 2 PROVE Refines
    <3>1. s = job.before
      <4>1. job.before \in Seq(Place)
        BY <1>1 DEF Job
      <4> HIDE DEF s
      <4> QED
        BY <1>2, <1>3, <2>4, <4>1, ShortSequence
    <3>2. Promise!EndSort
      BY <1>3, <2>2, <2>3, <2>4, <3>1 DEF Promise!EndSort, Promise!Set
    <3> QED
      BY <3>2 DEF Refines, Promise!Next
  <2>5. ASSUME Len(s) >= 2 PROVE Refines
    <3>1. \A q, r \in 1..Len(s) : q < r =>
            /\ s[q] # Null /\ s[r] # Null /\ Weights[s[q]] <= Weights[s[r]]
            /\ Weights[s[q]] = Weights[s[r]] => Ranks[s[q]] < Ranks[s[r]]
      <4>1. Partly(s, Weights, Ranks, job.size, i, FALSE)
        BY <1>3, <2>1
      <4> HIDE DEF s, i
      <4> QED
        BY <1>1, <1>2, <1>4, <2>5, <4>1, PartlyDone
    <3>2. \A q \in 1..Len(s) : s[q] # Null => s[q] \in InUse /\ s[q] \in Place
      BY <1>1, <1>2, SeatOf
    <3>3. ASSUME NEW q \in DOMAIN s, NEW r \in DOMAIN s, q < r
          PROVE  /\ ~Promise!Bigger(job.order, s[q], s[r])
                 /\ OwnedKeys[s[q]] = OwnedKeys[s[r]] =>
                      Promise!At(job.before, s[q]) < Promise!At(job.before, s[r])
      <4>1. /\ s[q] \in InUse /\ s[r] \in InUse /\ s[q] \in Place /\ s[r] \in Place
            /\ Weights[s[q]] <= Weights[s[r]]
            /\ Weights[s[q]] = Weights[s[r]] => Ranks[s[q]] < Ranks[s[r]]
        BY <1>2, <3>1, <3>2, <3>3
      <4> HIDE DEF s
      <4>2. /\ OwnedKeys[s[q]] = heap[s[q]] /\ OwnedKeys[s[r]] = heap[s[r]]
            /\ Ranks[s[q]] = Promise!At(job.before, s[q])
            /\ Ranks[s[r]] = Promise!At(job.before, s[r])
        BY <4>1, KeysAre DEF Ranks
      <4>3. /\ ~OutOfOrder(s[q], s[r])
            /\ heap[s[q]] = heap[s[r]] <=> Weights[s[q]] = Weights[s[r]]
        BY <1>1, <4>1, WeightsCompare
      <4>4. ~Promise!Bigger(job.order, s[q], s[r])
        BY <4>2, <4>3 DEF OutOfOrder, After, Promise!Bigger
      <4> QED
        BY <4>1, <4>2, <4>3, <4>4
    <3>4. Promise!IsStableSort(job.order, job.before, s)
      <4>1. Promise!Range(s) = Promise!Range(job.before)
        BY <1>3 DEF Range, Promise!Range
      <4> HIDE DEF s
      <4> QED
        BY <1>3, <3>3, <4>1 DEF Promise!IsStableSort
    <3>5. ~(Len(job.before) < 2)
      BY <1>2, <1>3, <2>5
    <3> HIDE DEF s, v
    <3>6. Promise!EndSort
      BY <2>2, <2>3, <3>4, <3>5 DEF Promise!EndSort, Promise!Set
    <3> QED
      BY <3>6 DEF Refines, Promise!Next
  <2>6. Refines
    BY <1>2, <2>4, <2>5
  <2>7. SortInv'
    BY <2>1 DEF SortInv
  <2> QED
    BY <2>6, <2>7
<1> QED
  BY <1>1, <1>5, <1>6

-----------------------------------------------------------------------------
(* The refinement *)

\* No sort runs, and none starts.
LEMMA NotSorting ==
    ASSUME Calm, UNCHANGED job PROVE SortInv'
  BY DEF Calm, SortInv

LEMMA VectorRefines ==
    ASSUME IInv, NEW v \in Vectors, OnVector(v)
    PROVE  SortInv' /\ Refines
<1>1. ASSUME NEW o \in {"aborted", "undefined"}, Become(o), Calm PROVE SortInv' /\ Refines
  <2>1. fate = "ok" /\ UNCHANGED job
    BY <1>1 DEF Calm, Become
  <2> QED
    BY <1>1, <2>1, AsHalt, NotSorting
<1>2. CASE UseGarbage(v)
  BY <1>1, <1>2 DEF UseGarbage
<1>3. CASE Clear(v) \/ Delete(v)
  BY <1>3, EmptyRefines, NotSorting DEF Clear, Delete
<1>4. CASE New(v)
  <2>1. CASE Become("undefined")
    BY <1>1, <1>4, <2>1 DEF New
  <2>2. CASE ~Become("undefined")
    BY <1>4, <2>2, NewRefines, NotSorting, 0 \in Nat DEF New
  <2> QED
    BY <2>1, <2>2
<1>5. ASSUME NEW n \in Capacities, NewWithCapacity(v, n) PROVE SortInv' /\ Refines
  <2>1. n \in Nat
    BY VectorAssumption
  <2>2. CASE Become("undefined")
    BY <1>1, <1>5, <2>2 DEF NewWithCapacity
  <2>3. CASE ~Become("undefined")
    BY <1>5, <2>1, <2>3, NewRefines, NotSorting DEF NewWithCapacity
  <2> QED
    BY <2>2, <2>3
<1>6. ASSUME NEW k \in Keys, PushBack(v, k) PROVE SortInv' /\ Refines
  <2>1. CASE Become("aborted")
    BY <1>1, <1>6, <2>1 DEF PushBack
  <2>2. CASE ~Become("aborted")
    BY <1>6, <2>2, PushRefines, NotSorting DEF PushBack
  <2> QED
    BY <2>1, <2>2
<1>7. ASSUME NEW k \in Keys, PushLost(v, k) PROVE SortInv' /\ Refines
  BY <1>7, LeakRefines, NotSorting DEF PushLost
<1>8. ASSUME NEW i, ReadNothing(v, i) PROVE SortInv' /\ Refines
  BY <1>1, <1>8 DEF ReadNothing
<1>9. ASSUME NEW w \in Vectors, Copy(v, w) PROVE SortInv' /\ Refines
  <2>1. CASE Become("undefined")
    BY <1>1, <1>9, <2>1 DEF Copy
  <2>2. CASE Become(Trouble)
    BY <1>1, <1>9, <2>2, TroubleHalts DEF Copy
  <2>3. CASE vec' = [vec EXCEPT ![w] = Garbage] /\ UNCHANGED <<list, array, heap, lost, job, fate, setting>>
    BY <1>9, <2>3, NewRefines, NotSorting, 0 \in Nat DEF Copy
  <2>4. ASSUME NEW n \in 0..Len(Items(v)), n <= Cardinality(Free),
               ~(\E i \in DOMAIN Items(v) : i <= n + 1 /\ Items(v)[i] = Null),
               CopyTo(v, w, n)
        PROVE  SortInv' /\ Refines
    <3>1. Calm /\ Alive(v) /\ vec[w] = Absent
      BY <1>9 DEF Copy
    <3>2. \A i \in DOMAIN Items(v) : i <= n + 1 => Items(v)[i] # Null
      BY <2>4
    <3>3. UNCHANGED job
      BY <2>4 DEF CopyTo
    <3> QED
      BY <2>4, <3>1, <3>2, <3>3, CopyRefines, NotSorting
  <2> QED
    BY <1>9, <2>1, <2>2, <2>3, <2>4 DEF Copy
<1>10. ASSUME NEW n \in Capacities, SetCapacity(v, n) PROVE SortInv' /\ Refines
  <2>1. CASE Become("aborted")
    BY <1>1, <1>10, <2>1 DEF SetCapacity
  <2>2. CASE ~Become("aborted")
    <3>1. n \in Nat
      BY VectorAssumption
    <3> QED
      BY <1>10, <2>2, <3>1, CapacityRefines, NotSorting DEF SetCapacity
  <2> QED
    BY <2>1, <2>2
<1>11. ASSUME NEW i, NEW j, Swap(v, i, j) PROVE SortInv' /\ Refines
  <2>1. CASE Become("aborted")
    BY <1>1, <1>11, <2>1 DEF Swap
  <2>2. CASE ~Become("aborted")
    <3>1. /\ Calm /\ Alive(v) /\ i \in DOMAIN Items(v) /\ j \in DOMAIN Items(v)
          /\ SetVector(v, Swapped(Items(v), i, j), vec[v].capacity)
          /\ UNCHANGED <<list, array, heap, lost, job, fate, setting>>
      BY <1>11, <2>2 DEF Swap
    <3> QED
      BY <3>1, SwapRefines, NotSorting
  <2> QED
    BY <2>1, <2>2
<1>12. ASSUME NEW order \in {"bigger", "smaller"}, StartSort(v, order) PROVE SortInv' /\ Refines
  BY <1>12, SortStarts
<1>13. CASE VectorArray(v)
  <2>1. UNCHANGED job /\ Calm
    BY <1>13 DEF VectorArray, Become
  <2> QED
    BY <1>13, <2>1, VectorArrayRefines, NotSorting
<1>14. CASE Transfer(v)
  <2>1. UNCHANGED job /\ Calm
    BY <1>14 DEF Transfer, Become
  <2> QED
    BY <1>14, <2>1, TransferRefines, NotSorting
<1> QED
  BY <1>2, <1>3, <1>4, <1>5, <1>6, <1>7, <1>8, <1>9, <1>10, <1>11, <1>12, <1>13, <1>14
     DEF OnVector

\* Every step is one of the promise, or leaves what it sees.
LEMMA StepRefines ==
    ASSUME IInv, IInv', SortInv, [Next]_vars
    PROVE  SortInv' /\ (Promise!Next \/ UNCHANGED Promise!vars)
<1> SUFFICES SortInv' /\ Refines
  BY DEF Refines, View, Promise!vars
<1>1. ASSUME NEW v \in Vectors, OnVector(v) PROVE SortInv' /\ Refines
  BY <1>1, VectorRefines
<1>2. CASE Sorting
  BY <1>2, CompareSorts, EndPassSorts DEF Sorting
<1>3. CASE DeleteArray
  BY <1>3, DeleteArrayRefines, NotSorting DEF DeleteArray
<1>4. CASE OnList
  <2>1. CASE ListPop
    BY <2>1, ListPopRefines, NotSorting DEF ListPop
  <2>2. CASE ListArray
    BY <2>2, ListArrayRefines, NotSorting DEF ListArray
  <2>3. ASSUME NEW k \in Keys, ListPush(k) PROVE SortInv' /\ Refines
    BY <2>3, ListPushRefines, NotSorting DEF ListPush
  <2> QED
    BY <1>4, <2>1, <2>2, <2>3 DEF OnList
<1>5. CASE UNCHANGED vars
  <2>1. UNCHANGED <<vec, list, array, heap, lost, job, fate>>
    BY <1>5 DEF vars
  <2>2. Weights' = Weights /\ Ranks' = Ranks /\ Items(job.v)' = Items(job.v)
    BY <2>1, SortGoesOn DEF Items
  <2>3. SortInv'
    BY <2>1, <2>2 DEF SortInv
  <2>4. Refines
    BY <2>1, ContentsSame, KeysSame DEF Refines, View, Task, Status
  <2> QED
    BY <2>3, <2>4
<1> QED
  BY <1>1, <1>2, <1>3, <1>4, <1>5 DEF Next

LEMMA InitRefines ==
    ASSUME Init PROVE SortInv /\ Promise!Init
<1>1. job = NoJob /\ fate = "ok" /\ heap = <<>> /\ lost = {} /\ list = <<>> /\ array = <<>>
  BY DEF Init
<1>2. Contents = [v \in Vectors |-> Absent]
  BY DEF Init, Contents, Seen, Alive, Items
<1>3. OwnedKeys = <<>>
  BY <1>1 DEF OwnedKeys, Restrict
<1>4. Task = NoJob /\ Status = "idle"
  BY <1>1 DEF Task, Status
<1> QED
  BY <1>1, <1>2, <1>3, <1>4 DEF SortInv, Promise!Init

\* Vectors, lists and arrays are sequences of values that keep their identity and
\* their key; a sort is one stable sort, however many comparisons it takes
\* (cvector_generic.c:41-230, clist_cstring.c, ccontainer_utils.c:16-53).
THEOREM VectorImplemented == Spec => ImplementsVector
<1>1. Init => SortInv /\ Promise!Init
  BY InitRefines
<1>2. IInv /\ IInv' /\ SortInv /\ [Next]_vars => SortInv' /\ [Promise!Next]_(Promise!vars)
  BY StepRefines
<1> QED
  BY <1>1, <1>2, Invariance, PTL DEF Spec, ImplementsVector, Promise!Spec
-----------------------------------------------------------------------------
(* The sort comes to an end: what is left of its loops shrinks at every step *)

\* Nothing but its own steps happens while a sort runs, and each of them ends it,
\* reads a NULL, begins a shorter pass, or compares further in the same pass:
\* size_array never wraps, and i never passes it (cvector_generic.c:196-220).
SortAdvances ==
    job # NoJob =>
        \/ job' = NoJob
        \/ fate' = "undefined"
        \/ job'.size \in Nat /\ job'.size < job.size
        \/ job'.size = job.size /\ job.i < job'.i /\ job'.i <= job.size

LEMMA OnlySorting ==
    ASSUME job # NoJob, Next PROVE Sorting
<1>1. ~Calm
  BY DEF Calm
<1>2. \A v \in Vectors : ~OnVector(v)
  BY <1>1 DEF OnVector, UseGarbage, Clear, Delete, New, NewWithCapacity, PushBack, PushLost,
     ReadNothing, Copy, SetCapacity, Swap, StartSort, VectorArray, Transfer
<1>3. ~DeleteArray /\ ~OnList
  BY <1>1 DEF DeleteArray, OnList, ListPop, ListArray, ListPush
<1> QED
  BY <1>2, <1>3 DEF Next

LEMMA CompareAdvances ==
    ASSUME IInv, Compare PROVE SortAdvances
<1>1. job \in Job /\ job.i \in Nat /\ job.size \in Nat /\ job.i < job.size
  BY DEF Compare, IInv, JobTyped, Job
<1>2. CASE Become("undefined")
  BY <1>2 DEF Become, SortAdvances
<1>3. CASE job' = [job EXCEPT !.i = job.i + 1, !.swapped = TRUE]
           \/ job' = [job EXCEPT !.i = job.i + 1]
  <2>1. job'.size = job.size /\ job'.i = job.i + 1
    BY <1>1, <1>3, Zenon DEF Job
  <2>2. job.i < job'.i /\ job'.i <= job.size
    BY <1>1, <2>1
  <2> QED
    BY <2>1, <2>2 DEF SortAdvances
<1> QED
  BY <1>2, <1>3 DEF Compare

LEMMA EndPassAdvances ==
    ASSUME IInv, SortInv, EndPass PROVE SortAdvances
<1> DEFINE s == Items(job.v)
           i == job.i
<1>1. /\ job \in Job /\ job.v \in Vectors /\ i \in Nat \ {0} /\ Alive(job.v)
      /\ VecTyped /\ HeapTyped /\ job # NoJob /\ i >= job.size /\ job.size \in Nat
  BY DEF EndPass, IInv, JobTyped, Job
<1>2. s \in Seq(Place) /\ Weights \in [Place -> Int]
  BY <1>1, AliveIs, WeightsTyped
<1>3. Partly(s, Weights, Ranks, job.size, i, job.swapped)
  BY <1>1 DEF SortInv
<1>4. CASE job.swapped
  <2>1. job' = NextPass /\ job.swapped = TRUE
    BY <1>1, <1>4 DEF EndPass, Job
  <2>2. job.size # 0
    <3> HIDE DEF s, i
    <3> QED
      BY <1>1, <1>2, <1>3, <2>1, PartlyNextPass
  <2>3. job'.size = job.size - 1
    BY <1>1, <2>1, <2>2 DEF NextPass, Job
  <2>4. job'.size \in Nat /\ job'.size < job.size
    BY <1>1, <2>2, <2>3
  <2> QED
    BY <2>4 DEF SortAdvances
<1>5. CASE ~job.swapped
  BY <1>5 DEF EndPass, SortAdvances
<1> QED
  BY <1>4, <1>5

\* What is left of a sort, its passes and then the comparisons of this one, shrinks at
\* each of its steps, however many values there are (cvector_generic.c:196-220).
THEOREM SortShortens == Spec => [][SortAdvances]_vars
<1>1. Init => SortInv
  BY InitRefines
<1>2. IInv /\ IInv' /\ SortInv /\ [Next]_vars => SortInv'
  BY StepRefines
<1>3. IInv /\ SortInv /\ [Next]_vars => [SortAdvances]_vars
  <2> SUFFICES ASSUME IInv, SortInv, Next, job # NoJob PROVE SortAdvances
    BY DEF SortAdvances
  <2>1. Sorting
    BY OnlySorting
  <2> QED
    BY <2>1, CompareAdvances, EndPassAdvances DEF Sorting
<1> QED
  BY <1>1, <1>2, <1>3, Invariance, PTL DEF Spec
=============================================================================
