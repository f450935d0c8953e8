-------------------------- MODULE MastermindProofs --------------------------
(***************************************************************************)
(* Proofs about the parties of Mastermind, for every size of code, every   *)
(* set of colours, every number of attempts and of parties.                *)
(***************************************************************************)
EXTENDS Mastermind, FiniteSetTheorems, TLAPS

Score == [win: 0..MaxParties, lost: 0..MaxParties, draw: {0}]

\* The type invariant, and the bound of the model on the parties counted.
Types ==
    /\ phase \in {"guess", "again", "returned"}
    /\ secret \in Codes /\ guess \in Codes \cup {NoCode}
    /\ tentatives \in 1..(MaxTENTATIVE + 1)
    /\ essais \in 0..(MaxTENTATIVE + 1)
    /\ scores \in Score /\ scores.win + scores.lost <= MaxParties
    /\ bien \in 0..NbPIECE /\ mal \in 0..NbPIECE

Flags == victoire \in BOOLEAN /\ eof \in BOOLEAN /\ asked \in BOOLEAN

\* tentatives numbers the guess to come of a party that is not won yet.
Attempts ==
    phase = "guess" =>
        /\ ~victoire /\ tentatives = essais + 1
        /\ scores.win + scores.lost < MaxParties

IInv == Types /\ Flags /\ Attempts /\ PartyIsDecided /\ AnswerIsRight

-----------------------------------------------------------------------------
(* Induction, from the well-foundedness of the natural numbers *)

\* A set of natural numbers that is not empty has a least element.
LEMMA Lowest ==
    ASSUME NEW T \in SUBSET Nat, T # {}
    PROVE  \E x \in T : \A y \in T : x <= y
<1> DEFINE R == {p \in Nat \X Nat : p[1] < p[2]}
<1>1. IsWellFoundedOn(R, Nat)
  BY NatLessThanWellFounded DEF OpToRel
<1>2. \A x, y \in Nat : y < x => <<y, x>> \in R
  OBVIOUS
<1> HIDE DEF R
<1>3. PICK x \in T : \A y \in T : ~ (<<y, x>> \in R)
  BY <1>1, WFMin
<1>4. ASSUME NEW y \in T PROVE x <= y
  <2>1. x \in Nat /\ y \in Nat /\ ~(y < x)
    BY <1>2, <1>3
  <2> QED
    BY <2>1
<1> QED
  BY <1>4

\* A set that holds zero and the successor of each of its numbers has them all.
LEMMA Induction ==
    ASSUME NEW P, 0 \in P, \A n \in Nat : n \in P => n + 1 \in P
    PROVE  Nat \subseteq P
<1> DEFINE T == Nat \ P
<1> SUFFICES ASSUME T # {} PROVE FALSE
  OBVIOUS
<1>1. T \in SUBSET Nat
  OBVIOUS
<1>2. PICK x \in T : \A y \in T : x <= y
  <2> HIDE DEF T
  <2> QED
    BY <1>1, Lowest
<1>3. x \in Nat /\ x # 0
  OBVIOUS
<1>4. x - 1 \in Nat /\ x - 1 \notin T
  BY <1>2, <1>3
<1> QED
  BY <1>2, <1>3, <1>4

-----------------------------------------------------------------------------
(* The two loops of mm_algo_mastermind() *)

\* The places of the code that are taken, and those of a set with colour c.
Used(memo) == {i \in Pieces : memo[i] # 0}
Painted(T, code, c) == {i \in T : code[i] = c}

\* The pieces of the guess dealt with before the k-th turn of the second loop.
Seen(g, s, k) == {i \in Pieces : i < k \/ g[i] = s[i]}

\* The pieces seen of a colour each took a place of that colour, as long as
\* there were some.
Matched(g, s, k, memo, c) ==
    LET used == Painted(Used(memo), s, c)
        seen == Painted(Seen(g, s, k), g, c)
    IN  /\ Cardinality(used) <= Cardinality(seen)
        /\ Cardinality(used) = Cardinality(seen) \/ used = Painted(Pieces, s, c)

\* The invariant of the second loop.
Sound(g, s, k, p) ==
    /\ p = [memo |-> p.memo, mal |-> p.mal]
    /\ p.memo \in [Pieces -> 0..2] /\ p.mal \in Nat
    /\ \A i \in Pieces : p.memo[i] = 1 <=> g[i] = s[i]
    /\ Cardinality(Used(p.memo)) = BienPlace(g, s) + p.mal
    /\ \A c \in Colors : Matched(g, s, k, p.memo, c)

\* One turn of it.
Turn(g, s, p, piece) ==
    LET ds == Candidates(g, s, p.memo, piece)
    IN  IF p.memo[piece] = 1 \/ ds = {} THEN p
        ELSE [memo |-> [p.memo EXCEPT ![(piece + Min(ds)) % NbPIECE] = 2],
              mal  |-> p.mal + 1]

Start(g, s) == [memo |-> Placed(g, s), mal |-> 0]

LEMMA FinitePieces ==
    /\ IsFiniteSet(Pieces) /\ Cardinality(Pieces) = NbPIECE
    /\ \A T \in SUBSET Pieces :
          IsFiniteSet(T) /\ Cardinality(T) \in Nat /\ Cardinality(T) <= NbPIECE
<1>1. IsFiniteSet(Pieces) /\ Cardinality(Pieces) = NbPIECE
  <2>1. /\ IsFiniteSet(0..(NbPIECE - 1))
        /\ Cardinality(0..(NbPIECE - 1)) = IF 0 > NbPIECE - 1 THEN 0 ELSE (NbPIECE - 1) - 0 + 1
    BY MastermindAssumption, FS_Interval
  <2> QED
    BY <2>1, MastermindAssumption DEF Pieces
<1>2. ASSUME NEW T \in SUBSET Pieces
      PROVE  IsFiniteSet(T) /\ Cardinality(T) \in Nat /\ Cardinality(T) <= NbPIECE
  BY <1>1, FS_Subset, FS_CardinalityType
<1> QED
  BY <1>1, <1>2

\* The distances 1 to NbPIECE - 1 modulo NbPIECE reach the other places.
LEMMA Around ==
    ASSUME NEW i \in Pieces
    PROVE  /\ \A d \in 1..(NbPIECE - 1) :
                 (i + d) % NbPIECE \in Pieces /\ (i + d) % NbPIECE # i
           /\ \A j \in Pieces \ {i} : \E d \in 1..(NbPIECE - 1) : (i + d) % NbPIECE = j
<1> DEFINE n == NbPIECE
<1>1. n \in Nat \ {0} /\ i \in 0..(n - 1) /\ Pieces = 0..(n - 1)
  BY MastermindAssumption DEF Pieces
<1> HIDE DEF n
<1>2. ASSUME NEW d \in 1..(n - 1) PROVE (i + d) % n \in 0..(n - 1) /\ (i + d) % n # i
  BY <1>1
<1>3. ASSUME NEW y \in 0..(n - 1) PROVE y % n = y /\ (y + n) % n = y
  BY <1>1
<1>4. ASSUME NEW j \in 0..(n - 1), j # i PROVE \E d \in 1..(n - 1) : (i + d) % n = j
  <2>1. CASE i < j
    <3>1. j - i \in 1..(n - 1) /\ i + (j - i) = j
      BY <1>1, <2>1
    <3> QED
      BY <1>3, <3>1
  <2>2. CASE j < i
    <3>1. (j + n) - i \in 1..(n - 1) /\ i + ((j + n) - i) = j + n
      BY <1>1, <2>2
    <3> QED
      BY <1>3, <3>1
  <2> QED
    BY <1>1, <1>4, <2>1, <2>2
<1> QED
  BY <1>1, <1>2, <1>4 DEF n

\* A piece that is not well placed looks at every free place of its colour.
LEMMA CandidatesAre ==
    ASSUME NEW g \in Codes, NEW s \in Codes, NEW memo \in [Pieces -> 0..2],
           NEW i \in Pieces, g[i] # s[i]
    PROVE  LET ds == Candidates(g, s, memo, i)
               a == (i + Min(ds)) % NbPIECE IN
           /\ ds = {} => \A j \in Pieces : s[j] = g[i] => memo[j] # 0
           /\ ds # {} => a \in Pieces /\ s[a] = g[i] /\ memo[a] = 0
<1> DEFINE ds == Candidates(g, s, memo, i)
           at(d) == (i + d) % NbPIECE
<1>1. \A d \in ds : d \in Nat /\ at(d) \in Pieces /\ g[i] = s[at(d)] /\ memo[at(d)] = 0
  BY Around, MastermindAssumption DEF Candidates
<1>2. ASSUME NEW j \in Pieces, s[j] = g[i], memo[j] = 0 PROVE ds # {}
  <2>1. j # i
    BY <1>2
  <2>2. PICK d \in 1..(NbPIECE - 1) : at(d) = j
    BY <2>1, Around
  <2>3. d \in ds
    BY <1>2, <2>2 DEF Candidates
  <2> QED
    BY <2>3
<1> HIDE DEF ds, at
<1>3. ASSUME ds # {} PROVE Min(ds) \in ds
  <2>1. \E x \in ds : \A y \in ds : x <= y
    BY <1>1, <1>3, Lowest
  <2> QED
    BY <2>1 DEF Min
<1> QED
  BY <1>1, <1>2, <1>3 DEF ds, at

LEMMA StartSound ==
    ASSUME NEW g \in Codes, NEW s \in Codes
    PROVE  Sound(g, s, 0, Start(g, s))
<1> DEFINE memo == Placed(g, s)
           same == {i \in Pieces : g[i] = s[i]}
<1>1. /\ memo \in [Pieces -> 0..2] /\ \A i \in Pieces : memo[i] = 1 <=> g[i] = s[i]
      /\ Used(memo) = same
  BY DEF Placed, Used
<1>2. Cardinality(same) \in Nat /\ Cardinality(same) = BienPlace(g, s)
  BY FinitePieces DEF BienPlace
<1>3. ASSUME NEW c \in Colors PROVE Matched(g, s, 0, memo, c)
  <2>1. Painted(Used(memo), s, c) = Painted(Seen(g, s, 0), g, c)
    BY <1>1, MastermindAssumption DEF Painted, Seen, Pieces
  <2>2. Cardinality(Painted(Used(memo), s, c)) \in Nat
    BY FinitePieces DEF Painted, Used
  <2> QED
    BY <2>1, <2>2 DEF Matched
<1> HIDE DEF memo, same
<1>4. Cardinality(Used(memo)) = BienPlace(g, s) + 0
  BY <1>1, <1>2
<1>5. Start(g, s) = [memo |-> memo, mal |-> 0]
  BY DEF Start, memo
<1> QED
  BY <1>1, <1>3, <1>4, <1>5 DEF Sound, same

LEMMA TurnSound ==
    ASSUME NEW g \in Codes, NEW s \in Codes, NEW i \in Pieces, NEW p, Sound(g, s, i, p)
    PROVE  Sound(g, s, i + 1, Turn(g, s, p, i))
<1> DEFINE memo == p.memo
           ds == Candidates(g, s, memo, i)
           a == (i + Min(ds)) % NbPIECE
           col == g[i]
<1>1. /\ p = [memo |-> memo, mal |-> p.mal] /\ memo \in [Pieces -> 0..2] /\ p.mal \in Nat
      /\ \A j \in Pieces : memo[j] = 1 <=> g[j] = s[j]
      /\ Cardinality(Used(memo)) = BienPlace(g, s) + p.mal
      /\ \A c \in Colors : Matched(g, s, i, memo, c)
  BY DEF Sound
<1>2. i \in Nat /\ \A j \in Pieces : j \in Nat
  BY DEF Pieces
<1>3. Seen(g, s, i + 1) = Seen(g, s, i) \cup {i}
  <2>1. \A j \in Pieces : j < i + 1 <=> j < i \/ j = i
    BY <1>2
  <2> QED
    BY <2>1 DEF Seen
<1>4. /\ \A c \in Colors \ {col} : Painted(Seen(g, s, i + 1), g, c) = Painted(Seen(g, s, i), g, c)
      /\ Painted(Seen(g, s, i + 1), g, col) = Painted(Seen(g, s, i), g, col) \cup {i}
  BY <1>3 DEF Painted
<1>5. \A c, k : /\ IsFiniteSet(Painted(Seen(g, s, k), g, c))
                 /\ Cardinality(Painted(Seen(g, s, k), g, c)) \in Nat
  BY FinitePieces DEF Painted, Seen
<1>6. \A m, c : /\ IsFiniteSet(Painted(Used(m), s, c)) /\ IsFiniteSet(Used(m))
                 /\ Cardinality(Painted(Used(m), s, c)) \in Nat /\ Cardinality(Used(m)) \in Nat
  BY FinitePieces DEF Painted, Used
<1>7. col \in Colors
  BY DEF Codes
<1>8. CASE memo[i] = 1
  <2>1. g[i] = s[i] /\ Turn(g, s, p, i) = p
    BY <1>1, <1>8 DEF Turn
  <2>2. Seen(g, s, i + 1) = Seen(g, s, i)
    BY <1>3, <2>1 DEF Seen
  <2>3. \A c \in Colors : Matched(g, s, i + 1, memo, c)
    BY <1>1, <2>2 DEF Matched
  <2> QED
    BY <1>1, <2>1, <2>3 DEF Sound
<1>9. CASE memo[i] # 1
  <2>1. g[i] # s[i] /\ i \notin Painted(Seen(g, s, i), g, col)
    BY <1>1, <1>2, <1>9 DEF Painted, Seen
  <2>2. Cardinality(Painted(Seen(g, s, i + 1), g, col))
            = Cardinality(Painted(Seen(g, s, i), g, col)) + 1
    BY <1>4, <1>5, <2>1, FS_AddElement
  <2>3. /\ ds = {} => \A j \in Pieces : s[j] = col => memo[j] # 0
        /\ ds # {} => a \in Pieces /\ s[a] = col /\ memo[a] = 0
    BY <1>1, <2>1, CandidatesAre
  <2> HIDE DEF memo, ds, a, col
  <2>4. CASE ds = {}
    <3>1. Turn(g, s, p, i) = p
      BY <2>4 DEF Turn, ds, memo
    <3>2. Painted(Used(memo), s, col) = Painted(Pieces, s, col)
      BY <2>3, <2>4 DEF Painted, Used
    <3>3. Matched(g, s, i + 1, memo, col)
      <4>1. Cardinality(Painted(Used(memo), s, col)) <= Cardinality(Painted(Seen(g, s, i), g, col))
        BY <1>1, <1>7 DEF Matched
      <4>2. Cardinality(Painted(Used(memo), s, col))
              <= Cardinality(Painted(Seen(g, s, i + 1), g, col))
        BY <1>5, <1>6, <2>2, <4>1
      <4> QED
        BY <3>2, <4>2 DEF Matched
    <3>4. \A c \in Colors \ {col} : Matched(g, s, i + 1, memo, c)
      BY <1>1, <1>4 DEF Matched
    <3> QED
      BY <1>1, <3>1, <3>3, <3>4 DEF Sound, memo
  <2>5. CASE ds # {}
    <3> DEFINE m == [memo EXCEPT ![a] = 2]
    <3>1. Turn(g, s, p, i) = [memo |-> m, mal |-> p.mal + 1]
      BY <1>9, <2>5 DEF Turn, ds, memo, a
    <3>2. a \in Pieces /\ s[a] = col /\ memo[a] = 0
      BY <2>3, <2>5
    <3>3. /\ m \in [Pieces -> 0..2] /\ m[a] = 2
          /\ \A j \in Pieces : j # a => m[j] = memo[j]
      BY <1>1, <3>2
    <3> HIDE DEF m
    <3>4. \A j \in Pieces : m[j] = 1 <=> g[j] = s[j]
      BY <1>1, <3>2, <3>3
    <3>5. Used(m) = Used(memo) \cup {a} /\ a \notin Used(memo)
      BY <3>2, <3>3 DEF Used
    <3>6. Cardinality(Used(m)) = Cardinality(Used(memo)) + 1
      BY <1>6, <3>5, FS_AddElement
    <3>7. /\ Painted(Used(m), s, col) = Painted(Used(memo), s, col) \cup {a}
          /\ a \notin Painted(Used(memo), s, col) /\ a \in Painted(Pieces, s, col)
          /\ \A c \in Colors \ {col} : Painted(Used(m), s, c) = Painted(Used(memo), s, c)
      BY <3>2, <3>5 DEF Painted
    <3>8. Cardinality(Painted(Used(m), s, col)) = Cardinality(Painted(Used(memo), s, col)) + 1
      BY <1>6, <3>7, FS_AddElement
    <3>9. Matched(g, s, i + 1, m, col)
      <4>1. Cardinality(Painted(Used(memo), s, col)) = Cardinality(Painted(Seen(g, s, i), g, col))
        BY <1>1, <1>7, <3>7 DEF Matched
      <4>2. Cardinality(Painted(Used(m), s, col))
              = Cardinality(Painted(Seen(g, s, i + 1), g, col))
        BY <2>2, <3>8, <4>1
      <4> QED
        BY <1>5, <4>2 DEF Matched
    <3>10. \A c \in Colors \ {col} : Matched(g, s, i + 1, m, c)
      BY <1>1, <1>4, <3>7 DEF Matched
    <3>11. Cardinality(Used(m)) = BienPlace(g, s) + (p.mal + 1)
      <4>1. BienPlace(g, s) \in Nat
        BY FinitePieces DEF BienPlace
      <4> QED
        BY <1>1, <1>6, <3>6, <4>1
    <3>12. p.mal + 1 \in Nat /\ \A c \in Colors : Matched(g, s, i + 1, m, c)
      BY <1>1, <3>9, <3>10
    <3> QED
      BY <3>1, <3>3, <3>4, <3>11, <3>12 DEF Sound
  <2> QED
    BY <2>4, <2>5
<1> QED
  BY <1>8, <1>9

\* There is a function that follows the loop, and it keeps the invariant.
LEMMA MalPlaceIs ==
    ASSUME NEW g \in Codes, NEW s \in Codes
    PROVE  \E p : Sound(g, s, NbPIECE, p) /\ MalPlace(g, s) = p.mal
<1> DEFINE n == NbPIECE
           Follows(f, k) == f[k] = IF k = 0 THEN Start(g, s) ELSE Turn(g, s, f[k - 1], k - 1)
           Followed(k) == \E f : DOMAIN f = 0..n /\ \A j \in 0..n : j <= k => Follows(f, j)
           P == {k \in Nat : Followed(k)}
           loop == CHOOSE f : f = [k \in 0..n |-> IF k = 0 THEN Start(g, s)
                                                  ELSE Turn(g, s, f[k - 1], k - 1)]
           Q == {k \in Nat : k <= n => Sound(g, s, k, loop[k])}
<1>1. n \in Nat /\ Pieces = 0..(n - 1)
  BY MastermindAssumption DEF Pieces
<1> HIDE DEF n
<1>2. 0 \in P
  <2> DEFINE f == [k \in 0..n |-> Start(g, s)]
  <2>1. DOMAIN f = 0..n /\ Follows(f, 0)
    BY <1>1
  <2>2. \A j \in 0..n : j <= 0 => Follows(f, j)
    BY <1>1, <2>1
  <2> HIDE DEF f
  <2> QED
    BY <2>1, <2>2
<1>3. \A k \in Nat : k \in P => k + 1 \in P
  <2> SUFFICES ASSUME NEW k \in Nat, Followed(k) PROVE Followed(k + 1)
    <3> HIDE DEF Followed
    <3> QED
      OBVIOUS
  <2>0. PICK f : DOMAIN f = 0..n /\ \A j \in 0..n : j <= k => Follows(f, j)
    OBVIOUS
  <2> DEFINE h == [f EXCEPT ![k + 1] = Turn(g, s, f[k], k)]
  <2>1. DOMAIN h = 0..n /\ \A j \in 0..n : j # k + 1 => h[j] = f[j]
    BY <2>0
  <2>2. k + 1 \in 0..n => h[k + 1] = Turn(g, s, f[k], k)
    BY <2>0
  <2> HIDE DEF h
  <2>3. ASSUME NEW j \in 0..n, j <= k + 1 PROVE Follows(h, j)
    <3>1. CASE j = k + 1
      <4>1. j # 0 /\ j - 1 = k /\ k \in 0..n /\ k # k + 1
        BY <1>1, <3>1
      <4> QED
        BY <2>0, <2>1, <2>2, <3>1, <4>1
    <3>2. CASE j # k + 1
      <4>1. j <= k /\ (j # 0 => j - 1 \in 0..n /\ j - 1 # k + 1)
        BY <1>1, <2>3, <3>2
      <4> QED
        BY <2>0, <2>1, <3>2, <4>1
    <3> QED
      BY <3>1, <3>2
  <2> QED
    BY <2>1, <2>3
<1>4. n \in P
  <2> HIDE DEF P
  <2> QED
    BY <1>1, <1>2, <1>3, Induction
<1>5. loop = [k \in 0..n |-> IF k = 0 THEN Start(g, s) ELSE Turn(g, s, loop[k - 1], k - 1)]
  <2>1. PICK f : DOMAIN f = 0..n /\ \A j \in 0..n : j <= n => Follows(f, j)
    BY <1>4
  <2>2. \A j \in 0..n : Follows(f, j)
    BY <1>1, <2>1
  <2>3. PICK h : h = [k \in 0..n |-> f[k]]
    OBVIOUS
  <2>4. h = [k \in 0..n |-> IF k = 0 THEN Start(g, s) ELSE Turn(g, s, h[k - 1], k - 1)]
    <3>1. ASSUME NEW k \in 0..n
          PROVE  f[k] = IF k = 0 THEN Start(g, s) ELSE Turn(g, s, h[k - 1], k - 1)
      <4>1. k # 0 => k - 1 \in 0..n
        BY <1>1
      <4> QED
        BY <2>2, <2>3, <4>1
    <3> QED
      BY <2>3, <3>1
  <2> QED
    BY <2>4
<1>6. MalPlace(g, s) = loop[n].mal
  BY DEF MalPlace, Turn, Start, n
<1> HIDE DEF loop
<1>7. 0 \in Q
  BY <1>1, <1>5, StartSound
<1>8. \A k \in Nat : k \in Q => k + 1 \in Q
  <2> SUFFICES ASSUME NEW k \in Nat, Sound(g, s, k, loop[k]), k + 1 <= n
               PROVE  Sound(g, s, k + 1, loop[k + 1])
    BY <1>1
  <2>1. k \in Pieces /\ k + 1 \in 0..n /\ k + 1 # 0 /\ (k + 1) - 1 = k
    BY <1>1
  <2>2. loop[k + 1] = Turn(g, s, loop[k], k)
    BY <1>5, <2>1
  <2> QED
    BY <2>1, <2>2, TurnSound
<1>9. n \in Q
  <2> HIDE DEF Q
  <2> QED
    BY <1>1, <1>7, <1>8, Induction
<1> QED
  BY <1>1, <1>6, <1>9 DEF n

-----------------------------------------------------------------------------
(* The answer the rules give *)

\* After the loop the places taken of a colour are those the codes share.
LEMMA TakenOfColour ==
    ASSUME NEW g \in Codes, NEW s \in Codes, NEW p, Sound(g, s, NbPIECE, p), NEW c \in Colors
    PROVE  Cardinality(Painted(Used(p.memo), s, c)) = Least(Count(g, c), Count(s, c))
<1> DEFINE used == Painted(Used(p.memo), s, c)
<1>1. Painted(Seen(g, s, NbPIECE), g, c) = {i \in Pieces : g[i] = c}
  BY MastermindAssumption DEF Painted, Seen, Pieces
<1>2. Painted(Pieces, s, c) = {i \in Pieces : s[i] = c} /\ used \subseteq Painted(Pieces, s, c)
  BY DEF Painted, Used
<1>3. Cardinality(used) <= Count(s, c)
  <2>1. IsFiniteSet(Painted(Pieces, s, c))
    BY FinitePieces DEF Painted
  <2> QED
    BY <1>2, <2>1, FS_Subset DEF Count
<1>4. /\ Cardinality(used) <= Count(g, c)
      /\ Cardinality(used) = Count(g, c) \/ Cardinality(used) = Count(s, c)
  BY <1>1, <1>2 DEF Sound, Matched, Count
<1>5. Cardinality(used) \in Nat /\ Count(g, c) \in Nat /\ Count(s, c) \in Nat
  BY FinitePieces DEF Painted, Used, Count
<1> HIDE DEF used
<1>6. Cardinality(used) = Least(Count(g, c), Count(s, c))
  BY <1>3, <1>4, <1>5 DEF Least
<1> QED
  BY <1>6 DEF used

\* The places taken, added up colour by colour.
LEMMA TakenInAll ==
    ASSUME NEW g \in Codes, NEW s \in Codes, NEW p, Sound(g, s, NbPIECE, p)
    PROVE  Cardinality(Used(p.memo)) = InCommon(g, s)
<1> DEFINE U == Used(p.memo)
           Of(T) == {i \in U : s[i] \in T}
           some(T) == CHOOSE x \in T : TRUE
           add(f, T) == IF T = {} THEN 0
                        ELSE Least(Count(g, some(T)), Count(s, some(T))) + f[T \ {some(T)}]
           sum == CHOOSE f : f = [T \in SUBSET Colors |-> add(f, T)]
           W == [T \in SUBSET Colors |-> Cardinality(Of(T))]
           P == {n \in Nat : \A T \in SUBSET Colors : Cardinality(T) = n => sum[T] = W[T]}
<1>1. U \subseteq Pieces /\ \A T : IsFiniteSet(Of(T)) /\ Cardinality(Of(T)) \in Nat
  BY FinitePieces DEF Used
<1>2. \A i \in U : s[i] \in Colors
  BY <1>1 DEF Codes
<1> HIDE DEF U
<1>3. ASSUME NEW T \in SUBSET Colors PROVE W[T] = add(W, T)
  <2>1. CASE T = {}
    <3>1. Of(T) = {}
      BY <2>1
    <3> QED
      BY <2>1, <3>1, FS_EmptySet
  <2>2. CASE T # {}
    <3> DEFINE x == some(T)
    <3>1. x \in T
      BY <2>2
    <3> HIDE DEF x
    <3>2. Of(T) = Of(T \ {x}) \cup Of({x}) /\ Of(T \ {x}) \cap Of({x}) = {}
      BY <3>1
    <3>3. Of({x}) = Painted(U, s, x)
      BY DEF Painted
    <3> HIDE DEF Of
    <3>4. Cardinality(Of(T)) = Cardinality(Of(T \ {x})) + Cardinality(Of({x}))
      <4>1. Cardinality(Of(T)) = Cardinality(Of(T \ {x})) + Cardinality(Of({x})) - Cardinality({})
        BY <1>1, <3>2, FS_Union
      <4> QED
        BY <1>1, <4>1, FS_EmptySet
    <3>5. Cardinality(Of({x})) = Least(Count(g, x), Count(s, x))
      BY <3>1, <3>3, TakenOfColour DEF U
    <3>6. W[T] = Cardinality(Of(T)) /\ W[T \ {x}] = Cardinality(Of(T \ {x}))
      OBVIOUS
    <3> HIDE DEF W
    <3>7. W[T] = Least(Count(g, x), Count(s, x)) + W[T \ {x}]
      BY <1>1, <3>4, <3>5, <3>6
    <3> QED
      BY <2>2, <3>7 DEF x
  <2> QED
    BY <2>1, <2>2
<1>4. sum = [T \in SUBSET Colors |-> add(sum, T)]
  <2>1. W = [T \in SUBSET Colors |-> add(W, T)]
    <3> HIDE DEF add
    <3> QED
      BY <1>3
  <2> HIDE DEF W, add
  <2> QED
    BY <2>1
<1>5. InCommon(g, s) = sum[Colors]
  BY DEF InCommon, MapThenSumSet, MapThenFoldSet
<1> HIDE DEF sum
<1>6. 0 \in P
  <2>1. ASSUME NEW T \in SUBSET Colors, Cardinality(T) = 0 PROVE sum[T] = W[T]
    <3>1. T = {}
      <4>1. IsFiniteSet(T)
        BY MastermindAssumption, FS_Subset
      <4> QED
        BY <2>1, <4>1, FS_EmptySet
    <3>2. sum[T] = add(sum, T) /\ W[T] = add(W, T)
      BY <1>3, <1>4
    <3> HIDE DEF W
    <3> QED
      BY <3>1, <3>2
  <2> QED
    BY <2>1
<1>7. ASSUME NEW n \in Nat, n \in P PROVE n + 1 \in P
  <2>1. ASSUME NEW T \in SUBSET Colors, Cardinality(T) = n + 1 PROVE sum[T] = W[T]
    <3> DEFINE x == some(T)
    <3>1. IsFiniteSet(T) /\ T # {}
      BY <2>1, MastermindAssumption, FS_Subset, FS_EmptySet
    <3>2. x \in T
      BY <3>1
    <3>3. sum[T] = add(sum, T) /\ W[T] = add(W, T)
      BY <1>3, <1>4
    <3>4. Cardinality(T \ {x}) = n
      <4> HIDE DEF x
      <4>1. Cardinality(T \ {x}) = IF x \in T THEN Cardinality(T) - 1 ELSE Cardinality(T)
        BY <3>1, FS_RemoveElement, Zenon
      <4> QED
        BY <2>1, <3>2, <4>1
    <3>5. sum[T \ {x}] = W[T \ {x}]
      <4> HIDE DEF W, x
      <4> QED
        BY <1>7, <3>4
    <3> HIDE DEF W
    <3> QED
      BY <3>1, <3>3, <3>5
  <2> HIDE DEF W
  <2> QED
    BY <2>1
<1>8. Cardinality(Colors) \in P
  <2>1. Cardinality(Colors) \in Nat
    BY MastermindAssumption, FS_CardinalityType
  <2> HIDE DEF P
  <2> QED
    BY <1>6, <1>7, <2>1, Induction
<1>9. sum[Colors] = W[Colors]
  <2> HIDE DEF W
  <2> QED
    BY <1>8
<1>10. W[Colors] = Cardinality(U)
  <2>1. Of(Colors) = U
    BY <1>2
  <2> QED
    BY <2>1
<1> QED
  BY <1>5, <1>9, <1>10 DEF U

\* What mm_algo_mastermind() answers is what the rules say of the two codes.
LEMMA AlgoIsRight ==
    ASSUME NEW g \in Codes, NEW s \in Codes
    PROVE  /\ BienPlace(g, s) \in 0..NbPIECE /\ MalPlace(g, s) \in 0..NbPIECE
           /\ BienPlace(g, s) + MalPlace(g, s) = InCommon(g, s)
<1>1. PICK p : Sound(g, s, NbPIECE, p) /\ MalPlace(g, s) = p.mal
  BY MalPlaceIs
<1>2. p.mal \in Nat /\ Cardinality(Used(p.memo)) = BienPlace(g, s) + p.mal
  BY <1>1 DEF Sound
<1>3. Cardinality(Used(p.memo)) = InCommon(g, s)
  BY <1>1, TakenInAll
<1>4. Cardinality(Used(p.memo)) \in Nat /\ Cardinality(Used(p.memo)) <= NbPIECE
  BY FinitePieces DEF Used
<1>5. BienPlace(g, s) \in Nat
  BY FinitePieces DEF BienPlace
<1> QED
  BY <1>1, <1>2, <1>3, <1>4, <1>5, MastermindAssumption

\* All pieces are well placed in the code itself, and in no other.
LEMMA AllPlaced ==
    ASSUME NEW g \in Codes, NEW s \in Codes
    PROVE  BienPlace(g, s) = NbPIECE <=> g = s
<1> DEFINE same == {i \in Pieces : g[i] = s[i]}
<1>1. IsFiniteSet(Pieces) /\ Cardinality(Pieces) = NbPIECE
  BY FinitePieces
<1>2. same = Pieces <=> Cardinality(same) = NbPIECE
  <2>1. same \subseteq Pieces
    OBVIOUS
  <2>2. Cardinality(same) = Cardinality(Pieces) => same = Pieces
    BY <1>1, <2>1, FS_Subset
  <2> QED
    BY <1>1, <2>2
<1>3. same = Pieces <=> g = s
  BY DEF Codes
<1> QED
  BY <1>2, <1>3 DEF BienPlace

\* A party that ends counts one more victory or one more defeat.
LEMMA CountedOne ==
    ASSUME NEW won, scores \in Score, scores.win + scores.lost < MaxParties
    PROVE  /\ Counted(won) \in Score
           /\ Counted(won).win + Counted(won).lost = scores.win + scores.lost + 1
<1>1. MaxParties \in Nat
  BY MastermindAssumption
<1>2. CASE won
  <2>1. Counted(won) = [scores EXCEPT !.win = @ + 1]
    BY <1>2 DEF Counted
  <2> QED
    BY <1>1, <2>1 DEF Score
<1>3. CASE ~won
  <2>1. Counted(won) = [scores EXCEPT !.lost = @ + 1]
    BY <1>3 DEF Counted
  <2> QED
    BY <1>1, <2>1 DEF Score
<1> QED
  BY <1>2, <1>3

\* The first party.
LEMMA InitIInv == Init => IInv
<1> SUFFICES ASSUME Init PROVE IInv
  OBVIOUS
<1>1. phase = "guess" /\ secret \in Codes /\ guess = NoCode /\ ~victoire
  BY Zenon DEF Init
<1>2. /\ tentatives = 1 /\ essais = 0 /\ scores = [win |-> 0, lost |-> 0, draw |-> 0]
      /\ scores \in Score /\ scores.win + scores.lost = 0
  BY MastermindAssumption DEF Init, Score
<1>3. Types
  <2>1. bien = 0 /\ mal = 0
    BY DEF Init
  <2> QED
    BY <1>1, <1>2, <2>1, MastermindAssumption DEF Types
<1>4. Attempts /\ PartyIsDecided /\ AnswerIsRight
  BY <1>1, <1>2, MastermindAssumption DEF Attempts, PartyIsDecided, AnswerIsRight
<1>5. Flags
  BY Zenon DEF Init, Flags
<1> QED
  BY <1>3, <1>4, <1>5 DEF IInv

\* A guess numbers the next one, or decides the party.
LEMMA GuessKeeps ==
    ASSUME IInv, NEW g \in Codes, Guess(g)
    PROVE  IInv'
<1>1. /\ phase = "guess" /\ ~victoire /\ tentatives = essais + 1
      /\ secret' = secret /\ secret \in Codes /\ guess' = g
      /\ scores \in Score /\ scores.win + scores.lost < MaxParties
      /\ tentatives \in 1..(MaxTENTATIVE + 1) /\ essais \in 0..(MaxTENTATIVE + 1)
  BY DEF IInv, Types, Attempts, Guess
<1>2. victoire' <=> guess' = secret'
  <2>1. victoire' = (victoire \/ bien' = NbPIECE) /\ bien' = BienPlace(g, secret)
    BY DEF Guess
  <2> QED
    BY <1>1, <2>1, AllPlaced
<1>3. essais' = tentatives
  <2>1. essais' = Least(tentatives, MaxTENTATIVE + 1)
    BY <1>1 DEF Guess
  <2> QED
    BY <1>1, <2>1, MastermindAssumption DEF Least
<1>4. bien' \in 0..NbPIECE /\ mal' \in 0..NbPIECE /\ AnswerIsRight'
  <2>1. bien' = BienPlace(g, secret) /\ mal' = MalPlace(g, secret)
    BY DEF Guess
  <2>2. bien' = Cardinality({i \in Pieces : guess'[i] = secret'[i]})
    BY <1>1, <2>1 DEF BienPlace
  <2>3. bien' + mal' = InCommon(guess', secret')
    BY <1>1, <2>1, AlgoIsRight
  <2>4. AnswerIsRight'
    BY <2>2, <2>3 DEF AnswerIsRight
  <2> QED
    BY <1>1, <2>1, <2>4, AlgoIsRight
<1>5. Flags'
  <2>1. victoire' = (victoire \/ bien' = NbPIECE) /\ eof' = eof /\ asked' = asked
    BY DEF Guess
  <2> QED
    BY <2>1, Zenon DEF IInv, Flags
<1>6. CASE Over
  <2>1. phase' = "again" /\ scores' = Counted(victoire') /\ tentatives' = tentatives
    BY <1>6 DEF Guess
  <2>2. scores' \in Score /\ scores'.win + scores'.lost = scores.win + scores.lost + 1
    BY <1>1, <2>1, CountedOne
  <2>3. scores'.win + scores'.lost <= MaxParties
    BY <1>1, <2>2, MastermindAssumption DEF Score
  <2>4. Types'
    BY <1>1, <1>3, <1>4, <2>1, <2>2, <2>3 DEF Types, Score
  <2>5. ~victoire' => essais' = MaxTENTATIVE + 1
    BY <1>1, <1>3, <1>6, MastermindAssumption DEF Over
  <2> QED
    BY <1>2, <1>4, <1>5, <2>1, <2>4, <2>5 DEF IInv, Attempts, PartyIsDecided
<1>7. CASE ~Over
  <2>1. /\ phase' = "guess" /\ scores' = scores /\ tentatives' = tentatives + 1
        /\ ~victoire' /\ tentatives <= MaxTENTATIVE
    BY <1>1, <1>7, MastermindAssumption DEF Guess, Over, NextAttempt
  <2>2. Types'
    BY <1>1, <1>3, <1>4, <2>1, MastermindAssumption DEF Types, Score
  <2> QED
    BY <1>1, <1>3, <1>4, <1>5, <2>1, <2>2 DEF IInv, Attempts, PartyIsDecided
<1> QED
  BY <1>6, <1>7

\* A step keeps the invariant.
LEMMA StepIInv == IInv /\ [Next]_vars => IInv'
<1> SUFFICES ASSUME IInv, [Next]_vars PROVE IInv'
  OBVIOUS
<1>1. Types /\ Flags /\ Attempts /\ PartyIsDecided /\ AnswerIsRight
  BY DEF IInv
<1>2. ASSUME UNCHANGED <<phase, party, scores>> PROVE (Types /\ Attempts /\ PartyIsDecided)'
  BY <1>1, <1>2 DEF party, Types, Attempts, PartyIsDecided
<1>3. ASSUME UNCHANGED party PROVE AnswerIsRight'
  BY <1>1, <1>3 DEF party, AnswerIsRight
<1>4. CASE InvalidGuess
  <2>1. Flags'
    BY <1>4, <1>1, Zenon DEF InvalidGuess, party, Flags
  <2> QED
    BY <1>4, <1>2, <1>3, <2>1 DEF InvalidGuess, IInv
<1>5. ASSUME NEW g \in Codes, Guess(g) PROVE IInv'
  BY <1>5, GuessKeeps
<1>6. CASE Yes
  <2>1. /\ phase' = "guess" /\ secret' \in Codes /\ guess' = NoCode /\ ~victoire'
        /\ tentatives' = 1 /\ essais' = 0 /\ scores' = scores /\ bien' = 0 /\ mal' = 0
        /\ scores.win + scores.lost < MaxParties
    BY <1>6 DEF Yes
  <2>2. Types' /\ Attempts'
    BY <1>1, <2>1, MastermindAssumption DEF Types, Attempts
  <2>3. PartyIsDecided' /\ AnswerIsRight'
    BY <2>1 DEF PartyIsDecided, AnswerIsRight
  <2>4. Flags'
    BY <1>6, <1>1, Zenon DEF Yes, Answer, Flags
  <2> QED
    BY <2>2, <2>3, <2>4 DEF IInv
<1>7. CASE No
  <2>1. Flags'
    BY <1>7, <1>1, Zenon DEF No, party, Answer, Flags
  <2>2. (Types /\ Attempts /\ PartyIsDecided)'
    BY <1>7, <1>1 DEF No, party, Types, Attempts, PartyIsDecided
  <2>3. UNCHANGED party
    BY <1>7 DEF No
  <2> QED
    BY <1>3, <2>1, <2>2, <2>3 DEF IInv
<1>8. CASE AskAgain
  <2>1. Flags'
    BY <1>8, <1>1, Zenon DEF AskAgain, party, Answer, Flags
  <2> QED
    BY <1>8, <1>2, <1>3, <2>1 DEF AskAgain, IInv
<1>9. CASE UNCHANGED vars
  <2>1. Flags'
    BY <1>9, <1>1, Zenon DEF vars, party, Flags
  <2> QED
    BY <1>9, <1>2, <1>3, <2>1 DEF vars, IInv
<1> QED
  BY <1>4, <1>5, <1>6, <1>7, <1>8, <1>9 DEF Next

\* In every party tentatives numbers the guesses, and the end is decided by the
\* last one (game_mastermind.c:132-180).
THEOREM Invariance == Spec => []IInv
  BY InitIInv, StepIInv, PTL DEF Spec

\* Every variable keeps its type (game_mastermind.c:115-180).
THEOREM TypeCorrect == Spec => []TypeOK
<1>1. IInv => TypeOK
  <2> SUFFICES ASSUME IInv PROVE TypeOK
    OBVIOUS
  <2>1. Types /\ Flags
    BY DEF IInv
  <2>2. scores \in [win: 0..MaxParties, lost: 0..MaxParties, draw: {0}]
    BY <2>1 DEF Types, Score
  <2> QED
    BY <2>1, <2>2, Zenon DEF Types, Flags, TypeOK
<1> QED
  BY <1>1, Invariance, PTL

\* The two loops over one array of marks answer what the rules of the game say,
\* for codes of every length over every set of colours (game_mastermind.c:222-268).
THEOREM AnswersRight == Spec => []AnswerIsRight
<1>1. IInv => AnswerIsRight
  BY DEF IInv
<1> QED
  BY <1>1, Invariance, PTL

\* A party is won exactly when the last guess is the code, and lost after one
\* guess more than MaxTENTATIVE (game_mastermind.c:152-180).
THEOREM PartiesDecided == Spec => []PartyIsDecided
<1>1. IInv => PartyIsDecided
  BY DEF IInv
<1> QED
  BY <1>1, Invariance, PTL

\* Every party counts once in the score returned, however many are played.
THEOREM GameImplemented == Spec => ImplementsGame
<1> DEFINE status == CASE phase = "guess" -> "playing"
                       [] phase = "again" -> "between"
                       [] phase = "returned" -> "returned"
<1>1. Init => Promise!Init
  BY DEF Init, Promise!Init
<1>2. IInv /\ [Next]_vars => [Promise!Next]_<<status, scores>>
  <2> SUFFICES ASSUME IInv, [Next]_vars
               PROVE  Promise!Next \/ UNCHANGED <<status, scores>>
    OBVIOUS
  <2>1. CASE InvalidGuess
    BY <2>1 DEF InvalidGuess
  <2>2. ASSUME NEW g \in Codes, Guess(g) PROVE Promise!EndParty \/ UNCHANGED <<status, scores>>
    <3>1. CASE Over
      <4>1. phase = "guess" /\ phase' = "again" /\ scores' = Counted(victoire')
        BY <2>2, <3>1 DEF Guess
      <4>2. \E r \in {"win", "lost", "draw"} : scores' = [scores EXCEPT ![r] = @ + 1]
        BY <4>1 DEF Counted
      <4> QED
        BY <4>1, <4>2 DEF Promise!EndParty
    <3>2. CASE ~Over
      BY <2>2, <3>2 DEF Guess
    <3> QED
      BY <3>1, <3>2
  <2>3. CASE Yes
    <3>1. phase = "again" /\ phase' = "guess" /\ UNCHANGED scores
      BY <2>3 DEF Yes
    <3> QED
      BY <3>1 DEF Promise!PlayAgain, Promise!Next
  <2>4. CASE No
    BY <2>4 DEF No, Promise!Return, Promise!Next
  <2>5. CASE AskAgain
    BY <2>5 DEF AskAgain
  <2>6. CASE UNCHANGED vars
    BY <2>6 DEF vars
  <2> QED
    BY <2>1, <2>2, <2>3, <2>4, <2>5, <2>6 DEF Next, Promise!Next
<1> QED
  BY <1>1, <1>2, Invariance, PTL DEF Spec, Promise!Spec, ImplementsGame
=============================================================================
