--------------------------- MODULE PlayersProofs ---------------------------
(***************************************************************************)
(* Proofs about the lists and vectors of players, for every set of names   *)
(* and games, every length and every number of allocations that fail.      *)
(***************************************************************************)
EXTENDS Players, FiniteSetTheorems, TLAPS

\* While a list is converted there are a list and a vector.
Converts == converting => list # Absent /\ vector # Absent

IInv == TypeOK /\ Converts /\ HeapBalance

Counts == [names: Int, maps: Int, data: Int]

-----------------------------------------------------------------------------
(* What the operators return *)

\* Some of the games are a number of them.
LEMMA FewerGames ==
    ASSUME NEW g \in SUBSET Games
    PROVE  Cardinality(g) \in Nat
<1>1. IsFiniteSet(g)
  BY PlayersAssumption, FS_Subset
<1> QED
  BY <1>1, FS_CardinalityType

\* A copy is of some of the games, and one that fails has one fault.
LEMMA CopiesAre ==
    ASSUME NEW games \in SUBSET Games, NEW c \in Copies(games)
    PROVE  /\ c.games \in SUBSET Games /\ c.faults \in Nat /\ c.maps \in {1, 2}
           /\ c.ok => c.maps = 1
           /\ ~c.ok => c.faults = 1
<1>1. CASE c = [ok |-> TRUE, games |-> games, maps |-> 1, faults |-> 0]
  BY <1>1
<1>2. CASE c \in [ok: {FALSE}, games: {{}}, maps: IF games = {} THEN {1} ELSE {1, 2}, faults: {1}]
  <2>1. ~c.ok /\ c.games = {} /\ c.faults = 1 /\ c.maps \in {1, 2}
    BY <1>2
  <2> QED
    BY <2>1
<1>3. ASSUME NEW g \in SUBSET games,
             c = [ok |-> TRUE, games |-> g, maps |-> 1, faults |-> Cardinality(games \ g)]
      PROVE  /\ c.games \in SUBSET Games /\ c.faults \in Nat /\ c.maps = 1 /\ c.ok
  <2>1. Cardinality(games \ g) \in Nat
    BY FewerGames
  <2> QED
    BY <1>3, <2>1
<1>4. \/ c = [ok |-> TRUE, games |-> games, maps |-> 1, faults |-> 0]
      \/ c \in [ok: {FALSE}, games: {{}}, maps: IF games = {} THEN {1} ELSE {1, 2}, faults: {1}]
      \/ \E g \in SUBSET games :
            c = [ok |-> TRUE, games |-> g, maps |-> 1, faults |-> Cardinality(games \ g)]
  BY ZenonT(30) DEF Copies
<1> QED
  BY <1>1, <1>2, <1>3, <1>4

\* A value is a name, a map and a data, or at least one of them failed.
LEMMA ValuesAre ==
    ASSUME NEW j, j.games \in SUBSET Games, NEW v \in Values(j)
    PROVE  /\ v.games \in SUBSET Games /\ v.faults \in Nat
           /\ v.ok => v.mem = Value
           /\ ~v.ok => v.faults = 1 /\ v.mem \in [names: 0..1, maps: 0..2, data: {0}]
<1>1. ASSUME NEW c \in Copies(j.games),
             v = [ok |-> c.ok, games |-> c.games, faults |-> c.faults,
                  mem |-> IF c.ok THEN Value ELSE Mem(1, c.maps, 0)]
      PROVE  /\ v.games \in SUBSET Games /\ v.faults \in Nat
             /\ v.ok => v.mem = Value
             /\ ~v.ok => v.faults = 1 /\ v.mem \in [names: 0..1, maps: 0..2, data: {0}]
  <2>1. /\ c.games \in SUBSET Games /\ c.faults \in Nat /\ c.maps \in {1, 2}
        /\ ~c.ok => c.faults = 1
    BY CopiesAre
  <2>2. /\ v.ok = c.ok /\ v.games = c.games /\ v.faults = c.faults
        /\ c.ok => v.mem = Value
        /\ ~c.ok => v.mem = Mem(1, c.maps, 0)
    BY <1>1
  <2>3. Mem(1, c.maps, 0) \in [names: 0..1, maps: 0..2, data: {0}]
    BY <2>1 DEF Mem
  <2> QED
    BY <2>1, <2>2, <2>3
<1>2. CASE v = [ok |-> FALSE, games |-> {}, faults |-> 1, mem |-> None]
  <2>1. None \in [names: 0..1, maps: 0..2, data: {0}]
    BY DEF None, Mem
  <2>2. ~v.ok /\ v.games = {} /\ v.faults = 1 /\ v.mem = None
    BY <1>2
  <2> QED
    BY <2>1, <2>2
<1> QED
  BY <1>1, <1>2 DEF Values

\* What a joueur owns.
LEMMA HandOwns ==
    /\ OwnedBy(NoHand) = Mem(0, 0, 0)
    /\ Nobody \in Joueur /\ OwnedBy(Nobody) = Mem(0, 1, 0)
    /\ \A n \in Names, g \in SUBSET Games :
          LET j == [valid |-> TRUE, who |-> n, games |-> g]
          IN  j \in Joueur /\ OwnedBy(j) = Mem(1, 1, 0)
<1>1. OwnedBy(NoHand) = Mem(0, 0, 0)
  BY DEF OwnedBy, None
<1>2. Nobody \in Joueur
  BY DEF Nobody, Joueur
<1>3. Nobody # NoHand /\ ~Nobody.valid
  BY <1>2, PlayersAssumption DEF Nobody
<1>4. OwnedBy(Nobody) = Mem(0, 1, 0)
  BY <1>3 DEF OwnedBy
<1>5. ASSUME NEW n \in Names, NEW g \in SUBSET Games, NEW j,
             j = [valid |-> TRUE, who |-> n, games |-> g]
      PROVE  j \in Joueur /\ OwnedBy(j) = Mem(1, 1, 0)
  <2>1. j \in Joueur
    BY <1>5 DEF Joueur
  <2>2. j # NoHand /\ j.valid
    BY <1>5, <2>1, PlayersAssumption
  <2> QED
    BY <2>1, <2>2 DEF OwnedBy
<1> QED
  BY <1>1, <1>2, <1>4, <1>5

\* A joueur owns a map, and a valid one a name.
LEMMA JoueurOwns ==
    ASSUME NEW j \in Joueur \cup {NoHand}
    PROVE  /\ OwnedBy(j) \in Counts
           /\ j # NoHand /\ j.valid => /\ j.who \in Names /\ j.games \in SUBSET Games
                                       /\ OwnedBy(j) = Mem(1, 1, 0)
           /\ OwnedBy(j) \in {Mem(0, 0, 0), Mem(0, 1, 0), Mem(1, 1, 0)}
<1>1. CASE j = NoHand
  BY <1>1 DEF OwnedBy, None, Mem, Counts
<1>2. CASE j \in [valid: {TRUE}, who: Names, games: SUBSET Games] /\ j # NoHand
  <2>1. j.valid /\ j.who \in Names /\ j.games \in SUBSET Games
    BY <1>2
  <2> QED
    BY <1>2, <2>1 DEF OwnedBy, Mem, Counts
<1>3. CASE j \in [valid: {FALSE}] /\ j # NoHand
  <2>1. ~j.valid
    BY <1>3
  <2> QED
    BY <1>3, <2>1 DEF OwnedBy, Mem, Counts
<1> QED
  BY <1>1, <1>2, <1>3 DEF Joueur

-----------------------------------------------------------------------------
(* The balance *)

\* The values of a sequence, or of none.
NbIn(s) == IF s = Absent THEN 0 ELSE Len(s)

\* A list or a vector keeps its sequence and its number of values.
LEMMA NbInSeq ==
    /\ NbIn(Absent) = 0 /\ <<>> \in Seq(Stored) /\ NbIn(<<>>) = 0
    /\ \A s \in Seq(Stored) : s # Absent /\ NbIn(s) = Len(s) /\ Len(s) \in Nat
    /\ \A s \in Seq(Stored), e \in Stored :
          Append(s, e) \in Seq(Stored) /\ Len(Append(s, e)) = Len(s) + 1
    /\ \A s \in Seq(Stored) :
          s # <<>> => Tail(s) \in Seq(Stored) /\ Len(Tail(s)) = Len(s) - 1
                      /\ Head(s) \in Stored /\ Len(s) > 0
  BY PlayersAssumption DEF NbIn

\* What a list, a vector and a joueur own, counted.
OwnedFor(l, v, h) == Plus(Times(NbIn(l) + NbIn(v), Value), OwnedBy(h))

LEMMA OwnedIs ==
    ASSUME NEW l \in Seq(Stored) \cup {Absent}, NEW v \in Seq(Stored) \cup {Absent},
           NEW h \in Joueur \cup {NoHand}
    PROVE  /\ NbIn(l) \in Nat /\ NbIn(v) \in Nat
           /\ OwnedFor(l, v, h).names = NbIn(l) + NbIn(v) + OwnedBy(h).names
           /\ OwnedFor(l, v, h).maps = NbIn(l) + NbIn(v) + OwnedBy(h).maps
           /\ OwnedFor(l, v, h).data = NbIn(l) + NbIn(v) + OwnedBy(h).data
           /\ OwnedBy(h).names \in Nat /\ OwnedBy(h).maps \in Nat /\ OwnedBy(h).data \in Nat
<1> DEFINE k == NbIn(l) + NbIn(v)
<1>1. NbIn(l) \in Nat /\ NbIn(v) \in Nat
  BY NbInSeq
<1>2. Times(k, Value) = Mem(k, k, k)
  BY <1>1 DEF Times, Value, Mem
<1>3. OwnedBy(h) \in [names: {0, 1}, maps: {0, 1}, data: {0}]
  BY JoueurOwns DEF Mem
<1>4. OwnedFor(l, v, h) = Mem(k + OwnedBy(h).names, k + OwnedBy(h).maps, k + OwnedBy(h).data)
  BY <1>2 DEF OwnedFor, Plus, Mem
<1> QED
  BY <1>1, <1>3, <1>4 DEF Mem

\* What is lost of one kind, before and after a step.
LEMMA Carry ==
    ASSUME NEW m \in Int, NEW d \in Int, NEW l \in Int, NEW v \in Int, NEW h \in Int,
           NEW l2 \in Nat, NEW v2 \in Nat, NEW h2 \in Nat, NEW F \in Int, NEW N \in Int,
           m - (l + v + h) \in 0..F,
           d - (l2 + v2 - l - v) - h2 + h \in 0..N
    PROVE  /\ (m + d) - (l2 + v2 + h2) \in 0..(F + N)
           /\ m + d \in Nat
  OBVIOUS

\* A step that gains d keeps the balance, when what it gains more than it takes
\* into ownership is lost by its n faults.
LEMMA Balanced ==
    ASSUME IInv, fate = "ok", NEW n \in Nat, NEW d \in Counts,
           mem' = Plus(mem, d), faults' = faults + n,
           list' \in Seq(Stored) \cup {Absent}, vector' \in Seq(Stored) \cup {Absent},
           hand' \in Joueur \cup {NoHand},
           LET k == NbIn(list') + NbIn(vector') - NbIn(list) - NbIn(vector)
               old == OwnedBy(hand)
               new == OwnedBy(hand')
           IN  /\ d.names - k - new.names + old.names \in 0..(2 * n)
               /\ d.maps - k - new.maps + old.maps \in 0..(3 * n)
               /\ d.data - k - new.data + old.data \in 0..n
    PROVE  HeapBalance' /\ mem' \in [names: Nat, maps: Nat, data: Nat]
<1> DEFINE l == NbIn(list)   v == NbIn(vector)   h == OwnedBy(hand)
           l2 == NbIn(list') v2 == NbIn(vector') h2 == OwnedBy(hand')
           m == mem          m2 == mem'          f == faults
<1>1. /\ mem \in [names: Nat, maps: Nat, data: Nat] /\ faults \in Nat
      /\ list \in Seq(Stored) \cup {Absent} /\ vector \in Seq(Stored) \cup {Absent}
      /\ hand \in Joueur \cup {NoHand}
  BY PlayersAssumption DEF IInv, TypeOK
<1>2. /\ m.names \in Int /\ m.maps \in Int /\ m.data \in Int /\ f \in Nat
      /\ d.names \in Int /\ d.maps \in Int /\ d.data \in Int
  BY <1>1 DEF Counts
<1>3. /\ l \in Nat /\ v \in Nat /\ h.names \in Nat /\ h.maps \in Nat /\ h.data \in Nat
      /\ Owned.names = l + v + h.names /\ Owned.maps = l + v + h.maps
      /\ Owned.data = l + v + h.data
  <2>1. Owned = OwnedFor(list, vector, hand)
    BY DEF Owned, OwnedFor, NbValues, NbIn
  <2> QED
    BY <1>1, <2>1, OwnedIs
<1>4. /\ l2 \in Nat /\ v2 \in Nat /\ h2.names \in Nat /\ h2.maps \in Nat /\ h2.data \in Nat
      /\ Owned'.names = l2 + v2 + h2.names /\ Owned'.maps = l2 + v2 + h2.maps
      /\ Owned'.data = l2 + v2 + h2.data
  <2>1. Owned' = OwnedFor(list', vector', hand')
    BY DEF Owned, OwnedFor, NbValues, NbIn
  <2> QED
    BY <2>1, OwnedIs
<1>5. /\ m2 = Mem(m.names + d.names, m.maps + d.maps, m.data + d.data)
      /\ m2.names = m.names + d.names /\ m2.maps = m.maps + d.maps
      /\ m2.data = m.data + d.data
  BY DEF Plus, Mem
<1>6. /\ m.names - (l + v + h.names) \in 0..(2 * f)
      /\ m.maps - (l + v + h.maps) \in 0..(3 * f)
      /\ m.data - (l + v + h.data) \in 0..f
  BY <1>3 DEF IInv, HeapBalance
<1>7. /\ d.names - (l2 + v2 - l - v) - h2.names + h.names \in 0..(2 * n)
      /\ d.maps - (l2 + v2 - l - v) - h2.maps + h.maps \in 0..(3 * n)
      /\ d.data - (l2 + v2 - l - v) - h2.data + h.data \in 0..n
  OBVIOUS
<1> HIDE DEF l, v, h, l2, v2, h2, m, m2, f
<1>8. /\ (m.names + d.names) - (l2 + v2 + h2.names) \in 0..(2 * f + 2 * n)
      /\ (m.maps + d.maps) - (l2 + v2 + h2.maps) \in 0..(3 * f + 3 * n)
      /\ (m.data + d.data) - (l2 + v2 + h2.data) \in 0..(f + n)
      /\ m.names + d.names \in Nat /\ m.maps + d.maps \in Nat /\ m.data + d.data \in Nat
  <2>1. 2 * f \in Int /\ 3 * f \in Int /\ 2 * n \in Int /\ 3 * n \in Int /\ f \in Int /\ n \in Int
    BY <1>2
  <2>2. l \in Int /\ v \in Int /\ h.names \in Int /\ h.maps \in Int /\ h.data \in Int
    BY <1>3
  <2>3. l2 \in Nat /\ v2 \in Nat /\ h2.names \in Nat /\ h2.maps \in Nat /\ h2.data \in Nat
    BY <1>4
  <2>4. /\ (m.names + d.names) - (l2 + v2 + h2.names) \in 0..(2 * f + 2 * n)
        /\ m.names + d.names \in Nat
    BY <1>2, <1>6, <1>7, <2>1, <2>2, <2>3, Carry
  <2>5. /\ (m.maps + d.maps) - (l2 + v2 + h2.maps) \in 0..(3 * f + 3 * n)
        /\ m.maps + d.maps \in Nat
    BY <1>2, <1>6, <1>7, <2>1, <2>2, <2>3, Carry
  <2>6. /\ (m.data + d.data) - (l2 + v2 + h2.data) \in 0..(f + n)
        /\ m.data + d.data \in Nat
    BY <1>2, <1>6, <1>7, <2>1, <2>2, <2>3, Carry
  <2> QED
    BY <2>4, <2>5, <2>6
<1>9. m2.names \in Nat /\ m2.maps \in Nat /\ m2.data \in Nat
  BY <1>5, <1>8
<1>10. HeapBalance'
  <2>1. 2 * (f + n) = 2 * f + 2 * n /\ 3 * (f + n) = 3 * f + 3 * n
    BY <1>2
  <2>2. /\ m2.names - Owned'.names \in 0..(2 * (f + n))
        /\ m2.maps - Owned'.maps \in 0..(3 * (f + n))
        /\ m2.data - Owned'.data \in 0..(f + n)
    BY <1>4, <1>5, <1>8, <2>1
  <2> QED
    BY <2>2 DEF HeapBalance, m2, f
<1>11. mem' \in [names: Nat, maps: Nat, data: Nat]
  BY <1>5, <1>9 DEF m2, Mem
<1> QED
  BY <1>10, <1>11

-----------------------------------------------------------------------------
(* The steps *)

\* The types of what is not counted.
Shapes ==
    /\ list \in Seq(Stored) \cup {Absent} /\ vector \in Seq(Stored) \cup {Absent}
    /\ len \in Nat /\ (list # Absent => Len(list) <= len)
    /\ hand \in Joueur \cup {NoHand}
    /\ converting \in BOOLEAN /\ debug \in BOOLEAN /\ Converts
    /\ fate \in {"ok", "aborted", "undefined"}

\* A step allocates x names, y maps and z data more than it frees, has n faults,
\* adds k values to the list and the vector, and a names and b maps to what the
\* caller owns: what is left over was lost by its faults.
Accounts(x, y, z, n, k, a, b) ==
    /\ mem' = Plus(mem, Mem(x, y, z)) /\ faults' = faults + n /\ faults' <= MaxFaults
    /\ NbIn(list') + NbIn(vector') = NbIn(list) + NbIn(vector) + k
    /\ OwnedBy(hand').names = OwnedBy(hand).names + a
    /\ OwnedBy(hand').maps = OwnedBy(hand).maps + b
    /\ x - k - a \in 0..(2 * n) /\ y - k - b \in 0..(3 * n) /\ z - k \in 0..n

LEMMA Kept ==
    ASSUME IInv, fate = "ok", Shapes', NEW x \in Int, NEW y \in Int, NEW z \in Int,
           NEW n \in Nat, NEW k \in Int, NEW a \in Int, NEW b \in Int,
           Accounts(x, y, z, n, k, a, b)
    PROVE  IInv'
<1> DEFINE d == Mem(x, y, z)   l == NbIn(list)   v == NbIn(vector)   h == OwnedBy(hand)
           l2 == NbIn(list')   v2 == NbIn(vector')   h2 == OwnedBy(hand')
<1>1. d \in Counts /\ d.names = x /\ d.maps = y /\ d.data = z
  BY DEF Mem, Counts
<1>2. /\ l \in Nat /\ v \in Nat /\ l2 \in Nat /\ v2 \in Nat
      /\ h.names \in Nat /\ h.maps \in Nat /\ h2.names \in Nat /\ h2.maps \in Nat
      /\ h.data = 0 /\ h2.data = 0
  <2>1. hand \in Joueur \cup {NoHand} /\ hand' \in Joueur \cup {NoHand}
    BY DEF IInv, TypeOK, Shapes
  <2>2. /\ list \in Seq(Stored) \cup {Absent} /\ vector \in Seq(Stored) \cup {Absent}
        /\ list' \in Seq(Stored) \cup {Absent} /\ vector' \in Seq(Stored) \cup {Absent}
    BY DEF IInv, TypeOK, Shapes
  <2>3. h.names \in Nat /\ h.maps \in Nat /\ h.data = 0
    BY <2>1, JoueurOwns DEF Mem
  <2>4. h2.names \in Nat /\ h2.maps \in Nat /\ h2.data = 0
    BY <2>1, JoueurOwns DEF Mem
  <2>5. l \in Nat /\ v \in Nat /\ l2 \in Nat /\ v2 \in Nat
    BY <2>2, NbInSeq
  <2> QED
    BY <2>3, <2>4, <2>5
<1>3. /\ l2 + v2 - l - v = k /\ h2.names - h.names = a /\ h2.maps - h.maps = b
      /\ x - k - a \in 0..(2 * n) /\ y - k - b \in 0..(3 * n) /\ z - k \in 0..n
  <2>1. l2 + v2 = l + v + k /\ h2.names = h.names + a /\ h2.maps = h.maps + b
    BY DEF Accounts
  <2> HIDE DEF l, v, h, l2, v2, h2
  <2>2. l2 + v2 - l - v = k
    BY <1>2, <2>1
  <2>3. h2.names - h.names = a
    BY <1>2, <2>1
  <2>4. h2.maps - h.maps = b
    BY <1>2, <2>1
  <2> QED
    BY <2>2, <2>3, <2>4 DEF Accounts
<1>4. /\ d.names - (l2 + v2 - l - v) - h2.names + h.names \in 0..(2 * n)
      /\ d.maps - (l2 + v2 - l - v) - h2.maps + h.maps \in 0..(3 * n)
      /\ d.data - (l2 + v2 - l - v) - h2.data + h.data \in 0..n
  <2> HIDE DEF d, l, v, h, l2, v2, h2
  <2>1. x - k - h2.names + h.names = x - k - a
    BY <1>2, <1>3
  <2>2. y - k - h2.maps + h.maps = y - k - b
    BY <1>2, <1>3
  <2>3. z - k - h2.data + h.data = z - k
    BY <1>2
  <2> QED
    BY <1>1, <1>3, <2>1, <2>2, <2>3
<1>5. mem' = Plus(mem, d) /\ faults' = faults + n /\ faults' <= MaxFaults
  BY DEF Accounts
<1>6. /\ list' \in Seq(Stored) \cup {Absent} /\ vector' \in Seq(Stored) \cup {Absent}
      /\ hand' \in Joueur \cup {NoHand}
  BY DEF Shapes
<1>7. HeapBalance' /\ mem' \in [names: Nat, maps: Nat, data: Nat]
  BY <1>1, <1>4, <1>5, <1>6, Balanced
<1>8. faults' \in 0..MaxFaults
  BY <1>5, PlayersAssumption DEF IInv, TypeOK
<1> QED
  BY <1>7, <1>8 DEF IInv, TypeOK, Shapes

\* What is freed is gained negatively.
LEMMA Losses ==
    /\ \A x, y, z \in Int : Times(-1, Mem(x, y, z)) = Mem(-x, -y, -z)
    /\ \A k \in Nat : Times(-1, Times(k, Deleted)) = Mem(-k, -k, -k)
    /\ \A m \in [names: Nat, maps: Nat, data: Nat], x, y, z \in Int :
          Plus(Plus(m, Mem(x, y, z)), Times(-1, Deleted)) = Plus(m, Mem(x - 1, y - 1, z - 1))
  BY DEF Times, Mem, Plus, Deleted

\* A failure ends the run.
LEMMA BecomeKeeps ==
    ASSUME IInv, NEW o \in {"aborted", "undefined"}, Become(o)
    PROVE  IInv'
<1>1. /\ fate' = o /\ faults' = faults + 1 /\ faults' <= MaxFaults
      /\ list' = list /\ len' = len /\ vector' = vector /\ hand' = hand
      /\ converting' = converting /\ mem' = mem /\ debug' = debug
  BY DEF Become, Fault
<1>2. faults' \in 0..MaxFaults
  BY <1>1, PlayersAssumption DEF IInv, TypeOK
<1>3. TypeOK' /\ Converts'
  BY <1>1, <1>2 DEF IInv, TypeOK, Converts
<1>4. HeapBalance'
  BY <1>1 DEF HeapBalance
<1> QED
  BY <1>3, <1>4 DEF IInv

\* A game lost by an asserted copy ends the run as well.
LEMMA ShortCopyKeeps ==
    ASSUME IInv, NEW g, ShortCopy(g)
    PROVE  IInv'
  BY BecomeKeeps DEF ShortCopy

\* The joueur of the caller.
LEMMA CallerKeeps ==
    ASSUME IInv, (\E n \in Names : Make(n)) \/ Release
    PROVE  IInv'
<1>1. ASSUME NEW n \in Names, Make(n) PROVE IInv'
  <2>1. /\ fate = "ok" /\ hand = NoHand
        /\ hand' = [valid |-> TRUE, who |-> n, games |-> GamesOf[n]]
        /\ mem' = Plus(mem, Mem(1, 1, 0)) /\ faults' = faults + 0
        /\ UNCHANGED <<list, len, vector, converting, fate, debug>>
    BY <1>1 DEF Make, Calm, Gain, IInv, TypeOK
  <2>2. GamesOf[n] \in SUBSET Games
    BY PlayersAssumption DEF Games, Range
  <2>3. hand' \in Joueur /\ OwnedBy(hand') = Mem(1, 1, 0) /\ OwnedBy(hand) = Mem(0, 0, 0)
    BY <2>1, <2>2, HandOwns
  <2>4. Shapes'
    BY <2>1, <2>3 DEF IInv, TypeOK, Shapes, Converts
  <2>5. Accounts(1, 1, 0, 0, 0, 1, 1)
    <3>1. NbIn(list) \in Nat /\ NbIn(vector) \in Nat /\ faults \in 0..MaxFaults
      BY NbInSeq DEF IInv, TypeOK
    <3>2. faults' <= MaxFaults
      BY <2>1, <3>1, PlayersAssumption
    <3> QED
      BY <2>1, <2>3, <3>1, <3>2 DEF Accounts, Mem
  <2> QED
    BY <2>1, <2>4, <2>5, Kept
<1>2. CASE Release
  <2>1. /\ fate = "ok" /\ hand' = NoHand
        /\ mem' = Plus(mem, Times(-1, OwnedBy(hand))) /\ faults' = faults + 0
        /\ UNCHANGED <<list, len, vector, converting, fate, debug>>
    BY <1>2 DEF Release, Calm, Lose, IInv, TypeOK
  <2>2. OwnedBy(hand) \in {Mem(0, 0, 0), Mem(0, 1, 0), Mem(1, 1, 0)}
    BY JoueurOwns DEF IInv, TypeOK
  <2>3. OwnedBy(hand') = Mem(0, 0, 0)
    BY <2>1, HandOwns
  <2>4. Shapes'
    BY <2>1 DEF IInv, TypeOK, Shapes, Converts
  <2>5. /\ NbIn(list) \in Nat /\ NbIn(vector) \in Nat
        /\ faults' <= MaxFaults
    BY <2>1, NbInSeq, PlayersAssumption DEF IInv, TypeOK
  <2>6. ASSUME NEW a \in {0, 1}, NEW b \in {0, 1}, OwnedBy(hand) = Mem(a, b, 0) PROVE IInv'
    <3>1. mem' = Plus(mem, Mem(-a, -b, 0))
      <4>1. CASE a = 0
        BY <2>1, <2>6, <4>1 DEF Times, Mem
      <4>2. CASE a = 1
        BY <2>1, <2>6, <4>2 DEF Times, Mem
      <4> QED
        BY <2>6, <4>1, <4>2
    <3> DEFINE x == -a   y == -b
    <3>2. Accounts(x, y, 0, 0, 0, x, y)
      BY <2>1, <2>3, <2>5, <2>6, <3>1 DEF Accounts, Mem
    <3>3. x \in Int /\ y \in Int
      BY <2>6
    <3> HIDE DEF x, y
    <3> QED
      BY <2>1, <2>4, <3>2, <3>3, Kept
  <2> QED
    BY <2>2, <2>6
<1> QED
  BY <1>1, <1>2

\* What the invariant says of the numbers a step starts from.
LEMMA Now ==
    ASSUME IInv
    PROVE  /\ NbIn(list) \in Nat /\ NbIn(vector) \in Nat
           /\ faults \in Nat /\ faults <= MaxFaults /\ MaxFaults \in Nat
           /\ OwnedBy(hand).names \in Nat /\ OwnedBy(hand).maps \in Nat
<1>1. OwnedBy(hand) \in {Mem(0, 0, 0), Mem(0, 1, 0), Mem(1, 1, 0)}
  BY JoueurOwns DEF IInv, TypeOK
<1> QED
  BY <1>1, NbInSeq, PlayersAssumption DEF IInv, TypeOK, Mem

\* Lists and vectors made and freed own what their values own.
LEMMA ContainersKeep ==
    ASSUME IInv, NewList \/ FreeList \/ NewVector \/ FreeVector
    PROVE  IInv'
<1>1. CASE UNCHANGED <<hand, converting, mem, faults, fate, debug>> /\ fate = "ok"
           /\ Shapes' /\ NbIn(list') = NbIn(list) /\ NbIn(vector') = NbIn(vector)
  <2>1. mem' = Plus(mem, Mem(0, 0, 0))
    BY <1>1 DEF Plus, Mem, IInv, TypeOK
  <2>2. Accounts(0, 0, 0, 0, 0, 0, 0)
    BY <1>1, <2>1, Now DEF Accounts
  <2> QED
    BY <1>1, <2>2, Kept
<1>2. CASE NewList
  <2>1. CASE Become("undefined")
    BY <2>1, BecomeKeeps
  <2>2. CASE /\ fate = "ok" /\ list = Absent /\ list' = <<>> /\ len' = 0
             /\ UNCHANGED <<vector, hand, converting, mem, faults, fate, debug>>
    <3>1. NbIn(list') = NbIn(list)
      BY <2>2, NbInSeq
    <3>2. Shapes'
      BY <2>2, NbInSeq DEF Shapes, Converts, IInv, TypeOK
    <3> QED
      BY <1>1, <2>2, <3>1, <3>2
  <2> QED
    BY <1>2, <2>1, <2>2 DEF NewList, Calm
<1>3. CASE NewVector
  <2>1. CASE Become("undefined")
    BY <2>1, BecomeKeeps
  <2>2. CASE /\ fate = "ok" /\ ~converting /\ vector = Absent /\ vector' = <<>>
             /\ UNCHANGED <<list, len, hand, converting, mem, faults, fate, debug>>
    <3>1. NbIn(vector') = NbIn(vector)
      BY <2>2, NbInSeq
    <3>2. Shapes'
      BY <2>2, NbInSeq DEF Shapes, Converts, IInv, TypeOK
    <3> QED
      BY <1>1, <2>2, <3>1, <3>2
  <2> QED
    BY <1>3, <2>1, <2>2 DEF NewVector, Calm
<1>4. CASE FreeList
  <2> DEFINE n == Len(list)   m == -n
  <2>1. /\ fate = "ok" /\ ~converting /\ list \in Seq(Stored) /\ list # Absent /\ n \in Nat
        /\ list' = Absent /\ len' = 0 /\ UNCHANGED <<vector, hand, converting, faults, fate, debug>>
        /\ mem' = Plus(mem, Times(-1, Times(n, Deleted)))
    BY <1>4, NbInSeq DEF FreeList, Calm, Lose, IInv, TypeOK
  <2>2. Shapes'
    BY <2>1 DEF Shapes, Converts, IInv, TypeOK
  <2>3. m \in Int /\ mem' = Plus(mem, Mem(m, m, m))
    BY <2>1, Losses
  <2>4. NbIn(list') + NbIn(vector') = NbIn(list) + NbIn(vector) + m
    <3>1. NbIn(list) + m = 0 /\ NbIn(list') = 0 /\ NbIn(vector') = NbIn(vector)
      BY <2>1, NbInSeq
    <3> HIDE DEF m
    <3> QED
      BY <2>3, <3>1, Now
  <2>5. m - m - 0 = 0 /\ m - m = 0
    BY <2>3
  <2> HIDE DEF n, m
  <2>6. Accounts(m, m, m, 0, m, 0, 0)
    BY <2>1, <2>3, <2>4, <2>5, Now DEF Accounts
  <2>7. fate = "ok" /\ m \in Int /\ 0 \in Int /\ 0 \in Nat
    BY <2>1, <2>3
  <2> QED
    BY <2>2, <2>6, <2>7, Kept
<1>5. CASE FreeVector
  <2> DEFINE n == Len(vector)   m == -n
  <2>1. /\ fate = "ok" /\ ~converting /\ vector \in Seq(Stored) /\ vector # Absent /\ n \in Nat
        /\ vector' = Absent /\ UNCHANGED <<list, len, hand, converting, faults, fate, debug>>
        /\ mem' = Plus(mem, Times(-1, Times(n, Deleted)))
    BY <1>5, NbInSeq DEF FreeVector, Calm, Lose, IInv, TypeOK
  <2>2. Shapes'
    BY <2>1 DEF Shapes, Converts, IInv, TypeOK
  <2>3. m \in Int /\ mem' = Plus(mem, Mem(m, m, m))
    BY <2>1, Losses
  <2>4. NbIn(list') + NbIn(vector') = NbIn(list) + NbIn(vector) + m
    <3>1. NbIn(vector) + m = 0 /\ NbIn(vector') = 0 /\ NbIn(list') = NbIn(list)
      BY <2>1, NbInSeq
    <3> HIDE DEF m
    <3> QED
      BY <2>3, <3>1, Now
  <2>5. m - m - 0 = 0 /\ m - m = 0
    BY <2>3
  <2> HIDE DEF n, m
  <2>6. Accounts(m, m, m, 0, m, 0, 0)
    BY <2>1, <2>3, <2>4, <2>5, Now DEF Accounts
  <2>7. fate = "ok" /\ m \in Int /\ 0 \in Int /\ 0 \in Nat
    BY <2>1, <2>3
  <2> QED
    BY <2>2, <2>6, <2>7, Kept
<1> QED
  BY <1>2, <1>3, <1>4, <1>5

\* A player pushed is a value owned, or what was made of it is lost.
Stores(v) ==
    \/ /\ v.ok /\ Fault(v.faults)
       /\ NbIn(list') + NbIn(vector') = NbIn(list) + NbIn(vector) + 1
    \/ /\ Fault(IF v.ok THEN v.faults + 1 ELSE v.faults)
       /\ UNCHANGED <<list, vector>>

LEMMA PushKeeps ==
    ASSUME IInv, fate = "ok", NEW j, j.games \in SUBSET Games, j.who \in Names,
           NEW v \in Values(j), Gain(v.mem), Shapes',
           UNCHANGED <<hand, converting, fate, debug>>, Stores(v)
    PROVE  IInv'
<1>1. /\ v.faults \in Nat /\ (v.ok => v.mem = Mem(1, 1, 1))
      /\ ~v.ok => v.faults = 1 /\ v.mem \in [names: 0..1, maps: 0..2, data: {0}]
  BY ValuesAre DEF Value
<1>2. mem' = Plus(mem, v.mem)
  BY DEF Gain
<1>3. CASE /\ v.ok /\ Fault(v.faults)
           /\ NbIn(list') + NbIn(vector') = NbIn(list) + NbIn(vector) + 1
  <2>1. Accounts(1, 1, 1, v.faults, 1, 0, 0)
    BY <1>1, <1>2, <1>3, Now DEF Accounts, Fault
  <2>2. v.faults \in Nat /\ 0 \in Int /\ 1 \in Int
    BY <1>1
  <2> QED
    BY <2>1, <2>2, Kept
<1>4. CASE UNCHANGED <<list, vector>> /\ v.ok /\ Fault(v.faults + 1)
  <2> DEFINE n == v.faults + 1
  <2>1. n \in Nat /\ n >= 1 /\ Fault(n)
    BY <1>1, <1>4
  <2> HIDE DEF n
  <2>2. Accounts(1, 1, 1, n, 0, 0, 0)
    BY <1>1, <1>2, <1>4, <2>1, Now DEF Accounts, Fault
  <2>3. n \in Nat /\ 0 \in Int /\ 1 \in Int
    BY <2>1
  <2> QED
    BY <2>2, <2>3, Kept
<1>5. CASE UNCHANGED <<list, vector>> /\ ~v.ok /\ Fault(v.faults)
  <2> DEFINE x == v.mem.names   y == v.mem.maps
  <2>1. x \in 0..1 /\ y \in 0..2 /\ v.mem = Mem(x, y, 0)
    BY <1>1, <1>5 DEF Mem
  <2> HIDE DEF x, y
  <2>2. Accounts(x, y, 0, 1, 0, 0, 0)
    BY <1>1, <1>2, <1>5, <2>1, Now DEF Accounts, Fault
  <2>3. x \in Int /\ y \in Int /\ 0 \in Int /\ 1 \in Nat
    BY <2>1
  <2> QED
    BY <2>2, <2>3, Kept
<1> QED
  BY <1>3, <1>4, <1>5 DEF Stores

\* A player pushed to the list or to the vector.
LEMMA PushesKeep ==
    ASSUME IInv, PushBack \/ VectorPush
    PROVE  IInv'
<1> DEFINE s(v) == Serial(hand, v)
<1>1. ASSUME hand # NoHand, hand.valid, NEW v \in Values(hand)
      PROVE  hand.games \in SUBSET Games /\ hand.who \in Names /\ s(v) \in Stored
  <2>1. hand.games \in SUBSET Games /\ hand.who \in Names
    BY <1>1, JoueurOwns DEF IInv, TypeOK
  <2>2. v.games \in SUBSET Games
    BY <2>1, ValuesAre
  <2> QED
    BY <2>1, <2>2 DEF Serial, Stored
<1>2. CASE PushBack
  <2>1. fate = "ok" /\ ~converting /\ list \in Seq(Stored) /\ hand # NoHand /\ hand.valid
    BY <1>2 DEF PushBack, Calm, IInv, TypeOK
  <2>2. ASSUME NEW v \in Values(hand), Gain(v.mem),
               UNCHANGED <<vector, hand, converting, fate, debug>>,
               v.ok /\ Fault(v.faults), list' = Append(list, s(v)), len' = len + 1
        PROVE  IInv'
    <3>1. hand.games \in SUBSET Games /\ hand.who \in Names /\ s(v) \in Stored
      BY <1>1, <2>1
    <3>2. /\ list' \in Seq(Stored) /\ Len(list') = Len(list) + 1 /\ Len(list) \in Nat
          /\ NbIn(list') = NbIn(list) + 1
      BY <2>1, <2>2, <3>1, NbInSeq
    <3>3. Shapes'
      BY <2>1, <2>2, <3>2, PlayersAssumption DEF Shapes, Converts, IInv, TypeOK
    <3>4. Stores(v)
      BY <2>2, <3>2, Now DEF Stores
    <3> QED
      BY <2>1, <2>2, <3>1, <3>3, <3>4, PushKeeps
  <2>3. ASSUME NEW v \in Values(hand), Gain(v.mem),
               UNCHANGED <<vector, hand, converting, fate, debug, list, len>>,
               Fault(IF v.ok THEN v.faults + 1 ELSE v.faults)
        PROVE  IInv'
    <3>1. hand.games \in SUBSET Games /\ hand.who \in Names
      BY <1>1, <2>1, <2>3
    <3>2. Shapes'
      BY <2>1, <2>3 DEF Shapes, Converts, IInv, TypeOK
    <3>3. Stores(v)
      BY <2>3 DEF Stores
    <3> QED
      BY <2>1, <2>3, <3>1, <3>2, <3>3, PushKeeps
  <2>4. CASE ShortCopy(hand.games) \/ Become("undefined")
    BY <2>4, BecomeKeeps, ShortCopyKeeps
  <2> QED
    BY <1>2, <2>2, <2>3, <2>4 DEF PushBack
<1>3. CASE VectorPush
  <2>1. fate = "ok" /\ ~converting /\ vector \in Seq(Stored) /\ hand # NoHand /\ hand.valid
    BY <1>3 DEF VectorPush, Calm, IInv, TypeOK
  <2>2. ASSUME NEW v \in Values(hand), Gain(v.mem),
               UNCHANGED <<list, len, hand, converting, fate, debug>>,
               v.ok /\ Fault(v.faults), vector' = Append(vector, s(v))
        PROVE  IInv'
    <3>1. hand.games \in SUBSET Games /\ hand.who \in Names /\ s(v) \in Stored
      BY <1>1, <2>1
    <3>2. /\ vector' \in Seq(Stored) /\ NbIn(vector') = NbIn(vector) + 1
      BY <2>1, <2>2, <3>1, NbInSeq
    <3>3. Shapes'
      BY <2>1, <2>2, <3>2 DEF Shapes, Converts, IInv, TypeOK
    <3>4. Stores(v)
      BY <2>2, <3>2, Now DEF Stores
    <3> QED
      BY <2>1, <2>2, <3>1, <3>3, <3>4, PushKeeps
  <2>3. ASSUME NEW v \in Values(hand), Gain(v.mem),
               UNCHANGED <<vector, hand, converting, fate, debug, list, len>>,
               Fault(IF v.ok THEN v.faults + 1 ELSE v.faults)
        PROVE  IInv'
    <3>1. hand.games \in SUBSET Games /\ hand.who \in Names
      BY <1>1, <2>1, <2>3
    <3>2. Shapes'
      BY <2>1, <2>3 DEF Shapes, Converts, IInv, TypeOK
    <3>3. Stores(v)
      BY <2>3 DEF Stores
    <3> QED
      BY <2>1, <2>3, <3>1, <3>2, <3>3, PushKeeps
  <2>4. CASE ShortCopy(hand.games) \/ Become("undefined")
    BY <2>4, BecomeKeeps, ShortCopyKeeps
  <2> QED
    BY <1>3, <2>2, <2>3, <2>4 DEF VectorPush
<1> QED
  BY <1>2, <1>3

\* An invalid joueur owns a map.
LEMMA NobodyKeeps ==
    ASSUME IInv, PopNothing \/ GetNothing
    PROVE  IInv'
<1>1. CASE Become("undefined")
  BY <1>1, BecomeKeeps
<1>2. CASE /\ fate = "ok" /\ ~converting /\ hand = NoHand /\ hand' = Nobody
           /\ Gain(Mem(0, 1, 0))
           /\ UNCHANGED <<list, len, vector, converting, faults, fate, debug>>
  <2>1. /\ hand' \in Joueur /\ OwnedBy(hand') = Mem(0, 1, 0) /\ OwnedBy(hand) = Mem(0, 0, 0)
    BY <1>2, HandOwns
  <2>2. Shapes'
    BY <1>2, <2>1 DEF Shapes, Converts, IInv, TypeOK
  <2>3. Accounts(0, 1, 0, 0, 0, 0, 1)
    BY <1>2, <2>1, Now DEF Accounts, Gain, Mem
  <2> QED
    BY <1>2, <2>2, <2>3, Kept
<1>3. CASE PopNothing
  BY <1>1, <1>2, <1>3 DEF PopNothing, Calm, LenAfterPop
<1>4. CASE GetNothing
  BY <1>1, <1>2, <1>4 DEF GetNothing, Calm
<1> QED
  BY <1>3, <1>4

\* A player taken out has moved from the list to the caller.
LEMMA PopKeeps ==
    ASSUME IInv, PopFront
    PROVE  IInv'
<1> DEFINE e == Head(list)
<1>1. /\ fate = "ok" /\ ~converting /\ hand = NoHand
      /\ list \in Seq(Stored) /\ list # Absent /\ list # <<>> /\ Len(list) <= len /\ len \in Nat
  BY DEF PopFront, Calm, IInv, TypeOK
<1>2. /\ e \in Stored /\ Len(list) \in Nat /\ Len(list) > 0
      /\ Tail(list) \in Seq(Stored) /\ Len(Tail(list)) = Len(list) - 1
      /\ NbIn(Tail(list)) = NbIn(list) - 1
  BY <1>1, NbInSeq
<1>3. e.who \in Names /\ e.games \in SUBSET Games
  BY <1>2 DEF Stored
<1>4. CASE ShortCopy(e.games) \/ Become("undefined")
  BY <1>4, BecomeKeeps, ShortCopyKeeps
<1>5. ASSUME NEW c \in Copies(e.games), c.ok, Fault(c.faults),
             hand' = [valid |-> TRUE, who |-> e.who, games |-> c.games],
             list' = Tail(list), len' = LenAfterPop,
             mem' = Plus(Plus(mem, Mem(1, c.maps, 0)), Times(-1, Deleted)),
             UNCHANGED <<vector, converting, fate, debug>>
      PROVE  IInv'
  <2>1. c.games \in SUBSET Games /\ c.faults \in Nat /\ c.maps = 1
    BY <1>3, <1>5, CopiesAre
  <2>2. hand' \in Joueur /\ OwnedBy(hand') = Mem(1, 1, 0) /\ OwnedBy(hand) = Mem(0, 0, 0)
    BY <1>1, <1>3, <1>5, <2>1, HandOwns
  <2>3. len' = len - 1
    BY <1>1, <1>5 DEF LenAfterPop
  <2>4. Shapes'
    BY <1>1, <1>2, <1>5, <2>2, <2>3 DEF Shapes, Converts, IInv, TypeOK
  <2>5. mem' = Plus(mem, Mem(0, 0, -1))
    BY <1>5, <2>1, Losses DEF IInv, TypeOK
  <2>6. NbIn(list') + NbIn(vector') = NbIn(list) + NbIn(vector) + (-1)
    BY <1>2, <1>5, Now
  <2>7. Accounts(0, 0, -1, c.faults, -1, 1, 1)
    BY <1>5, <2>1, <2>2, <2>5, <2>6, Now DEF Accounts, Fault, Mem
  <2>8. 0 \in Int /\ -1 \in Int /\ 1 \in Int /\ c.faults \in Nat
    BY <2>1
  <2> QED
    BY <1>1, <2>4, <2>7, <2>8, Kept
<1> QED
  BY <1>4, <1>5 DEF PopFront

\* A player whose extraction fails leaves a name and the maps that were made.
LEMMA PopFailedKeeps ==
    ASSUME IInv, PopFailed
    PROVE  IInv'
<1> DEFINE e == Head(list)
<1>1. /\ fate = "ok" /\ ~converting /\ hand = NoHand
      /\ list \in Seq(Stored) /\ list # Absent /\ list # <<>> /\ Len(list) <= len /\ len \in Nat
      /\ hand' = Nobody /\ UNCHANGED <<vector, converting, fate, debug>>
  BY DEF PopFailed, Calm, IInv, TypeOK
<1>2. /\ e \in Stored /\ Len(list) \in Nat /\ Len(list) > 0
      /\ Tail(list) \in Seq(Stored) /\ Len(Tail(list)) = Len(list) - 1
      /\ NbIn(Tail(list)) = NbIn(list) - 1
  BY <1>1, NbInSeq
<1>3. e.games \in SUBSET Games
  BY <1>2 DEF Stored
<1>4. PICK c \in Copies(e.games) : PopFails(c)
  BY DEF PopFailed
<1>5. /\ ~c.ok /\ Fault(1) /\ c.maps \in {1, 2}
      /\ list' = Tail(list) /\ len' = len /\ Gain(Mem(1, c.maps + 1, -1))
  BY <1>3, <1>4, CopiesAre DEF PopFails
<1>6. hand' \in Joueur /\ OwnedBy(hand') = Mem(0, 1, 0) /\ OwnedBy(hand) = Mem(0, 0, 0)
  BY <1>1, HandOwns
<1>7. Shapes'
  BY <1>1, <1>2, <1>5, <1>6 DEF Shapes, Converts, IInv, TypeOK
<1>8. NbIn(list') + NbIn(vector') = NbIn(list) + NbIn(vector) + (-1)
  BY <1>1, <1>2, <1>5, Now
<1> DEFINE m == c.maps + 1
<1>9. m \in {2, 3} /\ Gain(Mem(1, m, -1))
  BY <1>5
<1> HIDE DEF m
<1>10. Accounts(1, m, -1, 1, -1, 0, 1)
  BY <1>5, <1>6, <1>8, <1>9, Now DEF Accounts, Fault, Gain, Mem
<1>11. 0 \in Int /\ -1 \in Int /\ 1 \in Int /\ 1 \in Nat /\ m \in Int
  BY <1>9
<1> QED
  BY <1>1, <1>7, <1>10, <1>11, Kept

\* A player got from a vector is a copy for the caller.
LEMMA GetKeeps ==
    ASSUME IInv, NEW i \in 1..MaxLen, GetAt(i)
    PROVE  IInv'
<1> DEFINE e == vector[i]
<1>1. /\ fate = "ok" /\ ~converting /\ hand = NoHand
      /\ e \in Stored
  BY DEF GetAt, Calm, IInv, TypeOK
<1>2. e.who \in Names /\ e.games \in SUBSET Games
  BY <1>1 DEF Stored
<1>3. CASE ShortCopy(e.games) \/ Become("undefined")
  BY <1>3, BecomeKeeps, ShortCopyKeeps
<1>4. ASSUME NEW c \in Copies(e.games), Fault(c.faults),
             hand' = [valid |-> TRUE, who |-> e.who, games |-> c.games],
             Gain(Mem(1, c.maps, 0)),
             UNCHANGED <<list, len, vector, converting, fate, debug>>
      PROVE  IInv'
  <2>1. /\ c.games \in SUBSET Games /\ c.faults \in Nat /\ c.maps \in {1, 2}
        /\ c.maps = 1 \/ c.faults = 1
    BY <1>2, CopiesAre
  <2>2. hand' \in Joueur /\ OwnedBy(hand') = Mem(1, 1, 0) /\ OwnedBy(hand) = Mem(0, 0, 0)
    BY <1>1, <1>2, <1>4, <2>1, HandOwns
  <2>3. Shapes'
    BY <1>1, <1>4, <2>2 DEF Shapes, Converts, IInv, TypeOK
  <2> DEFINE m == c.maps   n == c.faults
  <2>4. m \in {1, 2} /\ n \in Nat /\ (m = 1 \/ n = 1) /\ Fault(n) /\ Gain(Mem(1, m, 0))
    BY <1>4, <2>1
  <2> HIDE DEF m, n
  <2>5. NbIn(list') + NbIn(vector') = NbIn(list) + NbIn(vector) + 0
    BY <1>4, Now
  <2>6. Accounts(1, m, 0, n, 0, 1, 1)
    BY <2>2, <2>4, <2>5, Now DEF Accounts, Fault, Gain, Mem
  <2>7. 0 \in Int /\ 1 \in Int /\ m \in Int /\ n \in Nat
    BY <2>4
  <2> QED
    BY <1>1, <2>3, <2>6, <2>7, Kept
<1> QED
  BY <1>3, <1>4 DEF GetAt

\* What a conversion moves, it owns; a player it cannot extract or push leaves
\* what was made of him.
LEMMA ConversionKeeps ==
    ASSUME IInv, StartConversion \/ MoveAll
    PROVE  IInv'
<1>1. CASE Become("undefined")
  BY <1>1, BecomeKeeps
<1>2. CASE StartConversion /\ ~Become("undefined")
  <2>1. /\ fate = "ok" /\ list # Absent /\ vector = Absent
        /\ converting' = TRUE /\ vector' = <<>>
        /\ UNCHANGED <<list, len, hand, mem, faults, fate, debug>>
    BY <1>2 DEF StartConversion, Calm
  <2>2. Shapes'
    BY <2>1, NbInSeq, PlayersAssumption DEF Shapes, Converts, IInv, TypeOK
  <2>3. NbIn(list') + NbIn(vector') = NbIn(list) + NbIn(vector) + 0
    BY <2>1, Now, NbInSeq
  <2>4. mem' = Plus(mem, Mem(0, 0, 0))
    BY <2>1 DEF Plus, Mem, IInv, TypeOK
  <2>5. Accounts(0, 0, 0, 0, 0, 0, 0)
    BY <2>1, <2>3, <2>4, Now DEF Accounts
  <2> QED
    BY <2>1, <2>2, <2>5, Kept
<1>3. CASE MoveAll /\ list = <<>>
  <2>1. fate' = "undefined" /\ UNCHANGED <<list, len, vector, hand, converting, mem, faults, debug>>
    BY <1>3 DEF MoveAll
  <2>2. TypeOK' /\ Converts'
    BY <2>1 DEF IInv, TypeOK, Converts
  <2>3. HeapBalance'
    BY <2>1 DEF HeapBalance
  <2> QED
    BY <2>2, <2>3 DEF IInv
<1>4. CASE MoveAll /\ list # <<>> /\ ~Become("undefined")
  <2>1. /\ fate = "ok" /\ ~converting /\ list # Absent /\ vector = Absent
        /\ vector' = list /\ list' = <<>> /\ len' = 0
        /\ UNCHANGED <<hand, converting, mem, faults, fate, debug>>
    BY <1>4 DEF MoveAll, Calm
  <2>2. Shapes'
    BY <2>1, NbInSeq DEF Shapes, Converts, IInv, TypeOK
  <2>3. NbIn(list') + NbIn(vector') = NbIn(list) + NbIn(vector) + 0
    BY <2>1, Now, NbInSeq
  <2>4. mem' = Plus(mem, Mem(0, 0, 0))
    BY <2>1 DEF Plus, Mem, IInv, TypeOK
  <2>5. Accounts(0, 0, 0, 0, 0, 0, 0)
    BY <2>1, <2>3, <2>4, Now DEF Accounts
  <2> QED
    BY <2>1, <2>2, <2>5, Kept
<1> QED
  BY <1>1, <1>2, <1>3, <1>4

LEMMA ConvertOneKeeps ==
    ASSUME IInv, ConvertOne
    PROVE  IInv'
<1> DEFINE e == Head(list)
<1>1. /\ fate = "ok" /\ converting /\ list # Absent /\ vector # Absent
      /\ list \in Seq(Stored) /\ vector \in Seq(Stored) /\ list # <<>>
      /\ Len(list) <= len /\ len \in Nat
  BY DEF ConvertOne, IInv, TypeOK, Converts
<1>2. /\ e \in Stored /\ Len(list) \in Nat /\ Len(list) > 0
      /\ Tail(list) \in Seq(Stored) /\ Len(Tail(list)) = Len(list) - 1
      /\ NbIn(Tail(list)) = NbIn(list) - 1
  BY <1>1, NbInSeq
<1>3. e.who \in Names /\ e.games \in SUBSET Games
  BY <1>2 DEF Stored
<1>4. CASE ShortCopy(e.games) \/ Become("undefined")
  BY <1>4, BecomeKeeps, ShortCopyKeeps
<1>5. ASSUME NEW c \in Copies(e.games), NEW j, j = [who |-> e.who, games |-> c.games],
             c.ok, NEW v \in Values(j), Fault(c.faults + v.faults),
             IF v.ok THEN vector' = Append(vector, Serial(j, v)) /\ UNCHANGED fate
             ELSE UNCHANGED vector /\ fate' = IF debug THEN "aborted" ELSE "ok",
             mem' = Plus(Plus(mem, v.mem), Times(-1, Deleted)),
             list' = Tail(list), len' = len - 1,
             UNCHANGED <<hand, converting, debug>>
      PROVE  IInv'
  <2>10. /\ v.ok => vector' = Append(vector, Serial(j, v)) /\ fate' = fate
         /\ ~v.ok => vector' = vector /\ (fate' = "aborted" \/ fate' = "ok")
    BY <1>5, Zenon
  <2>1. j.who \in Names /\ j.games \in SUBSET Games /\ c.faults \in Nat
    BY <1>3, <1>5, CopiesAre
  <2>11. /\ list' = Tail(list) /\ len' = len - 1 /\ hand' = hand /\ debug' = debug
         /\ converting' = converting
         /\ mem' = Plus(Plus(mem, v.mem), Times(-1, Deleted))
    BY <1>5
  <2>2. /\ v.games \in SUBSET Games /\ v.faults \in Nat /\ (v.ok => v.mem = Mem(1, 1, 1))
        /\ ~v.ok => v.faults = 1 /\ v.mem \in [names: 0..1, maps: 0..2, data: {0}]
    BY <2>1, ValuesAre DEF Value
  <2>12. /\ list' \in Seq(Stored) /\ len' \in Nat /\ Len(list') <= len' /\ list # Absent
         /\ hand' \in Joueur \cup {NoHand} /\ converting' = TRUE /\ debug' \in BOOLEAN
         /\ list' # Absent /\ vector # Absent
    <3>1. len - 1 \in Nat /\ Len(list) - 1 <= len - 1
      BY <1>1, <1>2
    <3>2. hand' \in Joueur \cup {NoHand} /\ debug' \in BOOLEAN
      BY <2>11 DEF IInv, TypeOK
    <3>3. list' # Absent
      BY <1>2, <2>11, NbInSeq
    <3>4. converting' = TRUE
      BY <1>1, <2>11 DEF IInv, TypeOK
    <3> QED
      BY <1>1, <1>2, <2>11, <3>1, <3>2, <3>3, <3>4
  <2> DEFINE n == c.faults + v.faults
  <2>3. n \in Nat /\ Fault(n) /\ (~v.ok => n >= 1)
    BY <1>5, <2>1, <2>2
  <2> HIDE DEF n
  <2>4. mem \in [names: Nat, maps: Nat, data: Nat]
    BY DEF IInv, TypeOK
  <2>5. CASE v.ok
    <3>1. Serial(j, v) \in Stored
      BY <2>1, <2>2 DEF Serial, Stored
    <3>2. vector' \in Seq(Stored) /\ NbIn(vector') = NbIn(vector) + 1 /\ fate' = fate
      <4>1. vector' = Append(vector, Serial(j, v)) /\ fate' = fate
        BY <2>10, <2>5
      <4>2. /\ vector' \in Seq(Stored) /\ Len(vector') = Len(vector) + 1
        <5> DEFINE e2 == Serial(j, v)
        <5>1. e2 \in Stored /\ vector \in Seq(Stored) /\ vector' = Append(vector, e2)
          BY <1>1, <3>1, <4>1
        <5> HIDE DEF e2
        <5> QED
          BY <5>1, NbInSeq
      <4>3. NbIn(vector') = Len(vector') /\ NbIn(vector) = Len(vector)
        BY <1>1, <4>2, NbInSeq
      <4> QED
        BY <4>1, <4>2, <4>3
    <3>3. Shapes'
      <4>1. vector' # Absent /\ fate' = "ok"
        BY <1>1, <3>2, NbInSeq
      <4> QED
        BY <2>12, <3>2, <4>1 DEF Shapes, Converts
    <3>4. mem' = Plus(mem, Mem(0, 0, 0))
      <4>1. Plus(Plus(mem, Mem(1, 1, 1)), Times(-1, Deleted)) = Plus(mem, Mem(0, 0, 0))
        <5>1. 1 \in Int /\ 1 - 1 = 0
          OBVIOUS
        <5> QED
          BY <2>4, <5>1, Losses
      <4> QED
        BY <2>2, <2>5, <2>11, <4>1
    <3>5. NbIn(list') + NbIn(vector') = NbIn(list) + NbIn(vector) + 0
      BY <1>2, <2>11, <3>2, Now
    <3>6. Accounts(0, 0, 0, n, 0, 0, 0)
      BY <2>3, <2>11, <3>4, <3>5, Now DEF Accounts, Fault
    <3>7. 0 \in Int /\ n \in Nat
      BY <2>3
    <3> QED
      BY <1>1, <3>3, <3>6, <3>7, Kept
  <2>6. CASE ~v.ok
    <3>1. vector' = vector /\ fate' \in {"aborted", "ok"}
      BY <2>10, <2>6
    <3>2. Shapes'
      BY <1>1, <2>12, <3>1 DEF Shapes, Converts
    <3> DEFINE x == v.mem.names - 1   y == v.mem.maps - 1
    <3>3. /\ v.mem = Mem(v.mem.names, v.mem.maps, 0)
          /\ v.mem.names \in 0..1 /\ v.mem.maps \in 0..2
      BY <2>2, <2>6 DEF Mem
    <3>4. mem' = Plus(mem, Mem(x, y, -1))
      <4> DEFINE a == v.mem.names   b == v.mem.maps
      <4>1. a \in Int /\ b \in Int /\ 0 \in Int /\ 0 - 1 = -1 /\ v.mem = Mem(a, b, 0)
        BY <3>3
      <4> HIDE DEF a, b
      <4>2. Plus(Plus(mem, Mem(a, b, 0)), Times(-1, Deleted)) = Plus(mem, Mem(a - 1, b - 1, 0 - 1))
        BY <2>4, <4>1, Losses
      <4> QED
        <5>1. mem' = Plus(Plus(mem, Mem(a, b, 0)), Times(-1, Deleted))
          BY <2>11, <4>1
        <5>2. mem' = Plus(mem, Mem(a - 1, b - 1, -1))
          BY <4>1, <4>2, <5>1
        <5> QED
          BY <5>2 DEF a, b
    <3>5. x \in (-1)..0 /\ y \in (-1)..1
      BY <3>3
    <3>6. NbIn(list') + NbIn(vector') = NbIn(list) + NbIn(vector) + (-1)
      BY <1>2, <2>11, <3>1, Now
    <3> HIDE DEF x, y
    <3>7. Accounts(x, y, -1, n, -1, 0, 0)
      <4>1. /\ x - (-1) - 0 \in 0..(2 * n) /\ y - (-1) - 0 \in 0..(3 * n)
            /\ -1 - (-1) \in 0..n
        BY <2>3, <2>6, <3>5
      <4>2. faults' = faults + n /\ faults' <= MaxFaults
        BY <2>3 DEF Fault
      <4>3. /\ OwnedBy(hand').names = OwnedBy(hand).names + 0
            /\ OwnedBy(hand').maps = OwnedBy(hand).maps + 0
        BY <2>11, Now
      <4> QED
        BY <3>4, <3>6, <4>1, <4>2, <4>3 DEF Accounts
    <3>8. 0 \in Int /\ -1 \in Int /\ n \in Nat /\ x \in Int /\ y \in Int
      BY <2>3, <3>5
    <3> QED
      BY <1>1, <3>2, <3>7, <3>8, Kept
  <2> QED
    BY <2>5, <2>6
<1> QED
  BY <1>4, <1>5 DEF ConvertOne

LEMMA EndConversionKeeps ==
    ASSUME IInv, EndConversion
    PROVE  IInv'
<1>1. /\ fate = "ok" /\ converting /\ list # Absent /\ vector # Absent
      /\ list \in Seq(Stored) /\ Len(list) <= len /\ len \in Nat
      /\ UNCHANGED <<vector, hand, debug>> /\ converting' = FALSE
      /\ fate' \in {"ok", "aborted"} /\ converting' \in BOOLEAN /\ debug' \in BOOLEAN
      /\ hand' \in Joueur \cup {NoHand} /\ vector \in Seq(Stored)
  BY DEF EndConversion, IInv, TypeOK, Converts
<1>2. CASE UNCHANGED <<list, len, mem, faults>>
  <2>1. Shapes'
    BY <1>1, <1>2 DEF Shapes, Converts, IInv, TypeOK
  <2>2. mem' = Plus(mem, Mem(0, 0, 0))
    BY <1>2 DEF Plus, Mem, IInv, TypeOK
  <2>3. Accounts(0, 0, 0, 0, 0, 0, 0)
    BY <1>1, <1>2, <2>2, Now DEF Accounts
  <2>4. 0 \in Int /\ 0 \in Nat /\ fate = "ok"
    BY <1>1
  <2> QED
    BY <2>1, <2>3, <2>4, Kept
<1>3. ASSUME list # <<>>, NEW c \in Copies(Head(list).games), ~c.ok, Fault(c.faults),
             list' = Tail(list), UNCHANGED len, Gain(Mem(1, c.maps, -1))
      PROVE  IInv'
  <2>1. /\ Head(list) \in Stored /\ Len(list) \in Nat /\ Len(list) > 0
        /\ Tail(list) \in Seq(Stored) /\ Len(Tail(list)) = Len(list) - 1
        /\ NbIn(Tail(list)) = NbIn(list) - 1
    BY <1>1, <1>3, NbInSeq
  <2>2. Head(list).games \in SUBSET Games
    BY <2>1 DEF Stored
  <2>3. c.maps \in {1, 2} /\ Fault(1)
    BY <1>3, <2>2, CopiesAre
  <2>4. Shapes'
    <3>1. list' = Tail(list) /\ len' = len
      BY <1>3
    <3> QED
      BY <1>1, <2>1, <3>1 DEF Shapes, Converts
  <2>5. NbIn(list') + NbIn(vector') = NbIn(list) + NbIn(vector) + (-1)
    BY <1>1, <1>3, <2>1, Now
  <2> DEFINE m == c.maps
  <2>6. m \in {1, 2} /\ Gain(Mem(1, m, -1))
    BY <1>3, <2>3
  <2> HIDE DEF m
  <2>7. Accounts(1, m, -1, 1, -1, 0, 0)
    <3>1. mem' = Plus(mem, Mem(1, m, -1)) /\ faults' = faults + 1 /\ faults' <= MaxFaults
      BY <2>3, <2>6 DEF Fault, Gain
    <3>2. /\ OwnedBy(hand').names = OwnedBy(hand).names + 0
          /\ OwnedBy(hand').maps = OwnedBy(hand).maps + 0
      BY <1>1, Now
    <3>3. 1 - -1 - 0 \in 0..2 * 1 /\ m - -1 - 0 \in 0..3 * 1 /\ -1 - -1 \in 0..1
      BY <2>6
    <3> QED
      BY <2>5, <3>1, <3>2, <3>3 DEF Accounts
  <2>8. 0 \in Int /\ -1 \in Int /\ 1 \in Int /\ 1 \in Nat /\ m \in Int
    BY <2>6
  <2> QED
    BY <1>1, <2>4, <2>7, <2>8, Kept
<1> QED
  BY <1>2, <1>3 DEF EndConversion

-----------------------------------------------------------------------------
(* The theorems *)

\* Nothing is made yet, and nothing owned.
LEMMA InitIInv == Init => IInv
<1> SUFFICES ASSUME Init PROVE IInv
  OBVIOUS
<1>1. /\ list = Absent /\ len = 0 /\ vector = Absent /\ hand = NoHand
      /\ mem = Mem(0, 0, 0) /\ faults = 0 /\ fate = "ok"
  BY DEF Init, None
<1>2. converting \in BOOLEAN /\ ~converting /\ debug \in BOOLEAN
  BY Zenon DEF Init
<1>3. mem \in [names: Nat, maps: Nat, data: Nat] /\ faults \in 0..MaxFaults
  BY <1>1, PlayersAssumption DEF Mem
<1>4. TypeOK /\ Converts
  BY <1>1, <1>2, <1>3 DEF TypeOK, Converts
<1>5. Owned = Mem(0, 0, 0)
  <2>1. NbValues = 0 /\ OwnedBy(hand) = Mem(0, 0, 0)
    BY <1>1, HandOwns DEF NbValues
  <2> QED
    BY <2>1 DEF Owned, Plus, Times, Value, Mem
<1>6. HeapBalance
  BY <1>1, <1>5 DEF HeapBalance, Mem
<1> QED
  BY <1>4, <1>6 DEF IInv

\* A step keeps the invariant.
LEMMA StepIInv == IInv /\ [Next]_vars => IInv'
<1> SUFFICES ASSUME IInv, [Next]_vars PROVE IInv'
  OBVIOUS
<1>1. CASE (\E n \in Names : Make(n)) \/ Release
  BY <1>1, CallerKeeps
<1>2. CASE NewList \/ FreeList \/ NewVector \/ FreeVector
  BY <1>2, ContainersKeep
<1>3. CASE PushBack \/ VectorPush
  BY <1>3, PushesKeep
<1>4. CASE PopNothing \/ GetNothing
  BY <1>4, NobodyKeeps
<1>5. CASE PopFront
  BY <1>5, PopKeeps
<1>6. CASE PopFailed
  BY <1>6, PopFailedKeeps
<1>7. CASE \E i \in 1..MaxLen : GetAt(i)
  BY <1>7, GetKeeps
<1>8. CASE StartConversion \/ MoveAll
  BY <1>8, ConversionKeeps
<1>9. CASE Convert
  BY <1>9, ConvertOneKeeps, EndConversionKeeps DEF Convert
<1>10. CASE UNCHANGED vars
  <2>1. TypeOK' /\ Converts'
    BY <1>10 DEF vars, IInv, TypeOK, Converts
  <2>2. HeapBalance'
    BY <1>10 DEF vars, IInv, HeapBalance, Owned, NbValues
  <2> QED
    BY <2>1, <2>2 DEF IInv
<1> QED
  BY <1>1, <1>2, <1>3, <1>4, <1>5, <1>6, <1>7, <1>8, <1>9, <1>10 DEF Next

\* Whatever is pushed, popped, converted and freed, and whichever allocations
\* fail, the types and the balance of the heap hold
\* (adapter_ccontainer_joueur.c:24-196).
THEOREM Invariance == Spec => []IInv
  BY InitIInv, StepIInv, PTL DEF Spec

\* Every variable keeps its type, and no list is longer than it says.
THEOREM TypeCorrect == Spec => []TypeOK
<1>1. IInv => TypeOK
  BY DEF IInv
<1> QED
  BY <1>1, Invariance, PTL

\* Without a failed allocation exactly what is owned is allocated, and each one
\* that fails loses two names, three maps and one value's data at most.
THEOREM HeapBalanced == Spec => []HeapBalance
<1>1. IInv => HeapBalance
  BY DEF IInv
<1> QED
  BY <1>1, Invariance, PTL

-----------------------------------------------------------------------------
(* The promise of a list and a vector of players *)

\* As long as nothing failed the length told is the length.
Told == faults = 0 /\ list # Absent => len = Len(list)

\* What the promise sees.
Queue == IF converting THEN vector \o list ELSE list
Size == IF converting THEN len + Len(vector) ELSE len
Vec == IF converting THEN Absent ELSE vector

Refines == Promise!Next \/ UNCHANGED <<Queue, Size, Vec, hand, faults = 0, fate # "ok">>

\* A copy has games of what it copies, all of them when nothing failed.
LEMMA Copied ==
    ASSUME NEW games \in SUBSET Games, NEW c \in Copies(games)
    PROVE  c.games \subseteq games /\ (c.faults = 0 => c.games = games)
<1>1. CASE c = [ok |-> TRUE, games |-> games, maps |-> 1, faults |-> 0]
  BY <1>1
<1>2. CASE c \in [ok: {FALSE}, games: {{}}, maps: IF games = {} THEN {1} ELSE {1, 2}, faults: {1}]
  BY <1>2
<1>3. ASSUME NEW g \in SUBSET games,
             c = [ok |-> TRUE, games |-> g, maps |-> 1, faults |-> Cardinality(games \ g)]
      PROVE  c.games \subseteq games /\ (c.faults = 0 => c.games = games)
  <2>1. IsFiniteSet(games \ g)
    BY PlayersAssumption, FS_Subset
  <2>2. Cardinality(games \ g) = 0 => g = games
    BY <2>1, FS_EmptySet
  <2> QED
    BY <1>3, <2>2
<1>4. \/ c = [ok |-> TRUE, games |-> games, maps |-> 1, faults |-> 0]
      \/ c \in [ok: {FALSE}, games: {{}}, maps: IF games = {} THEN {1} ELSE {1, 2}, faults: {1}]
      \/ \E g \in SUBSET games :
            c = [ok |-> TRUE, games |-> g, maps |-> 1, faults |-> Cardinality(games \ g)]
  BY ZenonT(30) DEF Copies
<1> QED
  BY <1>1, <1>2, <1>3, <1>4

\* So has the value made of a joueur.
LEMMA Serialised ==
    ASSUME NEW j, j.games \in SUBSET Games, NEW v \in Values(j), v.ok
    PROVE  v.games \subseteq j.games /\ (v.faults = 0 => v.games = j.games)
<1>1. ASSUME NEW c \in Copies(j.games),
             v = [ok |-> c.ok, games |-> c.games, faults |-> c.faults,
                  mem |-> IF c.ok THEN Value ELSE Mem(1, c.maps, 0)]
      PROVE  v.games = c.games /\ v.faults = c.faults
  BY <1>1
<1>2. CASE v = [ok |-> FALSE, games |-> {}, faults |-> 1, mem |-> None]
  BY <1>2
<1> QED
  BY <1>1, <1>2, Copied DEF Values

-----------------------------------------------------------------------------
\* t has a copy of each of s.
LEMMA AllRemain ==
    ASSUME NEW s \in Seq(Stored), NEW t \in Seq(Stored), Len(t) = Len(s),
           \A i \in 1..Len(s) : t[i].who = s[i].who /\ t[i].games \subseteq s[i].games,
           faults' = 0 => t = s
    PROVE  Promise!Remains(s, t)
<1> DEFINE at == [i \in 1..Len(t) |-> i]
<1>1. at \in [1..Len(t) -> 1..Len(s)] /\ \A i \in 1..Len(t) : at[i] = i
  OBVIOUS
<1> HIDE DEF at
<1>2. \A i \in 1..Len(t) : Promise!Copy(s[at[i]], t[i])
  BY <1>1 DEF Promise!Copy
<1>3. \A i, j \in 1..Len(t) : i < j => at[i] < at[j]
  BY <1>1
<1> QED
  BY <1>1, <1>2, <1>3 DEF Promise!Remains

\* t has all of s but the k-th.
LEMMA OthersRemain ==
    ASSUME NEW s \in Seq(Stored), NEW t \in Seq(Stored), NEW k \in 1..Len(s),
           Len(t) = Len(s) - 1, faults' # 0,
           \A i \in 1..Len(t) : t[i] = IF i < k THEN s[i] ELSE s[i + 1]
    PROVE  Promise!Remains(s, t)
<1> DEFINE at == [i \in 1..Len(t) |-> IF i < k THEN i ELSE i + 1]
<1>0. Len(s) \in Nat /\ Len(t) \in Nat /\ k \in Int
  OBVIOUS
<1>1. /\ at \in [1..Len(t) -> 1..Len(s)]
      /\ \A i \in 1..Len(t) : at[i] = IF i < k THEN i ELSE i + 1
  BY <1>0
<1> HIDE DEF at
<1>2. \A i \in 1..Len(t) : Promise!Copy(s[at[i]], t[i])
  <2>1. \A i \in 1..Len(t) : t[i] = s[at[i]]
    BY <1>1
  <2> QED
    BY <2>1 DEF Promise!Copy
<1>3. ASSUME NEW i \in 1..Len(t), NEW j \in 1..Len(t), i < j PROVE at[i] < at[j]
  <2>1. i \in Int /\ j \in Int
    OBVIOUS
  <2> QED
    BY <1>0, <1>1, <1>3, <2>1
<1> QED
  BY <1>1, <1>2, <1>3 DEF Promise!Remains

-----------------------------------------------------------------------------
(* Steps *)

\* A call that comes back is one of the promise.
LEMMA AsCall ==
    ASSUME fate = "ok", fate' = "ok", faults' = 0 => faults = 0, Promise!Call
    PROVE  Refines
  BY DEF Promise!Next, Refines

\* One that does not had no memory, or nobody to convert.
LEMMA AsHalt ==
    ASSUME fate = "ok", fate' # "ok", faults' = 0 => faults = 0 /\ Queue = <<>>
    PROVE  Refines
  BY DEF Promise!Next, Promise!Halt, Refines, Queue

\* A failure that ends the run is a halt.
LEMMA BecomeRefines ==
    ASSUME IInv, fate = "ok", NEW o \in {"aborted", "undefined"}, Become(o)
    PROVE  Refines
<1>1. faults \in Nat /\ faults' = faults + 1
  BY PlayersAssumption DEF Become, Fault, IInv, TypeOK
<1>2. fate' # "ok"
  BY DEF Become
<1> QED
  BY <1>1, <1>2, AsHalt

\* So is an asserted copy that is not complete.
LEMMA ShortCopyRefines ==
    ASSUME IInv, fate = "ok", NEW g, ShortCopy(g)
    PROVE  Refines
  BY BecomeRefines DEF ShortCopy

\* A call after which the promise sees the same, but for the memory.
LEMMA AsFailed ==
    ASSUME fate = "ok", fate' = "ok", faults' # 0, UNCHANGED <<Queue, Size, Vec, hand>>
    PROVE  Refines
<1>1. Promise!Failed
  BY DEF Promise!Failed, Queue, Size, Vec
<1> QED
  BY <1>1, AsCall DEF Promise!Call

\* The joueur of the caller, the containers, and what goes in and out of them.
LEMMA CallerRefines ==
    ASSUME IInv, (\E n \in Names : Make(n)) \/ Release
    PROVE  Refines
<1>1. ASSUME NEW n \in Names, Make(n) PROVE Refines
  <2>1. /\ fate = "ok" /\ fate' = "ok" /\ faults' = faults /\ ~converting /\ ~converting'
        /\ hand = NoHand /\ hand' = [valid |-> TRUE, who |-> n, games |-> GamesOf[n]]
        /\ UNCHANGED <<list, len, vector>>
    BY <1>1 DEF Make, Calm
  <2>2. Promise!Make(n)
    BY <2>1 DEF Promise!Make, Promise!Free
  <2> QED
    BY <2>1, <2>2, AsCall DEF Promise!Call
<1>2. CASE Release
  <2>1. /\ fate = "ok" /\ fate' = "ok" /\ faults' = faults /\ ~converting /\ ~converting'
        /\ hand # NoHand /\ hand' = NoHand /\ UNCHANGED <<list, len, vector>>
    BY <1>2 DEF Release, Calm
  <2>2. Promise!Release
    BY <2>1 DEF Promise!Release, Promise!Free
  <2> QED
    BY <2>1, <2>2, AsCall DEF Promise!Call
<1> QED
  BY <1>1, <1>2

\* Lists and vectors made and freed.
LEMMA ContainersRefine ==
    ASSUME IInv, NewList \/ FreeList \/ NewVector \/ FreeVector
    PROVE  Refines
<1>1. CASE NewList
  <2>1. CASE Become("undefined")
    BY <1>1, <2>1, BecomeRefines DEF NewList, Calm
  <2>2. CASE ~Become("undefined")
    <3>1. /\ fate = "ok" /\ fate' = "ok" /\ faults' = faults /\ ~converting /\ ~converting'
          /\ list = Absent /\ list' = <<>> /\ len' = 0 /\ UNCHANGED <<vector, hand>>
      BY <1>1, <2>2 DEF NewList, Calm
    <3>2. Promise!NewQueue
      BY <3>1 DEF Promise!NewQueue
    <3> QED
      BY <3>1, <3>2, AsCall DEF Promise!Call
  <2> QED
    BY <2>1, <2>2
<1>2. CASE FreeList
  <2>1. /\ fate = "ok" /\ fate' = "ok" /\ faults' = faults /\ ~converting /\ ~converting'
        /\ list # Absent /\ list' = Absent /\ len' = 0 /\ UNCHANGED <<vector, hand>>
    BY <1>2 DEF FreeList, Calm
  <2>2. Promise!FreeQueue
    BY <2>1 DEF Promise!FreeQueue
  <2> QED
    BY <2>1, <2>2, AsCall DEF Promise!Call
<1>3. CASE NewVector
  <2>1. CASE Become("undefined")
    BY <1>3, <2>1, BecomeRefines DEF NewVector, Calm
  <2>2. CASE ~Become("undefined")
    <3>1. /\ fate = "ok" /\ fate' = "ok" /\ faults' = faults /\ ~converting /\ ~converting'
          /\ vector = Absent /\ vector' = <<>> /\ UNCHANGED <<list, len, hand>>
      BY <1>3, <2>2 DEF NewVector, Calm
    <3>2. Promise!NewVector
      BY <3>1 DEF Promise!NewVector
    <3> QED
      BY <3>1, <3>2, AsCall DEF Promise!Call
  <2> QED
    BY <2>1, <2>2
<1>4. CASE FreeVector
  <2>1. /\ fate = "ok" /\ fate' = "ok" /\ faults' = faults /\ ~converting /\ ~converting'
        /\ vector # Absent /\ vector' = Absent /\ UNCHANGED <<list, len, hand>>
    BY <1>4 DEF FreeVector, Calm
  <2>2. Promise!FreeVector
    BY <2>1 DEF Promise!FreeVector
  <2> QED
    BY <2>1, <2>2, AsCall DEF Promise!Call
<1> QED
  BY <1>1, <1>2, <1>3, <1>4

\* A sequence with a copy of the player in hand.
LEMMA PushedCopy ==
    ASSUME IInv, hand # NoHand, hand.valid, NEW v \in Values(hand), v.ok,
           faults' = 0 => v.faults = 0, NEW s \in Seq(Stored)
    PROVE  Promise!Pushed(s, Append(s, Serial(hand, v)))
<1> DEFINE e == Serial(hand, v)
<1>1. hand.who \in Names /\ hand.games \in SUBSET Games
  BY JoueurOwns DEF IInv, TypeOK
<1>2. e.who = hand.who /\ e.games \subseteq hand.games /\ (faults' = 0 => e.games = hand.games)
  BY <1>1, Serialised DEF Serial
<1>3. e \in Stored
  BY <1>1, <1>2 DEF Serial, Stored
<1>4. Promise!Copy(hand, e)
  BY <1>2 DEF Promise!Copy
<1> HIDE DEF e
<1> DEFINE t == Append(s, e)
<1>5. t \in Seq(Stored) /\ Len(t) = Len(s) + 1 /\ t[Len(t)] = e /\ Len(s) \in Nat
  BY <1>3
<1>6. Absent \notin {s, t}
  BY <1>5, NbInSeq
<1> QED
  BY <1>4, <1>5, <1>6 DEF Promise!Pushed, e

\* What is pushed is the copy, or nothing is.
LEMMA PushesRefine ==
    ASSUME IInv, PushBack \/ VectorPush
    PROVE  Refines
<1>0. faults \in Nat /\ \A v \in Values(hand) : hand # NoHand /\ hand.valid => v.faults \in Nat
  BY PlayersAssumption, JoueurOwns, ValuesAre DEF IInv, TypeOK
<1>1. CASE PushBack
  <2>1. fate = "ok" /\ ~converting /\ list \in Seq(Stored) /\ hand # NoHand /\ hand.valid
    BY <1>1 DEF PushBack, Calm, IInv, TypeOK
  <2>2. CASE ShortCopy(hand.games) \/ Become("undefined")
    BY <2>1, <2>2, ShortCopyRefines, BecomeRefines
  <2>3. ASSUME NEW v \in Values(hand), v.ok, Fault(v.faults),
               list' = Append(list, Serial(hand, v)), len' = len + 1,
               UNCHANGED <<vector, hand, converting, fate>>
        PROVE  Refines
    <3>1. faults' = faults + v.faults /\ v.faults \in Nat
      BY <1>0, <2>1, <2>3 DEF Fault
    <3>2. Promise!Pushed(list, list')
      BY <1>0, <2>1, <2>3, <3>1, PushedCopy
    <3>3. Promise!Push
      BY <2>1, <2>3, <3>2 DEF Promise!Push, Promise!Pushed, Promise!Free
    <3> QED
      BY <1>0, <2>1, <2>3, <3>1, <3>3, AsCall DEF Promise!Call
  <2>4. ASSUME NEW v \in Values(hand), Fault(IF v.ok THEN v.faults + 1 ELSE v.faults),
               UNCHANGED <<list, len, vector, hand, converting, fate>>
        PROVE  Refines
    <3>1. faults' # 0
      BY <1>0, <2>1, <2>4, ValuesAre, JoueurOwns DEF Fault, IInv, TypeOK
    <3> QED
      BY <2>1, <2>4, <3>1, AsFailed DEF Queue, Size, Vec
  <2> QED
    BY <1>1, <2>2, <2>3, <2>4 DEF PushBack
<1>2. CASE VectorPush
  <2>1. fate = "ok" /\ ~converting /\ vector \in Seq(Stored) /\ hand # NoHand /\ hand.valid
    BY <1>2 DEF VectorPush, Calm, IInv, TypeOK
  <2>2. CASE ShortCopy(hand.games) \/ Become("undefined")
    BY <2>1, <2>2, ShortCopyRefines, BecomeRefines
  <2>3. ASSUME NEW v \in Values(hand), v.ok, Fault(v.faults),
               vector' = Append(vector, Serial(hand, v)),
               UNCHANGED <<list, len, hand, converting, fate>>
        PROVE  Refines
    <3>1. faults' = faults + v.faults /\ v.faults \in Nat
      BY <1>0, <2>1, <2>3 DEF Fault
    <3>2. Promise!Pushed(vector, vector')
      BY <1>0, <2>1, <2>3, <3>1, PushedCopy
    <3>3. Promise!Push
      BY <2>1, <2>3, <3>2 DEF Promise!Push, Promise!Pushed, Promise!Free
    <3> QED
      BY <1>0, <2>1, <2>3, <3>1, <3>3, AsCall DEF Promise!Call
  <2>4. ASSUME NEW v \in Values(hand), Fault(IF v.ok THEN v.faults + 1 ELSE v.faults),
               UNCHANGED <<list, len, vector, hand, converting, fate>>
        PROVE  Refines
    <3>1. faults' # 0
      BY <1>0, <2>1, <2>4, ValuesAre, JoueurOwns DEF Fault, IInv, TypeOK
    <3> QED
      BY <2>1, <2>4, <3>1, AsFailed DEF Queue, Size, Vec
  <2> QED
    BY <1>2, <2>2, <2>3, <2>4 DEF VectorPush
<1> QED
  BY <1>1, <1>2

\* Nobody is returned.
LEMMA NobodyRefines ==
    ASSUME IInv, PopNothing \/ GetNothing
    PROVE  Refines
<1>1. fate = "ok" /\ ~converting /\ hand = NoHand
  BY DEF PopNothing, GetNothing, Calm
<1>2. CASE Become("undefined")
  BY <1>1, <1>2, BecomeRefines
<1>3. CASE /\ hand' = Nobody /\ UNCHANGED <<list, vector, converting, faults, fate>>
           /\ len' = len
  <2>1. Promise!Nobody
    BY <1>1, <1>3 DEF Promise!Nobody, Promise!Free, Promise!Invalid, Nobody
  <2> QED
    BY <1>1, <1>3, <2>1, AsCall DEF Promise!Call
<1> QED
  BY <1>2, <1>3 DEF PopNothing, GetNothing, LenAfterPop

\* What is taken out of a value is a copy of it.
LEMMA Extracted ==
    ASSUME NEW e \in Stored, NEW c \in Copies(e.games), faults' = 0 => c.faults = 0
    PROVE  LET j == [valid |-> TRUE, who |-> e.who, games |-> c.games]
           IN  Promise!Holds(j, e)
<1>1. e.who \in Names /\ e.games \in SUBSET Games
  BY DEF Stored
<1>2. c.games \subseteq e.games /\ (c.faults = 0 => c.games = e.games)
  BY <1>1, Copied
<1> DEFINE j == [valid |-> TRUE, who |-> e.who, games |-> c.games]
<1>3. j \in Joueur /\ j # NoHand /\ j.valid
  BY <1>1, <1>2, HandOwns, PlayersAssumption
<1>4. j.who = e.who /\ j.games = c.games
  OBVIOUS
<1> HIDE DEF j
<1>5. Promise!Copy(e, j)
  BY <1>2, <1>4 DEF Promise!Copy
<1> QED
  BY <1>3, <1>5 DEF Promise!Holds, j

\* What is popped is a copy of the first, or nobody when he could not be extracted.
LEMMA PopRefines ==
    ASSUME IInv, PopFront \/ PopFailed
    PROVE  Refines
<1>1. /\ fate = "ok" /\ ~converting /\ hand = NoHand /\ list \in Seq(Stored)
      /\ list # Absent /\ list # <<>> /\ faults \in Nat
  BY PlayersAssumption DEF PopFront, PopFailed, Calm, IInv, TypeOK
<1>2. Head(list) \in Stored /\ Head(list).games \in SUBSET Games
  BY <1>1, NbInSeq DEF Stored
<1>3. CASE PopFront
  <2>1. CASE ShortCopy(Head(list).games) \/ Become("undefined")
    BY <1>1, <2>1, ShortCopyRefines, BecomeRefines
  <2>2. ASSUME NEW c \in Copies(Head(list).games), Fault(c.faults),
               hand' = [valid |-> TRUE, who |-> Head(list).who, games |-> c.games],
               list' = Tail(list), len' = LenAfterPop,
               UNCHANGED <<vector, converting, fate>>
        PROVE  Refines
    <3>1. faults' = faults + c.faults /\ c.faults \in Nat
      BY <1>2, <2>2, CopiesAre DEF Fault
    <3>2. faults' = 0 => faults = 0 /\ c.faults = 0
      BY <1>1, <3>1
    <3>3. Promise!Holds(hand', Head(list))
      BY <1>2, <2>2, <3>2, Extracted
    <3>4. Promise!Pop
      BY <1>1, <2>2, <3>3 DEF Promise!Pop, Promise!Free, LenAfterPop
    <3> QED
      BY <1>1, <2>2, <3>2, <3>4, AsCall DEF Promise!Call
  <2> QED
    BY <1>3, <2>1, <2>2 DEF PopFront
<1>4. CASE PopFailed
  <2>1. PICK c \in Copies(Head(list).games) : PopFails(c)
    BY <1>4 DEF PopFailed
  <2>2. c.faults = 1
    BY <1>2, <2>1, CopiesAre DEF PopFails
  <2>3. /\ faults' # 0 /\ list' = Tail(list) /\ len' = len /\ hand' = Nobody
        /\ UNCHANGED <<vector, converting, fate>>
    BY <1>1, <1>4, <2>1, <2>2 DEF PopFailed, PopFails, Fault
  <2>4. Promise!Pop
    BY <1>1, <2>3 DEF Promise!Pop, Promise!Free, Promise!Invalid, Nobody
  <2> QED
    BY <1>1, <2>3, <2>4, AsCall DEF Promise!Call
<1> QED
  BY <1>3, <1>4

\* What is got is a copy of the one asked for.
LEMMA GetRefines ==
    ASSUME IInv, NEW i \in 1..MaxLen, GetAt(i)
    PROVE  Refines
<1>1. /\ fate = "ok" /\ ~converting /\ hand = NoHand /\ vector \in Seq(Stored)
      /\ vector # Absent /\ i \in DOMAIN vector /\ faults \in Nat
  BY PlayersAssumption DEF GetAt, Calm, IInv, TypeOK
<1>2. vector[i] \in Stored /\ vector[i].games \in SUBSET Games
  <2>1. DOMAIN vector = 1..Len(vector) /\ \A m \in 1..Len(vector) : vector[m] \in Stored
    BY <1>1
  <2>2. vector[i] \in Stored
    BY <1>1, <2>1
  <2> QED
    BY <2>2 DEF Stored
<1>3. CASE ShortCopy(vector[i].games) \/ Become("undefined")
  BY <1>1, <1>3, ShortCopyRefines, BecomeRefines
<1>4. ASSUME NEW c \in Copies(vector[i].games), Fault(c.faults),
             hand' = [valid |-> TRUE, who |-> vector[i].who, games |-> c.games],
             UNCHANGED <<list, len, vector, converting, fate>>
      PROVE  Refines
  <2>1. faults' = faults + c.faults /\ c.faults \in Nat
    BY <1>2, <1>4, CopiesAre DEF Fault
  <2>2. faults' = 0 => faults = 0 /\ c.faults = 0
    BY <1>1, <2>1
  <2>3. Promise!Holds(hand', vector[i])
    BY <1>2, <1>4, <2>2, Extracted
  <2>4. Promise!Get(i)
    BY <1>1, <1>4, <2>3 DEF Promise!Get, Promise!Free
  <2> QED
    BY <1>1, <1>4, <2>2, <2>4, AsCall DEF Promise!Call
<1> QED
  BY <1>3, <1>4 DEF GetAt

\* The parts of two sequences one after the other.
LEMMA WholePart ==
    ASSUME NEW D, NEW s \in Seq(D)
    PROVE  SubSeq(s, 1, Len(s)) = s /\ SubSeq(s, Len(s) + 1, Len(s)) = <<>>
  OBVIOUS

\* A sequence after or before the empty one.
LEMMA WithNone ==
    ASSUME NEW D, NEW s \in Seq(D)
    PROVE  <<>> \o s = s /\ s \o <<>> = s
  OBVIOUS

\* The first of what follows can be taken with what precedes.
LEMMA Rejoined ==
    ASSUME NEW D, NEW s \in Seq(D), NEW t \in Seq(D), t # <<>>
    PROVE  s \o t = Append(s, Head(t)) \o Tail(t)
  OBVIOUS

\* What two sequences one after the other have.
LEMMA Joined ==
    ASSUME NEW D, NEW s \in Seq(D), NEW t \in Seq(D)
    PROVE  /\ s \o t \in Seq(D) /\ Len(s \o t) = Len(s) + Len(t)
           /\ \A i \in 1..Len(s \o t) :
                 (s \o t)[i] = IF i <= Len(s) THEN s[i] ELSE t[i - Len(s)]
  OBVIOUS

\* Each of the two is a part of them.
LEMMA FirstPart ==
    ASSUME NEW D, NEW s \in Seq(D), NEW t \in Seq(D)
    PROVE  SubSeq(s \o t, 1, Len(s)) = s /\ SubSeq(s \o t, Len(s) + 1, Len(s \o t)) = t
  OBVIOUS

\* The conversion begins: nothing is seen of it.
LEMMA StartRefines ==
    ASSUME IInv, StartConversion
    PROVE  Refines
<1>1. /\ fate = "ok" /\ ~converting /\ list # Absent /\ list \in Seq(Stored)
      /\ vector = Absent /\ len \in Nat
  BY DEF StartConversion, Calm, IInv, TypeOK
<1>2. CASE Become("undefined")
  BY <1>1, <1>2, BecomeRefines
<1>3. CASE /\ converting' = TRUE /\ vector' = <<>>
           /\ UNCHANGED <<list, len, hand, mem, faults, fate, debug>>
  <2>1. <<>> \o list = list /\ len + Len(<<>>) = len
    BY <1>1, WithNone
  <2>2. UNCHANGED <<Queue, Size, Vec>>
    BY <1>1, <1>3, <2>1 DEF Queue, Size, Vec
  <2> QED
    BY <1>3, <2>2 DEF Refines
<1> QED
  BY <1>2, <1>3 DEF StartConversion

\* All are moved at once.
LEMMA MoveRefines ==
    ASSUME IInv, Told, MoveAll
    PROVE  Refines
<1>1. /\ fate = "ok" /\ ~converting /\ list # Absent /\ list \in Seq(Stored)
      /\ vector = Absent /\ len \in Nat /\ Len(list) \in Nat /\ Len(list) <= len
  BY NbInSeq DEF MoveAll, Calm, IInv, TypeOK
<1>2. CASE Become("undefined")
  BY <1>1, <1>2, BecomeRefines
<1>3. CASE list = <<>> /\ fate' = "undefined" /\ UNCHANGED <<list, faults>>
  BY <1>1, <1>3, AsHalt DEF Queue
<1>4. CASE /\ vector' = list /\ list' = <<>> /\ len' = 0
           /\ UNCHANGED <<hand, converting, faults, fate>>
  <2> DEFINE n == Len(list)
  <2>1. SubSeq(list, 1, n) = list /\ SubSeq(list, n + 1, n) = <<>> /\ n \in 0..n
    BY <1>1
  <2>2. Promise!Remains(list, list)
    BY <1>1, AllRemain
  <2>3. faults = 0 => len = n
    BY <1>1 DEF Told
  <2>4. 0 <= len /\ (faults' = 0 => 0 = len - n)
    BY <1>1, <1>4, <2>3
  <2> HIDE DEF n
  <2>5. Promise!Convert(n)
    BY <1>1, <1>4, <2>1, <2>2, <2>4 DEF Promise!Convert, n
  <2> QED
    BY <1>1, <1>4, <2>1, <2>5, AsCall DEF Promise!Call, n
<1> QED
  BY <1>2, <1>3, <1>4 DEF MoveAll


\* The player moved is the same, has fewer games, or is lost.
LEMMA ConvertOneRefines ==
    ASSUME IInv, ConvertOne
    PROVE  Refines
<1> DEFINE e == Head(list)
<1>1. /\ fate = "ok" /\ converting /\ list # Absent /\ vector # Absent
      /\ list \in Seq(Stored) /\ vector \in Seq(Stored) /\ list # <<>>
      /\ Len(list) <= len /\ len \in Nat /\ faults \in Nat
  BY PlayersAssumption DEF ConvertOne, IInv, TypeOK, Converts
<1>2. /\ e \in Stored /\ Len(list) \in Nat /\ Len(list) > 0
      /\ Tail(list) \in Seq(Stored) /\ Len(Tail(list)) = Len(list) - 1 /\ Len(vector) \in Nat
  BY <1>1, NbInSeq
<1>3. e.who \in Names /\ e.games \in SUBSET Games
  BY <1>2 DEF Stored
<1>4. CASE ShortCopy(e.games) \/ Become("undefined")
  BY <1>1, <1>4, BecomeRefines, ShortCopyRefines
<1>5. ASSUME NEW c \in Copies(e.games), NEW j, j = [who |-> e.who, games |-> c.games],
             c.ok, NEW v \in Values(j), Fault(c.faults + v.faults),
             IF v.ok THEN vector' = Append(vector, Serial(j, v)) /\ UNCHANGED fate
             ELSE UNCHANGED vector /\ fate' = IF debug THEN "aborted" ELSE "ok",
             list' = Tail(list), len' = len - 1,
             UNCHANGED <<hand, converting, debug>>
      PROVE  Refines
  <2>1. /\ j.who = e.who /\ j.games = c.games /\ c.faults \in Nat
        /\ c.games \subseteq e.games /\ (c.faults = 0 => c.games = e.games)
    BY <1>3, <1>5, CopiesAre, Copied
  <2>2. v.faults \in Nat /\ (~v.ok => v.faults = 1)
    BY <1>3, <2>1, ValuesAre
  <2>3. faults' = faults + c.faults + v.faults
    BY <1>1, <1>5, <2>1, <2>2 DEF Fault
  <2>4. faults' = 0 => faults = 0 /\ c.faults = 0 /\ v.faults = 0
    BY <1>1, <2>1, <2>2, <2>3
  <2>5. converting' /\ Queue = vector \o list /\ Queue' = vector' \o Tail(list)
        /\ Vec = Absent /\ Vec' = Absent
    BY <1>1, <1>5 DEF Queue, Vec
  <2>6. Queue \in Seq(Stored) /\ Len(Queue) = Len(vector) + Len(list)
    BY <1>1, <2>5, Joined
  <2>7. CASE v.ok
    <3> DEFINE x == Serial(j, v)
    <3>1. x.who = e.who /\ x.games \subseteq e.games /\ (faults' = 0 => x = e)
      <4>1. v.games \subseteq j.games /\ (v.faults = 0 => v.games = j.games)
        BY <1>3, <2>1, <2>7, Serialised
      <4>2. x.who = e.who /\ x.games = v.games /\ x = [who |-> e.who, games |-> v.games]
        BY <2>1 DEF Serial
      <4>3. e = [who |-> e.who, games |-> e.games]
        BY <1>2 DEF Stored
      <4> QED
        BY <2>1, <2>4, <4>1, <4>2, <4>3
    <3>2. x \in Stored
      <4>1. x = [who |-> j.who, games |-> v.games]
        BY DEF Serial
      <4>2. j.who \in Names /\ v.games \in SUBSET Games
        BY <1>3, <2>1, ValuesAre
      <4> QED
        BY <4>1, <4>2 DEF Stored
    <3>3. vector' = Append(vector, x) /\ fate' = "ok"
      BY <1>1, <1>5, <2>7
    <3> HIDE DEF x
    <3>4. Size' = Size
      <4>1. Len(vector') = Len(vector) + 1
        BY <1>1, <3>2, <3>3
      <4> QED
        BY <1>1, <1>2, <1>5, <2>5, <4>1 DEF Size
    <3>5. Queue' = Append(vector, x) \o Tail(list)
      BY <2>5, <3>3
    <3>6. Queue = Append(vector, e) \o Tail(list)
      BY <1>1, <2>5, Rejoined
    <3>7. CASE faults' = 0
      <4>1. Queue' = Queue /\ faults = 0
        BY <2>4, <3>1, <3>5, <3>6, <3>7
      <4> QED
        BY <1>1, <1>5, <2>5, <3>3, <3>4, <3>7, <4>1 DEF Refines
    <3>8. CASE faults' # 0
      <4>1. /\ Append(vector, x) \in Seq(Stored) /\ Append(vector, e) \in Seq(Stored)
            /\ Len(Append(vector, x)) = Len(vector) + 1
            /\ Len(Append(vector, e)) = Len(vector) + 1
            /\ \A i \in 1..(Len(vector) + 1) :
                  /\ Append(vector, x)[i] = IF i = Len(vector) + 1 THEN x ELSE vector[i]
                  /\ Append(vector, e)[i] = IF i = Len(vector) + 1 THEN e ELSE vector[i]
        BY <1>1, <1>2, <3>2
      <4>2. /\ Queue' \in Seq(Stored) /\ Len(Queue') = Len(Queue)
        BY <1>2, <3>5, <3>6, <4>1, Joined
      <4>3. \A i \in 1..Len(Queue) :
               Queue'[i] = IF i = Len(vector) + 1 THEN x ELSE Queue[i]
        <5> SUFFICES ASSUME NEW i \in 1..Len(Queue)
                     PROVE  Queue'[i] = IF i = Len(vector) + 1 THEN x ELSE Queue[i]
          OBVIOUS
        <5> DEFINE n == Len(vector) + 1
        <5>1. n \in Nat /\ i \in Int /\ i >= 1
          BY <1>2
        <5>2. /\ Queue'[i] = IF i <= n THEN Append(vector, x)[i] ELSE Tail(list)[i - n]
              /\ Queue[i] = IF i <= n THEN Append(vector, e)[i] ELSE Tail(list)[i - n]
          BY <1>2, <3>5, <3>6, <4>1, <4>2, Joined
        <5>3. i <= n => Append(vector, x)[i] = (IF i = n THEN x ELSE vector[i])
                        /\ Append(vector, e)[i] = (IF i = n THEN e ELSE vector[i])
          BY <4>1, <5>1
        <5> HIDE DEF n
        <5>4. CASE i = n
          BY <5>1, <5>2, <5>3, <5>4 DEF n
        <5>5. CASE i < n
          <6>1. i <= n /\ i # n
            BY <5>1, <5>5
          <6>2. Queue'[i] = vector[i] /\ Queue[i] = vector[i]
            BY <5>2, <5>3, <6>1
          <6> QED
            BY <6>1, <6>2 DEF n
        <5>6. CASE i > n
          <6>1. ~(i <= n) /\ i # n
            BY <5>1, <5>6
          <6>2. Queue'[i] = Queue[i]
            BY <5>2, <6>1
          <6> QED
            BY <6>1, <6>2 DEF n
        <5> QED
          BY <5>1, <5>4, <5>5, <5>6
      <4>4. Queue[Len(vector) + 1] = e
        <5>1. /\ Len(vector) + 1 \in 1..Len(Append(vector, e) \o Tail(list))
              /\ Len(vector) + 1 <= Len(Append(vector, e))
              /\ Append(vector, e)[Len(vector) + 1] = e
          BY <1>2, <2>6, <3>6, <4>1
        <5> QED
          BY <1>2, <3>6, <4>1, <5>1, Joined
      <4>5. \A i \in 1..Len(Queue) : Queue'[i].who = Queue[i].who
                                     /\ Queue'[i].games \subseteq Queue[i].games
        BY <3>1, <4>3, <4>4
      <4>6. Promise!Remains(Queue, Queue')
        BY <2>6, <3>8, <4>2, <4>5, AllRemain
      <4>7. Absent \notin {Queue, Queue'}
        BY <2>6, <4>2, NbInSeq
      <4>8. Size \in Nat /\ Size' <= Size /\ Len(Queue') <= Len(Queue)
        BY <1>1, <1>2, <2>6, <3>4, <4>2 DEF Size
      <4>9. Promise!Failed
        BY <1>5, <2>5, <3>8, <4>6, <4>7, <4>8 DEF Promise!Failed, Queue, Size, Vec
      <4> QED
        BY <1>1, <3>3, <3>8, <4>9, AsCall DEF Promise!Call
    <3> QED
      BY <3>7, <3>8
  <2>8. CASE ~v.ok
    <3>1. faults' # 0 /\ vector' = vector
      BY <1>1, <1>5, <2>1, <2>2, <2>3, <2>8
    <3>2. CASE fate' # "ok"
      BY <1>1, <3>1, <3>2, AsHalt
    <3>3. CASE fate' = "ok"
      <4> DEFINE k == Len(vector) + 1
      <4>1. Queue' = vector \o Tail(list)
        BY <2>5, <3>1
      <4>2. Queue' \in Seq(Stored) /\ Len(Queue') = Len(Queue) - 1
        BY <1>1, <1>2, <2>6, <4>1, Joined
      <4>3. k \in 1..Len(Queue)
        BY <1>2, <2>6
      <4>4. \A i \in 1..Len(Queue') : Queue'[i] = IF i < k THEN Queue[i] ELSE Queue[i + 1]
        <5> SUFFICES ASSUME NEW i \in 1..Len(Queue')
                     PROVE  Queue'[i] = IF i < k THEN Queue[i] ELSE Queue[i + 1]
          OBVIOUS
        <5>1. /\ i \in Int /\ i >= 1 /\ i \in 1..Len(Queue) /\ i + 1 \in 1..Len(Queue)
              /\ Len(vector) \in Nat
          BY <1>2, <2>6, <4>2
        <5>2. Queue'[i] = IF i <= Len(vector) THEN vector[i] ELSE Tail(list)[i - Len(vector)]
          BY <1>1, <1>2, <4>1, Joined
        <5>3. Queue[i] = IF i <= Len(vector) THEN vector[i] ELSE list[i - Len(vector)]
          BY <1>1, <2>5, <5>1, Joined
        <5>4. Queue[i + 1] = IF i + 1 <= Len(vector) THEN vector[i + 1]
                             ELSE list[i + 1 - Len(vector)]
          BY <1>1, <2>5, <5>1, Joined
        <5>5. i > Len(vector) => Tail(list)[i - Len(vector)] = list[i + 1 - Len(vector)]
          <6>1. \A m \in 1..Len(Tail(list)) : Tail(list)[m] = list[m + 1]
            BY <1>1, <1>2
          <6>2. i > Len(vector) => i - Len(vector) \in 1..Len(Tail(list))
                                   /\ i - Len(vector) + 1 = i + 1 - Len(vector)
            BY <1>2, <2>6, <4>2, <5>1
          <6> QED
            BY <6>1, <6>2
        <5>6. CASE i < k
          <6>1. i <= Len(vector)
            BY <5>1, <5>6
          <6> QED
            BY <5>2, <5>3, <5>6, <6>1
        <5>7. CASE i >= k
          <6>1. i > Len(vector) /\ ~(i <= Len(vector)) /\ ~(i + 1 <= Len(vector)) /\ ~(i < k)
            BY <5>1, <5>7
          <6> QED
            BY <5>2, <5>4, <5>5, <6>1
        <5> QED
          BY <5>1, <5>6, <5>7
      <4> HIDE DEF k
      <4>5. Promise!Remains(Queue, Queue')
        BY <2>6, <3>1, <4>2, <4>3, <4>4, OthersRemain
      <4>6. Absent \notin {Queue, Queue'} /\ Len(Queue') <= Len(Queue)
        BY <1>2, <2>6, <4>2, NbInSeq
      <4>7. Size' <= Size
        BY <1>1, <1>2, <1>5, <2>5, <3>1 DEF Size
      <4>8. Promise!Failed
        BY <1>5, <2>5, <3>1, <4>5, <4>6, <4>7 DEF Promise!Failed, Queue, Size, Vec
      <4> QED
        BY <1>1, <3>1, <3>3, <4>8, AsCall DEF Promise!Call
    <3> QED
      BY <3>2, <3>3
  <2> QED
    BY <2>7, <2>8
<1>6. \/ ShortCopy(e.games) \/ Become("undefined")
      \/ \E c \in Copies(e.games), j \in {[who |-> e.who, games |-> d.games] : d \in Copies(e.games)} :
            /\ j = [who |-> e.who, games |-> c.games] /\ c.ok
            /\ \E v \in Values(j) :
                  /\ Fault(c.faults + v.faults)
                  /\ IF v.ok THEN vector' = Append(vector, Serial(j, v)) /\ UNCHANGED fate
                     ELSE UNCHANGED vector /\ fate' = IF debug THEN "aborted" ELSE "ok"
            /\ list' = Tail(list) /\ len' = len - 1
            /\ UNCHANGED <<hand, converting, debug>>
  BY DEF ConvertOne
<1> QED
  BY <1>4, <1>5, <1>6

\* Those converted are the vector, and the others stay in the list.
LEMMA EndConversionRefines ==
    ASSUME IInv, EndConversion
    PROVE  Refines
<1>1. /\ fate = "ok" /\ converting /\ ~converting' /\ list # Absent /\ vector # Absent
      /\ list \in Seq(Stored) /\ vector \in Seq(Stored) /\ vector' = vector
      /\ len \in Nat /\ faults \in Nat /\ Len(vector) \in Nat /\ len' = len
      /\ fate' \in {"ok", "aborted"} /\ (fate' # "ok" => vector = <<>>)
      /\ UNCHANGED <<hand, debug>>
  BY PlayersAssumption DEF EndConversion, IInv, TypeOK, Converts
<1>2. /\ Queue = vector \o list /\ Vec = Absent /\ Size = len + Len(vector)
      /\ Queue' = list' /\ Vec' = vector /\ Size' = len
  BY <1>1 DEF Queue, Vec, Size
<1>3. Size' <= Size /\ Size' = Size - Len(vector)
  BY <1>1, <1>2
<1>4. CASE list = <<>> /\ UNCHANGED <<list, faults>>
  <2>1. Queue = vector /\ Queue' = <<>>
    BY <1>1, <1>2, <1>4, WithNone
  <2>2. CASE fate' # "ok"
    BY <1>1, <1>4, <2>1, <2>2, AsHalt
  <2>3. CASE fate' = "ok"
    <3>1. Promise!Remains(vector, vector)
      BY <1>1, AllRemain
    <3>2. /\ SubSeq(Queue, 1, Len(vector)) = vector
          /\ SubSeq(Queue, Len(vector) + 1, Len(Queue)) = <<>>
      BY <1>1, <2>1, WholePart
    <3>3. Promise!Convert(Len(vector))
      BY <1>1, <1>2, <1>3, <2>1, <3>1, <3>2 DEF Promise!Convert, Queue, Size, Vec
    <3>4. Queue # Absent /\ Len(vector) \in 0..Len(Queue)
      BY <1>1, <2>1
    <3>5. Promise!Call
      BY <3>3, <3>4 DEF Promise!Call, Queue
    <3> QED
      BY <1>1, <1>4, <2>3, <3>5, AsCall
  <2> QED
    BY <2>2, <2>3
<1>5. CASE list # <<>> /\ (\E c \in Copies(Head(list).games) :
                              ~c.ok /\ Fault(c.faults) /\ list' = Tail(list))
  <2>1. PICK c \in Copies(Head(list).games) : ~c.ok /\ Fault(c.faults) /\ list' = Tail(list)
    BY <1>5
  <2>2. /\ Head(list) \in Stored /\ Head(list).games \in SUBSET Games
        /\ Tail(list) \in Seq(Stored) /\ Len(list) \in Nat /\ Len(list) > 0
        /\ Len(Tail(list)) = Len(list) - 1
    BY <1>1, <1>5, NbInSeq DEF Stored
  <2>3. faults' # 0
    BY <1>1, <2>1, <2>2, CopiesAre DEF Fault
  <2>4. CASE fate' # "ok"
    BY <1>1, <2>3, <2>4, AsHalt
  <2>5. CASE fate' = "ok"
    <3> DEFINE w == Append(vector, Head(list))
    <3>1. /\ w \in Seq(Stored) /\ Len(w) = Len(vector) + 1
          /\ \A i \in 1..Len(vector) : w[i] = vector[i]
      BY <1>1, <2>2
    <3>2. Queue = w \o Tail(list)
      BY <1>1, <1>2, <1>5, Rejoined
    <3> HIDE DEF w
    <3>3. /\ SubSeq(Queue, 1, Len(w)) = w
          /\ SubSeq(Queue, Len(w) + 1, Len(Queue)) = Tail(list)
          /\ Queue \in Seq(Stored) /\ Len(Queue) = Len(w) + Len(Tail(list))
      <4> DEFINE t == Tail(list)
      <4>1. t \in Seq(Stored)
        BY <2>2
      <4> HIDE DEF t
      <4>2. SubSeq(w \o t, 1, Len(w)) = w /\ SubSeq(w \o t, Len(w) + 1, Len(w \o t)) = t
        BY <3>1, <4>1, FirstPart
      <4>3. w \o t \in Seq(Stored) /\ Len(w \o t) = Len(w) + Len(t)
        BY <3>1, <4>1, Joined
      <4> QED
        BY <3>2, <4>2, <4>3 DEF t
    <3>4. Promise!Remains(w, vector)
      <4>1. /\ Len(w) \in 1..Len(w) /\ Len(vector) = Len(w) - 1
            /\ \A i \in 1..Len(vector) : i < Len(w)
        BY <1>1, <3>1
      <4>2. \A i \in 1..Len(vector) : vector[i] = IF i < Len(w) THEN w[i] ELSE w[i + 1]
        BY <3>1, <4>1
      <4> QED
        BY <1>1, <2>3, <3>1, <4>1, <4>2, OthersRemain
    <3>5. Promise!Convert(Len(w))
      BY <1>1, <1>2, <1>3, <2>1, <2>3, <3>3, <3>4 DEF Promise!Convert, Queue, Size, Vec
    <3>6. Queue # Absent /\ Len(w) \in 0..Len(Queue)
      BY <1>1, <2>2, <3>1, <3>3, NbInSeq
    <3>7. Promise!Call
      BY <3>5, <3>6 DEF Promise!Call, Queue
    <3> QED
      BY <1>1, <2>3, <2>5, <3>7, AsCall
  <2> QED
    BY <2>4, <2>5
<1> QED
  BY <1>4, <1>5 DEF EndConversion

\* Every step is one of the promise, or is not seen.
LEMMA StepRefines ==
    ASSUME IInv, Told, [Next]_vars
    PROVE  Refines
<1>1. CASE (\E n \in Names : Make(n)) \/ Release
  BY <1>1, CallerRefines
<1>2. CASE NewList \/ FreeList \/ NewVector \/ FreeVector
  BY <1>2, ContainersRefine
<1>3. CASE PushBack \/ VectorPush
  BY <1>3, PushesRefine
<1>4. CASE PopNothing \/ GetNothing
  BY <1>4, NobodyRefines
<1>5. CASE PopFront \/ PopFailed
  BY <1>5, PopRefines
<1>6. CASE \E i \in 1..MaxLen : GetAt(i)
  BY <1>6, GetRefines
<1>7. CASE StartConversion
  BY <1>7, StartRefines
<1>8. CASE Convert
  BY <1>8, ConvertOneRefines, EndConversionRefines DEF Convert
<1>9. CASE MoveAll
  BY <1>9, MoveRefines
<1>10. CASE UNCHANGED vars
  BY <1>10 DEF vars, Refines, Queue, Size, Vec
<1> QED
  BY <1>1, <1>2, <1>3, <1>4, <1>5, <1>6, <1>7, <1>8, <1>9, <1>10 DEF Next

\* The length told changes with the list, as long as nothing fails.
LEMMA ToldStep ==
    ASSUME IInv, Told, [Next]_vars
    PROVE  Told'
<1>1. /\ faults \in Nat /\ len \in Nat /\ list \in Seq(Stored) \cup {Absent}
      /\ NoHand \notin Joueur
  BY PlayersAssumption DEF IInv, TypeOK
<1>2. CASE faults' # 0
  BY <1>2 DEF Told
<1>3. CASE UNCHANGED <<list, len>> /\ (faults' = 0 => faults = 0)
  BY <1>3 DEF Told
<1>4. CASE list' = <<>> /\ len' = 0
  BY <1>4 DEF Told
<1>5. CASE list' = Absent
  BY <1>5 DEF Told
<1>6. ASSUME NEW o \in {"aborted", "undefined"}, Become(o) PROVE Told'
  BY <1>1, <1>2, <1>6 DEF Become, Fault
<1>7. ASSUME NEW g, ShortCopy(g) PROVE Told'
  BY <1>6, <1>7 DEF ShortCopy
<1>8. CASE \/ \E n \in Names : Make(n)
           \/ Release \/ NewList \/ FreeList \/ NewVector \/ FreeVector
           \/ PopNothing \/ GetNothing \/ StartConversion \/ MoveAll
  <2>1. /\ UNCHANGED faults \/ Become("undefined")
        /\ UNCHANGED <<list, len>> \/ (list' = <<>> /\ len' = 0) \/ list' = Absent
    BY <1>8 DEF Make, Release, NewList, FreeList, NewVector, FreeVector, PopNothing, GetNothing,
                StartConversion, MoveAll, Become, LenAfterPop
  <2> QED
    BY <1>3, <1>4, <1>5, <1>6, <2>1
<1>9. CASE PushBack \/ VectorPush
  <2>1. hand # NoHand /\ hand.valid /\ \A v \in Values(hand) : v.faults \in Nat
    BY <1>9, JoueurOwns, ValuesAre DEF PushBack, VectorPush, IInv, TypeOK
  <2>2. CASE ShortCopy(hand.games) \/ Become("undefined")
    BY <1>6, <1>7, <2>2
  <2>3. ASSUME NEW v \in Values(hand), Fault(v.faults), list # Absent,
               list' = Append(list, Serial(hand, v)), len' = len + 1
        PROVE  Told'
    <3>1. list \in Seq(Stored) /\ faults' = faults + v.faults /\ v.faults \in Nat
      BY <1>1, <2>1, <2>3 DEF Fault
    <3>2. hand.who \in Names /\ v.games \in SUBSET Games
      BY <2>1, JoueurOwns, ValuesAre DEF IInv, TypeOK
    <3>3. Serial(hand, v) \in Stored
      BY <3>2 DEF Serial, Stored
    <3>4. Len(list') = Len(list) + 1
      BY <2>3, <3>1, <3>3, NbInSeq
    <3>5. faults' = 0 => faults = 0
      BY <1>1, <3>1
    <3> QED
      BY <2>3, <3>4, <3>5 DEF Told
  <2>4. ASSUME NEW v \in Values(hand), UNCHANGED <<list, len>>,
               Fault(v.faults) \/ Fault(IF v.ok THEN v.faults + 1 ELSE v.faults)
        PROVE  Told'
    <3>1. faults' = 0 => faults = 0
      BY <1>1, <2>1, <2>4 DEF Fault
    <3> QED
      BY <1>3, <2>4, <3>1
  <2> QED
    BY <1>9, <2>2, <2>3, <2>4 DEF PushBack, VectorPush
<1>10. ASSUME list \notin {Absent, <<>>}, NEW n \in Nat, Fault(n),
              list' = Tail(list), len' = len - 1
       PROVE  Told'
  <2>1. Len(list') = Len(list) - 1 /\ (faults' = 0 => faults = 0)
    BY <1>1, <1>10, NbInSeq DEF Fault
  <2> QED
    BY <1>10, <2>1 DEF Told
<1>11. CASE PopFront \/ PopFailed \/ ConvertOne \/ (EndConversion /\ list # <<>>)
  <2>1. list \notin {Absent, <<>>} /\ list \in Seq(Stored)
    BY <1>1, <1>11 DEF PopFront, PopFailed, ConvertOne, EndConversion, IInv, Converts
  <2>2. Head(list).games \in SUBSET Games
    BY <2>1, NbInSeq DEF Stored
  <2>3. CASE ShortCopy(Head(list).games) \/ Become("undefined")
    BY <1>6, <1>7, <2>3
  <2>4. CASE PopFront
    <3>1. ASSUME NEW c \in Copies(Head(list).games), Fault(c.faults),
                 list' = Tail(list), len' = LenAfterPop
          PROVE  Told'
      BY <1>10, <2>1, <2>2, <3>1, CopiesAre DEF LenAfterPop
    <3> QED
      BY <2>3, <2>4, <3>1 DEF PopFront
  <2>5. CASE ConvertOne
    <3>1. ASSUME NEW c \in Copies(Head(list).games), NEW w,
                 NEW v \in Values([who |-> w, games |-> c.games]),
                 Fault(c.faults + v.faults), list' = Tail(list), len' = len - 1
          PROVE  Told'
      <4> DEFINE j == [who |-> w, games |-> c.games]
      <4>1. c.faults \in Nat /\ j.games \in SUBSET Games
        BY <2>2, CopiesAre
      <4>2. v.faults \in Nat
        BY <4>1, ValuesAre
      <4>3. c.faults + v.faults \in Nat
        BY <4>1, <4>2
      <4> QED
        BY <1>10, <2>1, <3>1, <4>3
    <3> QED
      BY <2>3, <2>5, <3>1 DEF ConvertOne
  <2>6. CASE PopFailed \/ (EndConversion /\ list # <<>>)
    <3>1. \E c \in Copies(Head(list).games) : ~c.ok /\ Fault(c.faults)
      BY <2>6 DEF PopFailed, PopFails, EndConversion
    <3>2. faults' # 0
      BY <1>1, <2>2, <3>1, CopiesAre DEF Fault
    <3> QED
      BY <1>2, <3>2
  <2> QED
    BY <1>11, <2>4, <2>5, <2>6
<1>12. CASE EndConversion /\ list = <<>>
  BY <1>3, <1>12 DEF EndConversion
<1>13. ASSUME NEW i \in 1..MaxLen, GetAt(i) PROVE Told'
  <2>1. vector[i].games \in SUBSET Games
    <3>1. vector \in Seq(Stored) /\ i \in DOMAIN vector
      BY <1>13 DEF GetAt, IInv, TypeOK
    <3>2. DOMAIN vector = 1..Len(vector) /\ \A m \in 1..Len(vector) : vector[m] \in Stored
      BY <3>1
    <3>3. vector[i] \in Stored
      BY <3>1, <3>2
    <3> QED
      BY <3>3 DEF Stored
  <2>2. ASSUME NEW c \in Copies(vector[i].games), Fault(c.faults), UNCHANGED <<list, len>>
        PROVE  Told'
    <3>1. faults' = 0 => faults = 0
      BY <1>1, <2>1, <2>2, CopiesAre DEF Fault
    <3> QED
      BY <1>3, <2>2, <3>1
  <2> QED
    BY <1>6, <1>7, <1>13, <2>2 DEF GetAt
<1>14. CASE UNCHANGED vars
  BY <1>3, <1>14 DEF vars
<1> QED
  BY <1>8, <1>9, <1>11, <1>12, <1>13, <1>14 DEF Next, Convert

\* The list is a queue of players, whose copies go in and out: players and games
\* are lost only when memory is, and those who remain keep their order.
THEOREM PlayersImplemented == Spec => ImplementsPlayers
<1>1. Init => Told
  BY DEF Init, Told
<1>2. IInv /\ IInv' /\ Told /\ [Next]_vars => Told'
  BY ToldStep
<1>3. Init => Promise!Init
  BY DEF Init, Promise!Init
<1>4. IInv /\ Told /\ [Next]_vars => [Promise!Next]_(Promise!vars)
  BY StepRefines DEF Refines, Promise!vars, Queue, Size, Vec
<1>5. Spec => []IInv
  BY Invariance
<1> QED
  BY <1>1, <1>2, <1>3, <1>4, <1>5, PTL DEF Spec, ImplementsPlayers, Promise!Spec
=============================================================================
