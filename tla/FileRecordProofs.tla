-------------------------- MODULE FileRecordProofs --------------------------
(***************************************************************************)
(* Proofs about the record, for every file and every set of names.  The    *)
(* first part of the invariant holds of any file; the second says how far  *)
(* a scan has got, in a file that has the documented form.                 *)
(***************************************************************************)
EXTENDS FileRecord, FiniteSetTheorems, TLAPS

\* What each phase knows of the line last read and of the player returned.
Shape ==
    /\ phase \in {"new", "seek", "name", "count"} => joueur = Pending
    /\ phase = "scores" =>
          /\ joueur \in Joueur /\ joueur.valid /\ KeysUnique(joueur.scores)
          /\ nextId = joueur.id + 1
    /\ phase = "seek" /\ found => line \in Line
    /\ phase \in {"name", "scores"} => line \in Line

\* None of the players down to line p is the one asked for.
PassedBy(p) == \A i \in Heads(file) : i <= p => file[i].word # asked

\* The player returned is that of line h, with his scores down to line pos.
Reads(h) ==
    /\ h <= pos /\ file[h].word = asked /\ PassedBy(h - 1)
    /\ \A k \in (h + 1)..pos : ~file[k].sep
    /\ joueur.name = asked
    /\ joueur.daltonien = FlagOf(file[h], 1) /\ joueur.admin = FlagOf(file[h], 2)
    /\ ScoresOf(file, h, pos, joueur.scores)

Separators(p) == {i \in 1..p : file[i].sep}

\* How far a scan has got.
Progress ==
    WellFormed(file) =>
        /\ phase = "seek" /\ ~found => PassedBy(pos) /\ (pos > 0 => ~file[pos].sep)
        /\ phase = "seek" /\ found => pos > 0 /\ file[pos].sep /\ PassedBy(pos)
        /\ phase = "name" => pos \in Heads(file) /\ line = file[pos] /\ PassedBy(pos - 1)
        /\ phase = "scores" => \E h \in Heads(file) : Reads(h)
        /\ phase = "count" => counter = Cardinality(Separators(pos))

Form == TypeOK /\ OneStream /\ Shape

IInv == Form /\ Progress /\ AnswerIsWritten

-----------------------------------------------------------------------------
(* The map of scores *)

\* The empty map is a map.
LEMMA EmptyMap == <<>> \in Seq(Pair) /\ KeysUnique(<<>>)
  BY DEF KeysUnique

\* An insertion keeps the list typed and without duplicates.  The other names
\* keep their positions and their pairs, and the name has the new score.
LEMMA InsertSlots ==
    ASSUME NEW map \in Seq(Pair), KeysUnique(map),
           NEW n \in GameNames, NEW s \in Score
    PROVE  LET new == Insert(map, n, s) IN
           /\ new \in Seq(Pair) /\ KeysUnique(new)
           /\ Slots(new, n) # {} /\ \A i \in Slots(new, n) : new[i].score = s
           /\ \A g : g # n => /\ Slots(new, g) = Slots(map, g)
                              /\ \A i \in Slots(map, g) : new[i] = map[i]
<1> DEFINE new == Insert(map, n, s)
           pair == [name |-> n, score |-> s]
<1>0. pair \in Pair /\ DOMAIN map = 1..Len(map) /\ Len(map) \in Nat
  BY DEF Pair
<1>1. CASE Slots(map, n) = {}
  <2>1. /\ new \in Seq(Pair) /\ DOMAIN new = 1..(Len(map) + 1)
        /\ \A i \in 1..Len(map) : new[i] = map[i]
        /\ new[Len(map) + 1] = pair
    BY <1>0, <1>1 DEF Insert
  <2>2. Slots(new, n) = {Len(map) + 1}
    BY <1>0, <1>1, <2>1 DEF Slots
  <2>3. \A g : g # n => Slots(new, g) = Slots(map, g)
    BY <1>0, <2>1 DEF Slots
  <2>4. KeysUnique(new)
    BY <1>0, <1>1, <2>1 DEF KeysUnique, Slots
  <2> QED
    BY <1>0, <2>1, <2>2, <2>3, <2>4 DEF Slots
<1>2. CASE Slots(map, n) # {}
  <2>1. PICK k \in DOMAIN map : map[k].name = n
    BY <1>2 DEF Slots
  <2>2. Slots(map, n) = {k}
    BY <2>1 DEF KeysUnique, Slots
  <2>3. k <= k
    BY <2>1
  <2>4. new = [map EXCEPT ![k].score = s]
    BY <1>2, <2>2, <2>3 DEF Insert, Find
  <2>5. /\ new \in Seq(Pair) /\ DOMAIN new = DOMAIN map
        /\ new[k].name = n /\ new[k].score = s
        /\ \A i \in DOMAIN map : i # k => new[i] = map[i]
    <3>1. map[k] \in Pair
      BY <2>1
    <3>2. [map[k] EXCEPT !.score = s] = pair
      BY <2>1, <3>1 DEF Pair
    <3> QED
      BY <1>0, <2>1, <2>4, <3>2
  <2>6. Slots(new, n) = {k} /\ KeysUnique(new)
    BY <2>1, <2>5 DEF KeysUnique, Slots
  <2>7. ASSUME NEW g, g # n PROVE Slots(new, g) = Slots(map, g) /\ k \notin Slots(map, g)
    BY <2>1, <2>5, <2>7 DEF Slots
  <2> QED
    BY <2>5, <2>6, <2>7 DEF Slots
<1> QED
  BY <1>1, <1>2

-----------------------------------------------------------------------------
(* Reading *)

\* The lines of a file are lines.
LEMMA FileLines ==
    ASSUME file \in Files
    PROVE  /\ file \in Seq(Line) /\ Len(file) \in Nat
           /\ \A i \in 1..Len(file) : file[i] \in Line
  BY RecordAssumption

\* An invalid player is a player.
LEMMA NobodyType == NoJoueur \in Joueur
  BY RecordAssumption DEF NoJoueur, Joueur

\* match_name() compares whole names.
LEMMA MatchIsEquality ==
    ASSUME NEW w \in Words, asked \in Names
    PROVE  MatchName(w) <=> w = asked
<1>1. w \in Seq(Chars) /\ asked \in Seq(Chars)
  BY RecordAssumption
<1>2. ASSUME MatchName(w) PROVE w = asked
  <2>1. Len(w) = Len(asked) /\ \A i \in 1..Len(w) : w[i] = asked[i]
    BY <1>1, <1>2 DEF MatchName, StartsWith
  <2> QED
    BY <1>1, <2>1
<1> QED
  BY <1>1, <1>2 DEF MatchName, StartsWith

-----------------------------------------------------------------------------
(* Types, streams and phases *)

\* The record before it is constructed.
LEMMA InitForm == Init => Form
<1> SUFFICES ASSUME Init PROVE Form
  OBVIOUS
<1>1. 0 \in 0..Len(file) /\ 0 \in 0..MaxLookups
  BY FileLines, RecordAssumption DEF Init
<1>2. TypeOK
  <2>1. /\ line \in Line \cup {Undefined} /\ found \in BOOLEAN
        /\ word \in Words \cup {Undefined} /\ num \in Score \cup {Undefined}
    BY DEF Init
  <2>2. joueur \in Joueur \cup {Pending}
    BY DEF Init
  <2> QED
    BY <1>1, <2>1, <2>2 DEF Init, TypeOK
<1>3. OneStream /\ Shape
  BY DEF Init, OneStream, Shape
<1> QED
  BY <1>2, <1>3 DEF Form

\* A step keeps the types, the stream and what a phase knows.
LEMMA StepForm == Form /\ [Next]_vars => Form'
<1> SUFFICES ASSUME Form, [Next]_vars PROVE Form'
  OBVIOUS
<1> USE DEF Form
<1>0. /\ file \in Seq(Line) /\ Len(file) \in Nat
      /\ \A i \in 1..Len(file) : file[i] \in Line
  BY FileLines DEF TypeOK
<1>1. CASE Construct
  BY <1>1 DEF Construct, TypeOK, OneStream, Shape, stream, locals
<1>2. CASE Delete
  BY <1>2 DEF Delete, TypeOK, OneStream, Shape, locals
<1>3. ASSUME NEW n \in Names, Lookup(n) PROVE Form'
  <2>1. 0 \in 0..Len(file) /\ lookups + 1 \in 0..MaxLookups
    BY <1>0, <1>3, RecordAssumption DEF Lookup, TypeOK
  <2>2. /\ line' \in Line \cup {Undefined} /\ found' \in BOOLEAN
        /\ word' \in Words \cup {Undefined} /\ num' \in Score \cup {Undefined}
    BY <1>3 DEF Lookup
  <2>3. joueur' \in Joueur \cup {Pending}
    BY <1>3, NobodyType DEF Lookup
  <2>4. TypeOK'
    BY <1>3, <2>1, <2>2, <2>3 DEF Lookup, OpenFile, CannotOpen, TypeOK, OneStream
  <2>5. OneStream' /\ Shape'
    BY <1>3 DEF Lookup, OpenFile, CannotOpen, OneStream, Shape
  <2> QED
    BY <2>4, <2>5
<1>4. CASE Seek
  BY <1>0, <1>4 DEF Seek, More, NextLine, Line, TypeOK, OneStream, Shape
<1>5. CASE NameLine
  BY <1>0, <1>5 DEF NameLine, More, NextLine, TypeOK, OneStream, Shape
<1>6. CASE NotFound
  BY <1>6, NobodyType DEF NotFound, CloseFile, TypeOK, OneStream, Shape, locals
<1>7. ASSUME NEW w \in Words, Pass(w) PROVE Form'
  BY <1>7 DEF Pass, TypeOK, OneStream, Shape, stream
<1>8. ASSUME NEW w \in Words, NEW n \in Words, Extract(w, n) PROVE Form'
  BY <1>8, EmptyMap DEF Extract, NextId, Flag, Line, Joueur, TypeOK, OneStream, Shape, stream
<1>9. ASSUME NEW s \in Score, ReadScore(s) PROVE Form'
  <2> DEFINE l == file[pos + 1]
  <2>1. /\ l \in Line /\ line' = l /\ pos' = pos + 1 /\ pos + 1 \in 0..Len(file)
        /\ joueur \in Joueur /\ KeysUnique(joueur.scores)
        /\ joueur' = [joueur EXCEPT !.scores = Insert(@, l.key, s)]
    BY <1>0, <1>9 DEF ReadScore, More, NextLine, TypeOK, Shape
  <2>2. joueur.scores \in Seq(Pair) /\ l.key \in GameNames
    BY <2>1 DEF Joueur, Line
  <2>3. /\ Insert(joueur.scores, l.key, s) \in Seq(Pair)
        /\ KeysUnique(Insert(joueur.scores, l.key, s))
    BY <2>1, <2>2, InsertSlots
  <2>4. /\ joueur' \in Joueur /\ KeysUnique(joueur'.scores)
        /\ joueur'.valid = joueur.valid /\ joueur'.id = joueur.id
    BY <2>1, <2>3 DEF Joueur
  <2> HIDE DEF l
  <2> QED
    BY <1>9, <2>1, <2>4 DEF ReadScore, TypeOK, OneStream, Shape
<1>10. CASE LongName
  BY <1>0, <1>10 DEF LongName, More, NextLine, TypeOK, OneStream, Shape
<1>11. CASE LastScore
  BY <1>0, <1>11 DEF LastScore, More, NextLine, CloseFile, TypeOK, OneStream, Shape
<1>12. CASE StartCount
  BY <1>12 DEF StartCount, OpenFile, CannotOpen, TypeOK, OneStream, Shape, locals
<1>13. CASE CountLine
  BY <1>0, <1>13 DEF CountLine, More, TypeOK, OneStream, Shape, locals
<1>14. CASE EndCount
  BY <1>14 DEF EndCount, CloseFile, TypeOK, OneStream, Shape, locals
<1>15. CASE UNCHANGED vars
  BY <1>15 DEF vars, stream, locals, TypeOK, OneStream, Shape
<1> QED
  BY <1>1, <1>2, <1>3, <1>4, <1>5, <1>6, <1>7, <1>8, <1>9, <1>10, <1>11, <1>12,
     <1>13, <1>14, <1>15 DEF Next, Scan

-----------------------------------------------------------------------------
(* The scan of a file that has the documented form *)

\* Lines and heads of a file.
LEMMA HeadLines ==
    ASSUME file \in Files
    PROVE  /\ Heads(file) \subseteq 2..Len(file)
           /\ \A i \in 1..(Len(file) - 1) : file[i].sep => i + 1 \in Heads(file)
           /\ \A i \in Heads(file) : file[i - 1].sep
           /\ WellFormed(file) => \A i \in Heads(file) : ~file[i].sep /\ file[i].word # <<>>
  BY FileLines DEF Heads, WellFormed, IsPlayerLine

\* One more line of scores: its game gets its numbers, the others keep theirs.
LEMMA ScoreStep ==
    ASSUME NEW f \in Seq(Line), NEW i \in Nat, NEW p \in Nat, i <= p, p + 1 <= Len(f),
           \A k \in (i + 1)..(p + 1) : ~f[k].sep,
           NEW map \in Seq(Pair), ScoresOf(f, i, p, map),
           NEW s \in Score, Says(f[p + 1], s)
    PROVE  ScoresOf(f, i, p + 1, Insert(map, f[p + 1].key, s))
<1> DEFINE key == f[p + 1].key
           new == Insert(map, key, s)
<1>1. key \in GameNames /\ KeysUnique(map)
  <2>1. f[p + 1] \in Line
    OBVIOUS
  <2> QED
    BY <2>1 DEF Line, ScoresOf
<1>2. KeysUnique(new)
  BY <1>1, InsertSlots
<1>3. /\ Slots(new, key) # {} /\ \A k \in Slots(new, key) : new[k].score = s
      /\ \A g : g # key => /\ Slots(new, g) = Slots(map, g)
                            /\ \A k \in Slots(map, g) : new[k] = map[k]
  BY <1>1, InsertSlots
<1> HIDE DEF new
<1>4. p + 1 \in Below(f, i)
  BY DEF Below
<1>5. \A j \in Below(f, i) : j \in Nat
  BY DEF Below
<1>6. ASSUME NEW g \in GameNames
      PROVE  IF About(f, i, p + 1, g) = {} THEN Slots(new, g) = {}
             ELSE \E j \in About(f, i, p + 1, g) :
                    /\ \A k \in About(f, i, p + 1, g) : k <= j
                    /\ \E slot \in Slots(new, g) : Says(f[j], new[slot].score)
  <2>1. CASE g = key
    <3>1. p + 1 \in About(f, i, p + 1, g) /\ \A k \in About(f, i, p + 1, g) : k <= p + 1
      BY <1>4, <2>1 DEF About
    <3>2. PICK slot \in Slots(new, g) : new[slot].score = s
      BY <1>3, <2>1
    <3> QED
      BY <3>1, <3>2
  <2>2. CASE g # key
    <3>1. About(f, i, p + 1, g) = About(f, i, p, g)
      BY <1>5, <2>2 DEF About
    <3>2. /\ Slots(new, g) = Slots(map, g)
          /\ \A slot \in Slots(map, g) : new[slot] = map[slot]
      BY <1>3, <2>2
    <3>3. IF About(f, i, p, g) = {} THEN Slots(map, g) = {}
          ELSE \E j \in About(f, i, p, g) :
                 /\ \A k \in About(f, i, p, g) : k <= j
                 /\ \E slot \in Slots(map, g) : Says(f[j], map[slot].score)
      BY ZenonT(30) DEF ScoresOf
    <3> QED
      BY <3>1, <3>2, <3>3
  <2> QED
    BY <2>1, <2>2
<1> QED
  BY <1>2, <1>6 DEF ScoresOf, new

\* Where the scores of line i end, all the lines about them were read.
LEMMA ScoresEnd ==
    ASSUME NEW f \in Seq(Line), NEW i \in Nat, NEW p \in Nat, i <= p, p <= Len(f),
           p < Len(f) => f[p + 1].sep, NEW map, ScoresOf(f, i, p, map)
    PROVE  ScoresOf(f, i, Len(f), map)
<1>1. ASSUME NEW j \in Below(f, i) PROVE j <= p /\ j <= Len(f)
  <2>1. j \in (i + 1)..Len(f) /\ \A k \in (i + 1)..j : ~f[k].sep
    BY DEF Below
  <2> QED
    BY <2>1
<1>2. ASSUME NEW g PROVE About(f, i, Len(f), g) = About(f, i, p, g)
  BY <1>1 DEF About
<1> QED
  BY <1>2 DEF ScoresOf

\* Nothing was read below a line yet.
LEMMA NoScores ==
    ASSUME NEW f \in Seq(Line), NEW i \in Nat
    PROVE  ScoresOf(f, i, i, <<>>)
<1>1. \A g : About(f, i, i, g) = {}
  BY DEF About, Below
<1>2. KeysUnique(<<>>) /\ \A g : Slots(<<>>, g) = {}
  BY EmptyMap DEF Slots
<1> QED
  BY <1>1, <1>2 DEF ScoresOf

\* A step of a scan goes no further than what it read.
LEMMA StepProgress == IInv /\ [Next]_vars => Progress'
<1> SUFFICES ASSUME IInv, [Next]_vars, WellFormed(file)' PROVE Progress'
  BY DEF Progress
<1> USE DEF IInv, Form
<1>0. /\ file \in Seq(Line) /\ Len(file) \in Nat
      /\ \A i \in 1..Len(file) : file[i] \in Line
  BY FileLines DEF TypeOK
<1>1. file' = file
  BY DEF Next, Scan, Construct, Delete, Lookup, Seek, NameLine, NotFound, Pass, Extract, ReadScore,
         LongName, LastScore, StartCount, CountLine, EndCount, vars
<1>2. WellFormed(file)
  BY <1>1 DEF WellFormed, Heads, Below
<1>3. /\ Heads(file) \subseteq 2..Len(file)
      /\ \A i \in 1..(Len(file) - 1) : file[i].sep => i + 1 \in Heads(file)
      /\ \A i \in Heads(file) : file[i - 1].sep /\ ~file[i].sep /\ file[i].word # <<>>
  BY <1>2, HeadLines DEF TypeOK
<1>4. CASE Construct
  BY <1>4 DEF Construct, Progress
<1>5. CASE Delete
  BY <1>5 DEF Delete, Progress
<1>6. ASSUME NEW n \in Names, Lookup(n) PROVE Progress'
  BY <1>3, <1>6 DEF Lookup, OpenFile, CannotOpen, Progress, PassedBy
<1>7. CASE Seek
  <2>1. pos \in Nat /\ pos' = pos + 1 /\ pos + 1 \in 1..Len(file)
    BY <1>0, <1>7 DEF Seek, More, NextLine, TypeOK
  <2>2. pos + 1 \notin Heads(file)
    BY <1>2, <1>3, <1>7, <2>1 DEF Seek, Progress
  <2>3. PassedBy(pos + 1)
    BY <1>2, <1>3, <1>7, <2>1, <2>2 DEF Seek, Progress, PassedBy
  <2>4. PassedBy(pos)'
    BY <1>7, <2>1, <2>3 DEF Seek, PassedBy
  <2> QED
    BY <1>7, <2>1, <2>4 DEF Seek, Progress
<1>8. CASE NameLine
  <2>1. pos \in 1..Len(file) /\ file[pos].sep /\ PassedBy(pos)
    BY <1>0, <1>2, <1>8 DEF NameLine, Progress, TypeOK
  <2>2. pos < Len(file)
    BY <1>0, <1>2, <2>1 DEF WellFormed
  <2>3. pos' = pos + 1 /\ line' = file[pos + 1]
    BY <1>8, <2>2 DEF NameLine, More, NextLine
  <2>4. pos + 1 \in Heads(file)
    BY <1>3, <2>1, <2>2
  <2>5. PassedBy(pos - 1)'
    BY <1>3, <1>8, <2>1, <2>3 DEF NameLine, PassedBy
  <2> QED
    BY <1>1, <1>8, <2>3, <2>4, <2>5 DEF NameLine, Progress
<1>9. CASE NotFound
  BY <1>9 DEF NotFound, Progress
<1>10. ASSUME NEW w \in Words, Pass(w) PROVE Progress'
  <2>1. pos \in Heads(file) /\ line = file[pos] /\ PassedBy(pos - 1)
    BY <1>2, <1>10 DEF Pass, Progress
  <2>2. w = file[pos].word /\ w # asked
    BY <1>3, <1>10, <2>1, MatchIsEquality DEF Pass, ReadWord, TypeOK
  <2>3. PassedBy(pos)
    BY <1>3, <2>1, <2>2 DEF PassedBy
  <2>4. PassedBy(pos)'
    BY <1>10, <2>3 DEF Pass, PassedBy, stream
  <2> QED
    BY <1>3, <1>10, <2>1, <2>4 DEF Pass, Progress, stream
<1>11. ASSUME NEW w \in Words, NEW n \in Words, Extract(w, n) PROVE Progress'
  <2>1. pos \in Heads(file) /\ line = file[pos] /\ PassedBy(pos - 1)
    BY <1>2, <1>11 DEF Extract, Progress
  <2>2. w = file[pos].word /\ w = asked /\ n = w
    BY <1>3, <1>11, <2>1, MatchIsEquality DEF Extract, ReadWord, TypeOK
  <2>3. ScoresOf(file, pos, pos, <<>>)
    BY <1>0, <1>3, <2>1, NoScores
  <2>4. Reads(pos)'
    BY <1>3, <1>11, <2>1, <2>2, <2>3 DEF Extract, Reads, PassedBy, FlagOf, Flag, stream
  <2> QED
    BY <1>1, <1>11, <2>1, <2>4 DEF Extract, Progress, stream
<1>12. ASSUME NEW s \in Score, ReadScore(s) PROVE Progress'
  <2> DEFINE l == file[pos + 1]
  <2>1. /\ pos \in Nat /\ pos + 1 \in 1..Len(file) /\ pos' = pos + 1
        /\ l \in Line /\ ~l.sep /\ l.key \in GameNames /\ Scanned(l, s)
        /\ joueur \in Joueur /\ joueur.scores \in Seq(Pair)
        /\ joueur' = [joueur EXCEPT !.scores = Insert(@, l.key, s)]
    <3>1. /\ pos \in Nat /\ pos + 1 \in 1..Len(file) /\ pos' = pos + 1
          /\ line' = l /\ l \in Line /\ ~l.sep /\ Scanned(l, s)
      BY <1>0, <1>12 DEF ReadScore, More, NextLine, TypeOK
    <3>2. joueur \in Joueur /\ joueur' = [joueur EXCEPT !.scores = Insert(@, line'.key, s)]
      BY <1>12 DEF ReadScore, Shape
    <3> QED
      BY <3>1, <3>2 DEF Line, Joueur
  <2>2. PICK h \in Heads(file) : Reads(h)
    BY <1>2, <1>12 DEF ReadScore, Progress
  <2>3. h \in Nat /\ h <= pos /\ \A k \in (h + 1)..(pos + 1) : ~file[k].sep
    BY <1>3, <2>1, <2>2 DEF Reads
  <2>4. IsScoreLine(l)
    <3>1. pos + 1 \in Below(file, h)
      BY <2>1, <2>3 DEF Below
    <3> QED
      BY <1>2, <2>2, <3>1 DEF WellFormed
  <2>5. Says(l, s)
    BY <2>1, <2>4 DEF IsScoreLine, Scanned, Says, Line
  <2>6. ScoresOf(file, h, pos + 1, Insert(joueur.scores, l.key, s))
    BY <1>0, <2>1, <2>2, <2>3, <2>5, ScoreStep, SMTT(20) DEF Reads
  <2>7. /\ joueur'.scores = Insert(joueur.scores, l.key, s) /\ joueur'.name = joueur.name
        /\ joueur'.daltonien = joueur.daltonien /\ joueur'.admin = joueur.admin
    BY <2>1 DEF Joueur
  <2>8. Reads(h)'
    BY <1>1, <1>12, <2>1, <2>2, <2>3, <2>6, <2>7 DEF ReadScore, Reads, PassedBy
  <2> QED
    BY <1>1, <1>12, <2>2, <2>8 DEF ReadScore, Progress
<1>13. CASE LongName
  BY <1>13 DEF LongName, Progress
<1>14. CASE LastScore
  BY <1>14 DEF LastScore, Progress
<1>15. CASE StartCount
  <2>1. Separators(0) = {}
    BY DEF Separators
  <2>2. Cardinality(Separators(0)) = 0
    BY <2>1, FS_EmptySet
  <2> QED
    BY <1>1, <1>15, <2>2 DEF StartCount, OpenFile, CannotOpen, Progress, Separators
<1>16. CASE CountLine
  <2>1. pos \in Nat /\ pos' = pos + 1 /\ counter = Cardinality(Separators(pos))
    BY <1>0, <1>2, <1>16 DEF CountLine, More, TypeOK, Progress
  <2>2. IsFiniteSet(Separators(pos)) /\ pos + 1 \notin Separators(pos)
    <3>1. Separators(pos) \subseteq 1..pos /\ IsFiniteSet(1..pos)
      BY <2>1, FS_Interval DEF Separators
    <3> QED
      BY <2>1, <3>1, FS_Subset
  <2>3. Separators(pos + 1) = IF file[pos + 1].sep THEN Separators(pos) \cup {pos + 1} ELSE Separators(pos)
    BY <2>1 DEF Separators
  <2>4. counter' = Cardinality(Separators(pos + 1))
    BY <1>16, <2>1, <2>2, <2>3, FS_AddElement DEF CountLine
  <2> QED
    BY <1>1, <1>16, <2>1, <2>4 DEF CountLine, Progress, Separators
<1>17. CASE EndCount
  BY <1>17 DEF EndCount, Progress
<1>18. CASE UNCHANGED vars
  BY <1>2, <1>18 DEF vars, stream, locals, Progress, PassedBy, Reads, Separators
<1> QED
  BY <1>4, <1>5, <1>6, <1>7, <1>8, <1>9, <1>10, <1>11, <1>12, <1>13, <1>14, <1>15,
     <1>16, <1>17, <1>18 DEF Next, Scan

\* The player of the line a scan stopped at is the answer.
LEMMA AnswerFound ==
    ASSUME IInv, LastScore, WellFormed(file)
    PROVE  Fits(file, asked, joueur)
<1> USE DEF IInv, Form
<1>1. PICK h \in Heads(file) : Reads(h)
  BY DEF LastScore, Progress
<1>2. h \in Nat /\ pos \in Nat /\ pos <= Len(file) /\ file \in Seq(Line)
  BY <1>1, FileLines, HeadLines DEF TypeOK
<1>3. ScoresOf(file, h, Len(file), joueur.scores)
  BY <1>1, <1>2, ScoresEnd DEF LastScore, More, Reads
<1>4. HeadOf(file, asked) = {h}
  <2>1. \A i \in Heads(file) : i \in Nat
    BY FileLines, HeadLines DEF TypeOK
  <2>2. \A i \in Heads(file) : file[i].word = asked => h <= i
    BY <1>1, <1>2, <2>1 DEF Reads, PassedBy
  <2> QED
    BY <1>1, <2>1, <2>2 DEF HeadOf, Reads
<1> QED
  BY <1>1, <1>3, <1>4 DEF Fits, Reads, LastScore, Shape

\* At the end of the file every player was passed by.
LEMMA NobodyFound ==
    ASSUME IInv, NotFound
    PROVE  Fits(file, asked, NoJoueur)
<1> USE DEF IInv, Form
<1> SUFFICES ASSUME WellFormed(file) PROVE HeadOf(file, asked) = {}
  BY DEF Fits, NoJoueur
<1>1. PassedBy(Len(file))
  BY FileLines DEF NotFound, More, Progress, TypeOK
<1>2. \A i \in Heads(file) : i <= Len(file)
  BY FileLines, HeadLines DEF TypeOK
<1> QED
  BY <1>1, <1>2 DEF PassedBy, HeadOf

\* A step returns an answer that fits, or returns none.
LEMMA StepAnswer == IInv /\ [Next]_vars => AnswerIsWritten'
<1> SUFFICES ASSUME IInv, [Next]_vars, phase' = "ready", joueur' # Pending
             PROVE  (joueur = NoJoueur /\ fp = "null")' \/ Fits(file, asked, joueur)'
  BY DEF AnswerIsWritten
<1> USE DEF IInv, Form
<1>1. CASE Construct
  BY <1>1 DEF Construct, Shape
<1>2. CASE Delete
  BY <1>2 DEF Delete
<1>3. ASSUME NEW n \in Names, Lookup(n) PROVE (joueur = NoJoueur /\ fp = "null")'
  BY <1>3 DEF Lookup, CannotOpen
<1>4. CASE NotFound
  BY <1>4, NobodyFound DEF NotFound, locals
<1>5. CASE LastScore
  <2>1. Fits(file, asked, joueur)
    BY <1>5, AnswerFound DEF Fits
  <2> QED
    BY <1>5, <2>1 DEF LastScore
<1>6. CASE EndCount
  BY <1>6 DEF EndCount, Shape
<1>7. CASE UNCHANGED vars
  BY <1>7 DEF vars, stream, AnswerIsWritten
<1>8. ASSUME NEW w \in Words, Pass(w) PROVE FALSE
  BY <1>8 DEF Pass
<1>9. ASSUME NEW w \in Words, NEW n \in Words, Extract(w, n) PROVE FALSE
  BY <1>9 DEF Extract
<1>10. ASSUME NEW s \in Score, ReadScore(s) PROVE FALSE
  BY <1>10 DEF ReadScore
<1>11. ~Seek /\ ~NameLine /\ ~LongName /\ ~StartCount /\ ~CountLine
  BY DEF Seek, NameLine, LongName, StartCount, CountLine
<1> QED
  BY <1>1, <1>2, <1>3, <1>4, <1>5, <1>6, <1>7, <1>8, <1>9, <1>10, <1>11 DEF Next, Scan

-----------------------------------------------------------------------------
(* The invariant *)

\* Whatever the file holds, types, streams and phases agree, and in a file of
\* the documented form a scan has passed by exactly the players it read
\* (file_record.c:111-349).
THEOREM Invariance == Spec => []IInv
<1>1. Init => IInv
  <2>1. Init => Progress /\ AnswerIsWritten
    BY DEF Init, Progress, AnswerIsWritten
  <2> QED
    BY <2>1, InitForm DEF IInv
<1>2. IInv /\ [Next]_vars => IInv'
  BY StepForm, StepProgress, StepAnswer DEF IInv
<1> QED
  BY <1>1, <1>2, PTL DEF Spec

\* Every variable keeps its type.
THEOREM TypeCorrect == Spec => []TypeOK
<1>1. IInv => TypeOK
  BY DEF IInv, Form
<1> QED
  BY <1>1, Invariance, PTL

\* No call leaves a stream open, and none reads one that is not
\* (file_record.c:111-171).
THEOREM StreamsClosed == Spec => []OneStream
<1>1. IInv => OneStream
  BY DEF IInv, Form
<1> QED
  BY <1>1, Invariance, PTL

\* In any file of the documented form a lookup returns the player of that very
\* name, with the scores of his lines (file_record.c:175-307).
THEOREM AnswersWritten == Spec => []AnswerIsWritten
<1>1. IInv => AnswerIsWritten
  BY DEF IInv
<1> QED
  BY <1>1, Invariance, PTL

-----------------------------------------------------------------------------
(* The loops of a call *)

Reading == {"seek", "name", "scores", "count"}

\* The turns a call can still take: three for each line left to read, and those
\* that read no line.
ScanLeft ==
    3 * (Len(file) - pos) + (IF phase = "name" THEN 1
                             ELSE IF phase = "seek" /\ found THEN 2 ELSE 0)

\* Each turn ends the call or leaves fewer.
ScanAdvances == phase \in Reading => phase' \notin Reading \/ ScanLeft' < ScanLeft

\* No turn of the loops is for nothing: a lookup or a count takes no more than three
\* turns for each line of the file, and one to end, whatever the file holds and
\* wherever its separators are (file_record.c:175-349).
THEOREM ScansShorten == Spec => [](ScanLeft \in Nat) /\ [][ScanAdvances]_vars
<1>1. IInv => ScanLeft \in Nat
  BY FileLines DEF IInv, Form, TypeOK, ScanLeft
<1>2. IInv /\ [Next]_vars => [ScanAdvances]_vars
  <2> SUFFICES ASSUME IInv, Next, phase \in Reading, phase' \in Reading
               PROVE  ScanLeft' < ScanLeft
    BY DEF ScanAdvances
  <2>1. Len(file) \in Nat /\ pos \in 0..Len(file) /\ found \in BOOLEAN
    BY FileLines DEF IInv, Form, TypeOK
  <2>2. phase \notin {"new", "ready"}
    BY DEF Reading
  <2>3. CASE Seek
    BY <2>1, <2>3 DEF Seek, NextLine, More, ScanLeft
  <2>4. CASE NameLine
    BY <2>1, <2>4 DEF NameLine, NextLine, More, ScanLeft
  <2>5. ASSUME NEW w \in Words, Pass(w) PROVE ScanLeft' < ScanLeft
    BY <2>1, <2>5 DEF Pass, stream, ScanLeft
  <2>6. ASSUME NEW w \in Words, NEW n \in Words, Extract(w, n) PROVE ScanLeft' < ScanLeft
    BY <2>1, <2>6 DEF Extract, stream, ScanLeft
  <2>7. ASSUME NEW s \in Score, ReadScore(s) PROVE ScanLeft' < ScanLeft
    BY <2>1, <2>7 DEF ReadScore, NextLine, More, ScanLeft
  <2>8. CASE CountLine
    BY <2>1, <2>8 DEF CountLine, More, ScanLeft
  <2>9. ~NotFound /\ ~LongName /\ ~LastScore /\ ~EndCount
    BY DEF NotFound, LongName, LastScore, EndCount, Reading
  <2>10. ~Construct /\ ~Delete /\ ~StartCount /\ \A n \in Names : ~Lookup(n)
    BY <2>2 DEF Construct, Delete, StartCount, Lookup
  <2> QED
    BY <2>3, <2>4, <2>5, <2>6, <2>7, <2>8, <2>9, <2>10 DEF Next, Scan
<1> QED
  BY <1>1, <1>2, Invariance, PTL DEF Spec

-----------------------------------------------------------------------------
(* What the arcade takes from a lookup *)

\* The map of a player is a map, and none of its games has a name that is too long.
IsMap(map) ==
    /\ map \in Seq(Pair) /\ KeysUnique(map)
    /\ \A i \in DOMAIN map : map[i].name \notin LongGames

MapsMade == phase = "scores" \/ joueur # Pending => IsMap(joueur.scores)

\* A line of scores makes a map of a map.
LEMMA InsertIsMap ==
    ASSUME NEW map, IsMap(map), NEW n \in GameNames \ LongGames, NEW s \in Score
    PROVE  IsMap(Insert(map, n, s))
<1> DEFINE new == Insert(map, n, s)
<1>1. map \in Seq(Pair) /\ KeysUnique(map)
  BY DEF IsMap
<1>2. /\ new \in Seq(Pair) /\ KeysUnique(new)
      /\ \A g : g # n => /\ Slots(new, g) = Slots(map, g)
                         /\ \A i \in Slots(map, g) : new[i] = map[i]
  BY <1>1, InsertSlots
<1> HIDE DEF new
<1>3. ASSUME NEW i \in DOMAIN new PROVE new[i].name \notin LongGames
  <2>1. CASE new[i].name = n
    BY <2>1
  <2>2. CASE new[i].name # n
    <3>1. i \in Slots(map, new[i].name)
      BY <1>2, <2>2 DEF Slots
    <3> QED
      BY <3>1 DEF IsMap, Slots
  <2> QED
    BY <2>1, <2>2
<1> QED
  BY <1>2, <1>3 DEF IsMap, new

\* Whatever the file holds, well formed or not, the players that lookups return have
\* maps such as the arcade and map_game_score.c suppose them: one pair for each game,
\* which is what SessionAssumption of Arcade asks of its record, and no name that
\* would fail an assertion when it is copied (file_record.c:246-307).
THEOREM MapsForArcade == Spec => [](joueur # Pending => IsMap(joueur.scores))
<1>1. Init => MapsMade
  BY DEF Init, MapsMade
<1>2. IInv /\ MapsMade /\ [Next]_vars => MapsMade'
  <2> SUFFICES ASSUME IInv, MapsMade, [Next]_vars PROVE MapsMade'
    OBVIOUS
  <2>1. IsMap(<<>>)
    BY EmptyMap DEF IsMap
  <2>2. IsMap(NoJoueur.scores)
    BY <2>1 DEF NoJoueur
  <2>3. CASE UNCHANGED <<phase, joueur>>
    BY <2>3 DEF MapsMade
  <2>4. CASE phase' # "scores" /\ joueur' \in {joueur, Pending, NoJoueur}
    <3>1. CASE joueur' = joueur
      BY <2>4, <3>1 DEF MapsMade
    <3>2. CASE joueur' = Pending
      BY <2>4, <3>2 DEF MapsMade
    <3>3. CASE joueur' = NoJoueur
      BY <2>2, <3>3 DEF MapsMade
    <3> QED
      BY <2>4, <3>1, <3>2, <3>3
  <2>5. ASSUME NEW w \in Words, NEW n \in Words, Extract(w, n) PROVE MapsMade'
    BY <2>1, <2>5 DEF Extract, MapsMade
  <2>6. ASSUME NEW s \in Score, ReadScore(s) PROVE MapsMade'
    <3>1. joueur \in Joueur /\ IsMap(joueur.scores) /\ pos \in Nat /\ file \in Seq(Line)
      BY <2>6, FileLines DEF ReadScore, MapsMade, IInv, Form, Shape, TypeOK
    <3>2. pos + 1 \in 1..Len(file) /\ line' = file[pos + 1]
      BY <2>6, <3>1 DEF ReadScore, NextLine, More
    <3>3. line'.key \in GameNames \ LongGames
      <4>1. file[pos + 1] \in Line
        BY <3>1, <3>2
      <4> QED
        BY <2>6, <3>2, <4>1 DEF ReadScore, Line
    <3>4. joueur'.scores = Insert(joueur.scores, line'.key, s)
      BY <2>6, <3>1 DEF ReadScore, Joueur
    <3> QED
      BY <3>1, <3>3, <3>4, InsertIsMap DEF MapsMade
  <2>7. ASSUME NEW w \in Words, Pass(w) PROVE MapsMade'
    BY <2>4, <2>7 DEF Pass
  <2>8. ASSUME NEW n \in Names, Lookup(n) PROVE MapsMade'
    BY <2>4, <2>8 DEF Lookup
  <2>9. CASE Construct \/ Delete \/ StartCount
    BY <2>4, <2>9 DEF Construct, Delete, StartCount
  <2>10. CASE Seek \/ NameLine \/ NotFound \/ LongName \/ LastScore
    BY <2>3, <2>4, <2>10 DEF Seek, NameLine, NotFound, LongName, LastScore
  <2>11. CASE CountLine \/ EndCount
    BY <2>3, <2>4, <2>11 DEF CountLine, EndCount
  <2>12. CASE UNCHANGED vars
    BY <2>3, <2>12 DEF vars
  <2> QED
    BY <2>5, <2>6, <2>7, <2>8, <2>9, <2>10, <2>11, <2>12 DEF Next, Scan
<1>3. MapsMade => (joueur # Pending => IsMap(joueur.scores))
  BY DEF MapsMade
<1> QED
  BY <1>1, <1>2, <1>3, Invariance, PTL DEF Spec

-----------------------------------------------------------------------------
(* Two lookups of one name *)

\* A lookup of n that could read the file has returned.
Answered(n) == phase = "ready" /\ joueur # Pending /\ fp # "null" /\ asked = n

\* The draws of n in g are written: he has no line about g, or the last has them.
DrawsWritten(f, n, g) ==
    \A i \in HeadOf(f, n) : \A l \in About(f, i, Len(f), g) :
        (\A m \in About(f, i, Len(f), g) : m <= l) => Len(f[l].nums) = 3

\* Two players have the same score of a game, but for draws that nobody wrote.
SameScores(f, n, a, b) ==
    \A g \in GameNames :
        /\ GetFromName(a, g).win = GetFromName(b, g).win
        /\ GetFromName(a, g).lost = GetFromName(b, g).lost
        /\ DrawsWritten(f, n, g) => GetFromName(a, g) = GetFromName(b, g)

SamePlayer(f, n, j, k) ==
    /\ j.valid = k.valid
    /\ j.valid => /\ j.name = k.name /\ j.daltonien = k.daltonien /\ j.admin = k.admin
                  /\ SameScores(f, n, j.scores, k.scores)

\* A score is its three counters.
LEMMA SameScore ==
    ASSUME NEW x \in Score, NEW y \in Score,
           x.win = y.win, x.lost = y.lost, x.draw = y.draw
    PROVE  x = y
  BY DEF Score

\* Two maps with the scores of the same lines agree.
LEMMA ScoresAgree ==
    ASSUME NEW f \in Seq(Line), NEW n, NEW i \in HeadOf(f, n),
           NEW a \in Seq(Pair), ScoresOf(f, i, Len(f), a),
           NEW b \in Seq(Pair), ScoresOf(f, i, Len(f), b)
    PROVE  SameScores(f, n, a, b)
<1> SUFFICES ASSUME NEW g \in GameNames
             PROVE  /\ GetFromName(a, g).win = GetFromName(b, g).win
                    /\ GetFromName(a, g).lost = GetFromName(b, g).lost
                    /\ DrawsWritten(f, n, g) => GetFromName(a, g) = GetFromName(b, g)
  BY DEF SameScores
<1> DEFINE A == About(f, i, Len(f), g)
<1>1. CASE A = {}
  BY <1>1 DEF ScoresOf, GetFromName
<1>2. CASE A # {}
  <2>1. PICK j \in A : /\ \A k \in A : k <= j
                       /\ \E slot \in Slots(a, g) : Says(f[j], a[slot].score)
    BY <1>2 DEF ScoresOf
  <2>2. PICK l \in A : /\ \A k \in A : k <= l
                       /\ \E slot \in Slots(b, g) : Says(f[l], b[slot].score)
    BY <1>2 DEF ScoresOf
  <2>3. A \subseteq Nat
    BY DEF About, Below, Heads, HeadOf
  <2>4. j = l
    BY <2>1, <2>2, <2>3
  <2>5. PICK p \in Slots(a, g) : Says(f[j], a[p].score)
    BY <2>1
  <2>6. PICK q \in Slots(b, g) : Says(f[j], b[q].score)
    BY <2>2, <2>4
  <2>7. a[p].score \in Score /\ b[q].score \in Score
    <3>1. a[p] \in Pair /\ b[q] \in Pair
      BY DEF Slots
    <3> QED
      BY <3>1 DEF Pair
  <2>8. a[p].score.win = b[q].score.win /\ a[p].score.lost = b[q].score.lost
    BY <2>5, <2>6 DEF Says
  <2>9. DrawsWritten(f, n, g) => a[p].score = b[q].score
    <3> SUFFICES ASSUME DrawsWritten(f, n, g) PROVE a[p].score = b[q].score
      OBVIOUS
    <3>1. Len(f[j].nums) = 3
      BY <2>1 DEF DrawsWritten
    <3>2. a[p].score.draw = b[q].score.draw
      BY <2>5, <2>6, <3>1 DEF Says
    <3> QED
      BY <2>7, <2>8, <3>2, SameScore
  <2>10. Slots(a, g) = {p} /\ Slots(b, g) = {q}
    BY DEF ScoresOf, KeysUnique, Slots
  <2>11. Find(a, g) = p /\ Find(b, g) = q
    <3>1. p \in Nat /\ q \in Nat
      BY DEF Slots
    <3> QED
      BY <2>10, <3>1 DEF Find
  <2>12. GetFromName(a, g) = a[p].score /\ GetFromName(b, g) = b[q].score
    BY <2>10, <2>11 DEF GetFromName
  <2> QED
    BY <2>8, <2>9, <2>12
<1> QED
  BY <1>1, <1>2

\* Two players that fit one file under one name are the same.
LEMMA FitsAgree ==
    ASSUME NEW f \in Files, WellFormed(f), NEW n,
           NEW j \in Joueur, Fits(f, n, j), NEW k \in Joueur, Fits(f, n, k)
    PROVE  SamePlayer(f, n, j, k)
<1>1. f \in Seq(Line)
  BY RecordAssumption
<1>2. j.scores \in Seq(Pair) /\ k.scores \in Seq(Pair) /\ j.valid \in BOOLEAN /\ k.valid \in BOOLEAN
  BY DEF Joueur
<1>3. CASE HeadOf(f, n) = {}
  BY <1>2, <1>3 DEF Fits, SamePlayer
<1>4. ASSUME NEW i \in HeadOf(f, n) PROVE SamePlayer(f, n, j, k)
  <2>1. /\ j.valid /\ j.name = n /\ j.daltonien = FlagOf(f[i], 1)
        /\ j.admin = FlagOf(f[i], 2) /\ ScoresOf(f, i, Len(f), j.scores)
    BY <1>4 DEF Fits
  <2>2. /\ k.valid /\ k.name = n /\ k.daltonien = FlagOf(f[i], 1)
        /\ k.admin = FlagOf(f[i], 2) /\ ScoresOf(f, i, Len(f), k.scores)
    BY <1>4 DEF Fits
  <2>3. SameScores(f, n, j.scores, k.scores)
    BY <1>1, <1>2, <2>1, <2>2, ScoresAgree
  <2>4. j.valid = k.valid
    BY <1>2, <2>1, <2>2
  <2> QED
    BY <2>1, <2>2, <2>3, <2>4, Zenon DEF SamePlayer
<1> QED
  BY <1>3, <1>4

\* Nothing writes the file.
LEMMA FileStays == [Next]_vars => UNCHANGED file
  BY DEF Next, Construct, Delete, StartCount, Lookup, Scan, Seek, NameLine, NotFound, Pass,
     Extract, ReadScore, LongName, LastScore, CountLine, EndCount, vars

\* Two lookups of one name return the same player, whatever the file is as long as it
\* has the documented form, and whatever was looked up, counted, passed by or left in
\* the locals before or in between: the same validity, name, flags, victories and
\* defeats, and the same draws in every game whose last line has them.  The record is a
\* function of the name, as the constant Record of Arcade supposes
\* (file_record.c:175-307).
THEOREM AnswersAgree ==
    ASSUME NEW f, NEW n, NEW k
    PROVE  Spec => []( file = f /\ WellFormed(f) /\ Answered(n) /\ joueur = k
                         => [](Answered(n) => SamePlayer(f, n, joueur, k)) )
<1> DEFINE There == file = f
           First == file = f /\ WellFormed(f) /\ Answered(n) /\ joueur = k
           Again == Answered(n) => SamePlayer(f, n, joueur, k)
<1>1. IInv /\ WellFormed(file) /\ Answered(n)
        => file \in Files /\ joueur \in Joueur /\ Fits(file, n, joueur)
  BY DEF IInv, Form, TypeOK, AnswerIsWritten, Answered
<1>2. There /\ [Next]_vars => There'
  BY FileStays
<1>3. CASE f \in Files /\ k \in Joueur /\ WellFormed(f) /\ Fits(f, n, k)
  <2>1. IInv /\ There => Again
    BY <1>1, <1>3, FitsAgree
  <2>2. First => There
    OBVIOUS
  <2> HIDE DEF There, First, Again
  <2>3. Spec => [](First => []Again)
    BY <1>2, <2>1, <2>2, Invariance, PTL DEF Spec
  <2> QED
    BY <2>3 DEF First, Again
<1>4. CASE ~(f \in Files /\ k \in Joueur /\ WellFormed(f) /\ Fits(f, n, k))
  <2>1. IInv => ~First
    BY <1>1, <1>4
  <2> HIDE DEF There, First, Again
  <2>2. Spec => [](First => []Again)
    BY <2>1, Invariance, PTL
  <2> QED
    BY <2>2 DEF First, Again
<1> QED
  BY <1>3, <1>4

-----------------------------------------------------------------------------
(* The record as an index of players *)

\* At the end of a file of the documented form as many separators as players
\* were read.
LEMMA CountIsTotal ==
    ASSUME IInv, EndCount
    PROVE  IsTotal(file, counter)
<1> USE DEF IInv, Form
<1> SUFFICES ASSUME WellFormed(file) PROVE counter = Cardinality(Heads(file))
  BY DEF IsTotal
<1> DEFINE S == Separators(Len(file))
           f == [i \in S |-> i + 1]
<1>1. Len(file) \in Nat /\ pos = Len(file) /\ counter = Cardinality(S)
  BY FileLines DEF EndCount, More, Progress, TypeOK
<1>2. S \subseteq 1..Len(file) /\ \A i \in S : file[i].sep
  BY <1>1 DEF Separators
<1>3. IsFiniteSet(S)
  <2>1. IsFiniteSet(1..Len(file))
    BY <1>1, FS_Interval
  <2> QED
    BY <1>2, <2>1, FS_Subset
<1>4. \A i \in S : i \in 1..(Len(file) - 1)
  BY <1>1, <1>2 DEF WellFormed
<1>5. /\ Heads(file) \subseteq 2..Len(file)
      /\ \A i \in 1..(Len(file) - 1) : file[i].sep => i + 1 \in Heads(file)
      /\ \A i \in Heads(file) : file[i - 1].sep
  BY HeadLines DEF TypeOK
<1>6. f \in [S -> Heads(file)]
  BY <1>2, <1>4, <1>5
<1>7. \A i, j \in S : f[i] = f[j] => i = j
  BY <1>1, <1>2
<1>8. \A h \in Heads(file) : h - 1 \in S /\ f[h - 1] = h
  BY <1>1, <1>5 DEF Separators
<1> HIDE DEF S, f
<1>9. f \in Bijection(S, Heads(file))
  BY <1>6, <1>7, <1>8 DEF Bijection, Injection, Surjection, IsInjective
<1> QED
  BY <1>1, <1>3, <1>9, FS_Bijection DEF ExistsBijection

\* Each step of the record is a step of the index or leaves it alone.
LEMMA PromiseStep ==
    IInv /\ [Next]_vars =>
        [Promise!Next]_<<file, Status, asked, Reply, LastId, Total, Open>>
<1> SUFFICES ASSUME IInv, [Next]_vars
             PROVE  Promise!Next \/ UNCHANGED <<file, Status, asked, Reply, LastId, Total, Open>>
  OBVIOUS
<1> USE DEF Status, Reply, LastId, Total, Open
<1>0. nextId \in Nat \ {0} /\ streams \in Nat /\ counter \in Nat /\ OneStream /\ Shape
  BY DEF IInv, Form, TypeOK
<1>1. CASE Construct
  BY <1>0, <1>1 DEF Construct, Shape, Promise!Next, Promise!Start, stream
<1>2. CASE Delete
  BY <1>2 DEF Delete, Promise!Next, Promise!Stop
<1>3. ASSUME NEW n \in Names, Lookup(n) PROVE Promise!Next
  <2>1. CASE OpenFile
    BY <1>0, <1>3, <2>1 DEF Lookup, OpenFile, CannotOpen, OneStream, Promise!Next, Promise!Ask
  <2>2. CASE CannotOpen
    BY <1>3, <2>2 DEF Lookup, CannotOpen, OpenFile, Promise!Next, Promise!Unavailable
  <2> QED
    BY <1>3, <2>1, <2>2 DEF Lookup
<1>4. CASE Seek
  BY <1>4 DEF Seek
<1>5. CASE NameLine
  BY <1>5 DEF NameLine
<1>6. CASE NotFound
  <2>1. Fits(file, asked, NoJoueur) /\ ~NoJoueur.valid
    BY <1>6, NobodyFound DEF NoJoueur
  <2>2. ~Open'
    BY <1>0, <1>6 DEF NotFound, CloseFile, OneStream
  <2>3. Promise!Answer(Reply')
    BY <1>6, <2>1, <2>2 DEF NotFound, Promise!Answer
  <2> QED
    BY <1>6, <2>3 DEF NotFound, Promise!Next
<1>7. ASSUME NEW w \in Words, Pass(w)
      PROVE  UNCHANGED <<file, Status, asked, Reply, LastId, Total, Open>>
  BY <1>7 DEF Pass, stream
<1>8. ASSUME NEW w \in Words, NEW n \in Words, Extract(w, n)
      PROVE  UNCHANGED <<file, Status, asked, Reply, LastId, Total, Open>>
  BY <1>0, <1>8 DEF Extract, NextId, stream
<1>9. ASSUME NEW s \in Score, ReadScore(s)
      PROVE  UNCHANGED <<file, Status, asked, Reply, LastId, Total, Open>>
  BY <1>9 DEF ReadScore
<1>10. CASE LongName
  BY <1>0, <1>10 DEF LongName, Promise!Next, Promise!Halt
<1>11. CASE LastScore
  <2>1. Fits(file, asked, joueur)
    BY <1>11, AnswerFound DEF Fits
  <2>2. ~Open' /\ Open
    BY <1>0, <1>11 DEF LastScore, CloseFile, OneStream
  <2>3. joueur.valid /\ joueur.id = nextId - 1 /\ LastId = nextId - 2 /\ LastId' = nextId - 1
    BY <1>0, <1>11 DEF LastScore, Shape, Joueur
  <2>4. Promise!Answer(Reply')
    BY <1>0, <1>11, <2>1, <2>2, <2>3 DEF LastScore, Promise!Answer
  <2> QED
    BY <1>11, <2>4 DEF LastScore, Promise!Next
<1>12. CASE StartCount
  <2>1. CASE OpenFile
    BY <1>0, <1>12, <2>1 DEF StartCount, OpenFile, CannotOpen, OneStream, Promise!Next, Promise!Count
  <2>2. CASE CannotOpen
    BY <1>12, <2>2 DEF StartCount, CannotOpen, OpenFile, Promise!Next, Promise!Halt
  <2> QED
    BY <1>12, <2>1, <2>2 DEF StartCount
<1>13. CASE CountLine
  BY <1>13 DEF CountLine
<1>14. CASE EndCount
  <2>1. IsTotal(file, counter) /\ joueur = Pending
    BY <1>0, <1>14, CountIsTotal DEF EndCount, Shape
  <2>2. ~Open'
    BY <1>0, <1>14 DEF EndCount, CloseFile, OneStream
  <2> QED
    BY <1>14, <2>1, <2>2 DEF EndCount, Promise!Next, Promise!Counted, locals
<1>15. CASE UNCHANGED vars
  BY <1>15 DEF vars, stream
<1> QED
  BY <1>1, <1>2, <1>3, <1>4, <1>5, <1>6, <1>7, <1>8, <1>9, <1>10, <1>11, <1>12,
     <1>13, <1>14, <1>15 DEF Next, Scan

\* The scan implements the index: one question, one answer that fits what is
\* written, under an id no other answer had (file_record.c:34-349).
THEOREM RecordImplemented == Spec => ImplementsRecord
<1>1. Init => Promise!Init
  BY DEF Init, Promise!Init, Status, Reply, LastId, Total, Open
<1> QED
  BY <1>1, PromiseStep, Invariance, PTL DEF Spec, Promise!Spec, ImplementsRecord
=============================================================================
