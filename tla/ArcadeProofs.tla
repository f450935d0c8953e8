---------------------------- MODULE ArcadeProofs ----------------------------
(***************************************************************************)
(* Proofs about a session of the arcade, for every set of games, players   *)
(* and records and for every width of the counters.                        *)
(***************************************************************************)
EXTENDS Arcade, TLAPS

(* Counters *)

\* The sum of two counters is a counter, and zero is neutral.
LEMMA PlusType ==
    ASSUME NEW a \in Counter, NEW b \in Counter
    PROVE  Plus(a, b) \in Counter
  BY CounterAssumption DEF Counter, Plus

\* Zero is a counter, and adding it changes nothing.
LEMMA PlusZero ==
    /\ 0 \in Counter
    /\ \A a \in Counter : Plus(a, 0) = a
  BY CounterAssumption DEF Counter, Plus

\* Unsigned addition is associative, also when it wraps.
LEMMA PlusAssociative ==
    ASSUME NEW a \in Counter, NEW b \in Counter, NEW c \in Counter
    PROVE  Plus(Plus(a, b), c) = Plus(a, Plus(b, c))
  BY CounterAssumption DEF Counter, Plus

\* The zero score is a score.
LEMMA NoScoreType == NoScore \in Score
  BY PlusZero DEF NoScore, Score

-----------------------------------------------------------------------------
(* The map of scores *)

\* In a list without duplicated names a search finds the only pair there is.
LEMMA FindOnly ==
    ASSUME NEW map \in Seq(Pair), KeysUnique(map), NEW i \in DOMAIN map
    PROVE  /\ Slots(map, map[i].name) = {i}
           /\ Find(map, map[i].name) = i
           /\ GetFromName(map, map[i].name) = map[i].score
<1> DEFINE n == map[i].name
<1>1. Slots(map, n) = {i}
  BY DEF KeysUnique, Slots
<1>2. i <= i
  BY DEF Slots
<1>3. Find(map, n) = i
  BY <1>1, <1>2 DEF Find
<1> QED
  BY <1>1, <1>3 DEF GetFromName

\* A name that no pair has is looked up as zeros.
LEMMA GetAbsent ==
    ASSUME NEW map \in Seq(Pair), NEW n,
           \A i \in DOMAIN map : map[i].name # n
    PROVE  Slots(map, n) = {} /\ GetFromName(map, n) = NoScore
  BY DEF Slots, GetFromName

\* A lookup returns a score.
LEMMA GetType ==
    ASSUME NEW map \in Seq(Pair), KeysUnique(map), NEW n
    PROVE  GetFromName(map, n) \in Score
<1>1. CASE \A i \in DOMAIN map : map[i].name # n
  BY <1>1, GetAbsent, NoScoreType
<1>2. CASE \E i \in DOMAIN map : map[i].name = n
  <2>1. PICK i \in DOMAIN map : map[i].name = n
    BY <1>2
  <2>2. i \in 1..Len(map) /\ map[i] \in Pair
    OBVIOUS
  <2>3. map[i].score \in Score
    BY <2>2 DEF Pair
  <2> QED
    BY <2>1, <2>3, FindOnly
<1> QED
  BY <1>1, <1>2

\* The empty map has no duplicate and holds zeros only.
LEMMA EmptyMap ==
    /\ <<>> \in Seq(Pair)
    /\ KeysUnique(<<>>)
    /\ \A n : GetFromName(<<>>, n) = NoScore
  BY DEF KeysUnique, GetFromName, Slots

\* An insertion keeps the list typed and without duplicates; it changes the
\* score of one name and of no other.
LEMMA InsertMap ==
    ASSUME NEW map \in Seq(Pair), KeysUnique(map),
           NEW n \in GameNames, NEW s \in Score
    PROVE  /\ Insert(map, n, s) \in Seq(Pair)
           /\ KeysUnique(Insert(map, n, s))
           /\ \A g : GetFromName(Insert(map, n, s), g) =
                      IF g = n THEN s ELSE GetFromName(map, g)
<1> DEFINE new == Insert(map, n, s)
           pair == [name |-> n, score |-> s]
<1>0. pair \in Pair
  BY DEF Pair
<1>1. CASE \A i \in DOMAIN map : map[i].name # n
  <2>1. new = Append(map, pair)
    BY <1>1, GetAbsent DEF Insert
  <2>2. /\ new \in Seq(Pair) /\ Len(new) = Len(map) + 1
        /\ DOMAIN new = 1..(Len(map) + 1)
        /\ \A i \in 1..Len(map) : new[i] = map[i]
        /\ new[Len(map) + 1] = pair
    BY <1>0, <2>1
  <2>3. DOMAIN map = 1..Len(map) /\ Len(map) \in Nat
    OBVIOUS
  <2>4. KeysUnique(new)
    BY <1>1, <2>2, <2>3 DEF KeysUnique
  <2>5. ASSUME NEW g PROVE GetFromName(new, g) = IF g = n THEN s ELSE GetFromName(map, g)
    <3>1. CASE g = n
      <4>1. Len(map) + 1 \in DOMAIN new /\ new[Len(map) + 1].name = n
            /\ new[Len(map) + 1].score = s
        BY <2>2, <2>3
      <4> QED
        BY <3>1, <4>1, <2>2, <2>4, FindOnly
    <3>2. CASE g # n /\ \A i \in DOMAIN map : map[i].name # g
      <4>1. \A i \in DOMAIN new : new[i].name # g
        BY <3>2, <2>2, <2>3
      <4> QED
        BY <3>2, <4>1, <2>2, GetAbsent
    <3>3. CASE g # n /\ \E i \in DOMAIN map : map[i].name = g
      <4>1. PICK i \in DOMAIN map : map[i].name = g
        BY <3>3
      <4>2. i \in DOMAIN new /\ new[i] = map[i]
        BY <2>2, <2>3
      <4>3. GetFromName(map, g) = map[i].score
        BY <4>1, FindOnly
      <4>4. GetFromName(new, g) = new[i].score
        BY <4>1, <4>2, <2>2, <2>4, FindOnly
      <4> QED
        BY <3>3, <4>2, <4>3, <4>4
    <3> QED
      BY <3>1, <3>2, <3>3
  <2> QED
    BY <2>2, <2>4, <2>5
<1>2. CASE \E k \in DOMAIN map : map[k].name = n
  <2>1. PICK k \in DOMAIN map : map[k].name = n
    BY <1>2
  <2>2. Slots(map, n) # {} /\ Find(map, n) = k
    BY <2>1, FindOnly
  <2>3. new = [map EXCEPT ![k].score = s]
    BY <2>2 DEF Insert
  <2>4. DOMAIN map = 1..Len(map) /\ Len(map) \in Nat /\ map[k] \in Pair
    OBVIOUS
  <2>5. [map[k] EXCEPT !.score = s] = pair
    BY <2>1, <2>4 DEF Pair
  <2>6. /\ new \in Seq(Pair) /\ DOMAIN new = DOMAIN map
        /\ \A i \in DOMAIN map : new[i] = IF i = k THEN pair ELSE map[i]
    BY <1>0, <2>3, <2>4, <2>5
  <2>7. \A i \in DOMAIN map : new[i].name = map[i].name
    BY <2>1, <2>6
  <2>8. KeysUnique(new)
    BY <2>6, <2>7 DEF KeysUnique
  <2>9. ASSUME NEW g PROVE GetFromName(new, g) = IF g = n THEN s ELSE GetFromName(map, g)
    <3>1. CASE g = n
      <4>1. k \in DOMAIN new /\ new[k].name = n /\ new[k].score = s
        BY <2>1, <2>6
      <4> QED
        BY <3>1, <4>1, <2>6, <2>8, FindOnly
    <3>2. CASE g # n /\ \A i \in DOMAIN map : map[i].name # g
      <4>1. \A i \in DOMAIN new : new[i].name # g
        BY <3>2, <2>6, <2>7
      <4> QED
        BY <3>2, <4>1, <2>6, GetAbsent
    <3>3. CASE g # n /\ \E i \in DOMAIN map : map[i].name = g
      <4>1. PICK i \in DOMAIN map : map[i].name = g
        BY <3>3
      <4>2. i \in DOMAIN new /\ new[i] = map[i]
        BY <2>1, <2>6, <3>3, <4>1
      <4>3. GetFromName(map, g) = map[i].score
        BY <4>1, FindOnly
      <4>4. GetFromName(new, g) = new[i].score
        BY <4>1, <4>2, <2>6, <2>8, FindOnly
      <4> QED
        BY <3>3, <4>2, <4>3, <4>4
    <3> QED
      BY <3>1, <3>2, <3>3
  <2> QED
    BY <2>6, <2>8, <2>9
<1> QED
  BY <1>1, <1>2

-----------------------------------------------------------------------------

(* The inductive invariant *)

\* Before the player is known nothing of his exists and no party was played;
\* a name awaiting confirmation is not on record; only a name that was too
\* long leaves something in the input; the game being played has a function.
SessionShape ==
    /\ phase \in {"start", "identify", "confirm"} =>
          /\ name = NoName /\ scores = <<>> /\ origin = "none"
          /\ played = [g \in GameNames |-> NoScore]
    /\ phase = "start" => refused = 0 /\ tryName = NoName
    /\ phase = "confirm" => tryName \in UserNames \ Known
    /\ phase = "done" => name = NoName /\ scores = <<>>
    /\ Identified => name \in UserNames
    /\ residue # "none" => tryName \in Overlong
    /\ phase = "playing" => FunctionOf(games[choice].name) \in Functions

IInv ==
    /\ TypeOK /\ SessionShape
    /\ ScoreConservation /\ ScoresAreAMap /\ NoShadowedPlayer /\ HeapBalance

\* The invariant holds when arcade_run() starts.
LEMMA InitIInv == Init => IInv
<1> SUFFICES ASSUME Init PROVE IInv
  OBVIOUS
<1>1. TypeOK
  <2>1. 1 \in DOMAIN games
    BY SessionAssumption DEF Init
  <2>2. scores \in Seq(Pair) /\ played \in [GameNames -> Score]
    BY EmptyMap, NoScoreType DEF Init
  <2>3. 0 \in 0..MaxRefusals /\ 0 \in 0..MaxParties
    BY SessionAssumption
  <2>4. heap \in [names: Nat, maps: Nat]
    BY DEF Init
  <2> QED
    BY <2>1, <2>2, <2>3, <2>4 DEF Init, TypeOK, Phases, Chars
<1>2. SessionShape /\ ScoreConservation /\ NoShadowedPlayer /\ HeapBalance
  BY DEF Init, SessionShape, ScoreConservation, NoShadowedPlayer, HeapBalance, Identified
<1>3. ScoresAreAMap
  BY EmptyMap DEF Init, ScoresAreAMap
<1> QED
  BY <1>1, <1>2, <1>3 DEF IInv

\* Opening a session: with no party played yet, the totals are the opening.
LEMMA Opened ==
    ASSUME NEW map \in Seq(Pair), KeysUnique(map)
    PROVE  \A g \in GameNames :
              /\ GetFromName(map, g).win = Plus(GetFromName(map, g).win, NoScore.win)
              /\ GetFromName(map, g).lost = Plus(GetFromName(map, g).lost, NoScore.lost)
  BY GetType, PlusZero DEF NoScore, Score

\* Leaving the scores, the tally and the player alone keeps the conservation.
LEMMA SameScores ==
    ASSUME ScoreConservation, ScoresAreAMap,
           UNCHANGED <<scores, played, name, origin>>, Identified' => Identified
    PROVE  ScoreConservation' /\ ScoresAreAMap'
<1>1. Opening' = Opening
  BY DEF Opening
<1> QED
  BY <1>1 DEF ScoreConservation, ScoresAreAMap

\* The entries of the loader have names of games.
LEMMA EntryNames == TypeOK => \A i \in DOMAIN games : games[i].name \in GameNames
<1> SUFFICES ASSUME TypeOK, NEW i \in DOMAIN games PROVE games[i].name \in GameNames
  OBVIOUS
<1>1. games \in Seq(Entry)
  BY SessionAssumption DEF TypeOK
<1>2. i \in 1..Len(games) /\ games[i] \in Entry
  BY <1>1
<1> QED
  BY <1>2 DEF Entry

\* What a name line leaves in the input.
LEMMA ReadNameType ==
    ASSUME NEW n, ReadName(n), eof \in BOOLEAN
    PROVE  residue' \in Chars \cup {"none"} /\ eof' \in BOOLEAN
<1>1. CASE residue' \in Chars
  BY <1>1 DEF ReadName
<1>2. CASE residue' \in {"none"}
  BY <1>2 DEF ReadName
<1> QED
  BY <1>1, <1>2 DEF ReadName

\* Only a name that is too long leaves something in the input.
LEMMA ReadNameResidue ==
    ASSUME NEW n, ReadName(n), residue' # "none"
    PROVE  n \in Overlong
  BY DEF ReadName

\* Once at its end the input stays there.
LEMMA ReadChoiceEof ==
    ASSUME NEW v, ReadChoice(v), eof
    PROVE  eof'
<1>1. eof' = eof \/ eof' = TRUE
  BY DEF ReadChoice
<1> QED
  BY <1>1

\* No step breaks the types.
LEMMA TypeStep == IInv /\ [Next]_vars => TypeOK'
<1> SUFFICES ASSUME IInv, [Next]_vars PROVE TypeOK'
  OBVIOUS
<1> USE DEF IInv, TypeOK, Phases, Chars, player, input, history
<1>1. CASE StartAnonymous
  BY <1>1, EmptyMap, SessionAssumption DEF StartAnonymous
<1>2. CASE StartIdentification
  BY <1>2 DEF StartIdentification
<1>3. ASSUME NEW n \in UserNames, WelcomeBack(n) PROVE TypeOK'
  <2>1. Record[n] \in Seq(Pair)
    BY <1>3, SessionAssumption DEF WelcomeBack
  <2>2. heap' \in [names: Nat, maps: Nat]
    BY <1>3 DEF WelcomeBack
  <2>3. residue' \in Chars \cup {"none"} /\ eof' \in BOOLEAN
    BY <1>3, ReadNameType DEF WelcomeBack
  <2> QED
    BY <1>3, <2>1, <2>2, <2>3 DEF WelcomeBack
<1>4. ASSUME NEW n \in UserNames, NotFound(n) PROVE TypeOK'
  <2>1. heap' \in [names: Nat, maps: Nat]
    BY <1>4 DEF NotFound
  <2>2. residue' \in Chars \cup {"none"} /\ eof' \in BOOLEAN
    BY <1>4, ReadNameType DEF NotFound
  <2> QED
    BY <1>4, <2>1, <2>2 DEF NotFound
<1>5. CASE ConfirmYes
  <2>1. tryName \in UserNames
    BY <1>5 DEF ConfirmYes, SessionShape
  <2>2. heap' \in [names: Nat, maps: Nat]
    BY <1>5 DEF ConfirmYes, Renewed
  <2>3. eof' \in BOOLEAN /\ residue' = "none" /\ asked' \in BOOLEAN
        /\ consent' \in {"none", "typed", "residue", "garbage"}
    BY <1>5 DEF ConfirmYes, ReadChar
  <2> QED
    BY <1>5, <2>1, <2>2, <2>3, EmptyMap DEF ConfirmYes
<1>6. CASE ConfirmNo
  <2>1. refused + 1 \in 0..MaxRefusals
    BY <1>6, SessionAssumption DEF ConfirmNo
  <2> QED
    BY <1>6, <2>1 DEF ConfirmNo, ReadChar
<1>7. CASE ConfirmAgain
  BY <1>7 DEF ConfirmAgain, ReadChar
<1>8. CASE MenuAgain \/ ShowScores
  BY <1>8 DEF MenuAgain, ShowScores, ReadChoice
<1>9. CASE Quit
  <2>1. heap' \in [names: Nat, maps: Nat]
    BY <1>9, SessionAssumption DEF Quit, HeapBalance, Identified
  <2> QED
    BY <1>9, <2>1, EmptyMap DEF Quit, ReadChoice
<1>10. ASSUME NEW i \in DOMAIN games, Play(i) PROVE TypeOK'
  <2>1. parties + 1 \in 0..MaxParties
    BY <1>10, SessionAssumption DEF Play
  <2>2. heap' \in [names: Nat, maps: Nat]
    BY <1>10 DEF Play
  <2>3. eof' \in BOOLEAN
    BY <1>10 DEF Play, ReadChoice
  <2> QED
    BY <1>10, <2>1, <2>2, <2>3 DEF Play
<1>11. ASSUME NEW r \in Score, GameReturns(r) PROVE TypeOK'
  <2> DEFINE n == games[choice].name
  <2>1. n \in GameNames
    BY EntryNames
  <2>2. heap' \in [names: Nat, maps: Nat]
    <3>1. heap.names = 2
      BY <1>11 DEF GameReturns, HeapBalance, Identified
    <3>2. heap' = [heap EXCEPT !.names = 1]
      BY <1>11, <3>1 DEF GameReturns
    <3> QED
      BY <3>2
  <2>3. GetFromName(scores, n) \in Score
    BY GetType DEF ScoresAreAMap
  <2>4. Credit(GetFromName(scores, n), r) \in Score
    BY <2>3, PlusType DEF Credit, Score
  <2>5. scores' \in Seq(Pair)
    BY <1>11, <2>1, <2>4, InsertMap DEF GameReturns, ScoresAreAMap
  <2>6. Tally(played[n], r) \in Score
    BY <2>1, PlusType DEF Tally, Score
  <2>7. played' \in [GameNames -> Score]
    BY <1>11, <2>1, <2>6 DEF GameReturns
  <2> QED
    BY <1>11, <2>2, <2>5, <2>7 DEF GameReturns
<1>12. CASE UNCHANGED vars
  BY <1>12 DEF vars
<1> QED
  BY <1>1, <1>2, <1>3, <1>4, <1>5, <1>6, <1>7, <1>8, <1>9, <1>10, <1>11, <1>12
     DEF Next, Ended

\* No step breaks the shape of a session, the account of the heap or the
\* identity of the player.
LEMMA SessionStep ==
    IInv /\ [Next]_vars => (SessionShape /\ HeapBalance /\ NoShadowedPlayer)'
<1> SUFFICES ASSUME IInv, [Next]_vars
             PROVE  (SessionShape /\ HeapBalance /\ NoShadowedPlayer)'
  OBVIOUS
<1> USE DEF IInv, SessionShape, HeapBalance, NoShadowedPlayer, Identified,
            player, input, history
<1>0. heap \in [names: Nat, maps: Nat] /\ refused \in Nat
  BY SessionAssumption DEF TypeOK
<1>1. CASE StartAnonymous
  BY <1>0, <1>1, SessionAssumption DEF StartAnonymous, TypeOK
<1>2. CASE StartIdentification
  BY <1>0, <1>2 DEF StartIdentification
<1>3. ASSUME NEW n \in UserNames, WelcomeBack(n)
      PROVE  (SessionShape /\ HeapBalance /\ NoShadowedPlayer)'
  <2>1. residue' = "none"
    BY <1>3, ReadNameResidue, SessionAssumption DEF WelcomeBack
  <2> QED
    BY <1>0, <1>3, <2>1 DEF WelcomeBack
<1>4. ASSUME NEW n \in UserNames, NotFound(n)
      PROVE  (SessionShape /\ HeapBalance /\ NoShadowedPlayer)'
  <2>1. heap' = [names |-> heap.names, maps |-> heap.maps + 1]
    BY <1>0, <1>4 DEF NotFound
  <2>2. residue' # "none" => n \in Overlong
    BY <1>4, ReadNameResidue DEF NotFound
  <2> QED
    BY <1>0, <1>4, <2>1, <2>2 DEF NotFound
<1>5. CASE ConfirmYes
  <2>1. consent' = "typed" \/ tryName \in Overlong \/ eof'
    BY <1>5 DEF ConfirmYes, ReadChar
  <2>2. residue' = "none"
    BY <1>5 DEF ConfirmYes, ReadChar
  <2> QED
    BY <1>0, <1>5, <2>1, <2>2 DEF ConfirmYes, Renewed
<1>6. CASE ConfirmNo
  BY <1>0, <1>6 DEF ConfirmNo, ReadChar
<1>7. CASE ConfirmAgain
  BY <1>0, <1>7 DEF ConfirmAgain, ReadChar
<1>8. CASE MenuAgain \/ ShowScores
  <2>1. eof => eof'
    BY <1>8, ReadChoiceEof DEF MenuAgain, ShowScores
  <2> QED
    BY <1>0, <1>8, <2>1 DEF MenuAgain, ShowScores
<1>9. CASE Quit
  <2>1. eof => eof'
    BY <1>9, ReadChoiceEof DEF Quit
  <2> QED
    BY <1>0, <1>9, <2>1 DEF Quit
<1>10. ASSUME NEW i \in DOMAIN games, Play(i)
       PROVE  (SessionShape /\ HeapBalance /\ NoShadowedPlayer)'
  <2>1. heap' = [names |-> heap.names + 1, maps |-> heap.maps]
    BY <1>0, <1>10 DEF Play
  <2>2. phase' \in {"crashed", "playing"} /\ (eof => eof')
    BY <1>10, ReadChoiceEof DEF Play
  <2>3. phase' = "playing" => (FunctionOf(games[choice].name) \in Functions)'
    BY <1>10 DEF Play, FunctionOf
  <2> QED
    BY <1>0, <1>10, <2>1, <2>2, <2>3 DEF Play
<1>11. ASSUME NEW r \in Score, GameReturns(r)
       PROVE  (SessionShape /\ HeapBalance /\ NoShadowedPlayer)'
  <2>1. heap' = [names |-> heap.names - 1, maps |-> heap.maps]
    BY <1>0, <1>11 DEF GameReturns
  <2>2. phase' \in {"aborted", "menu"}
    BY <1>11 DEF GameReturns
  <2> QED
    BY <1>0, <1>11, <2>1, <2>2 DEF GameReturns
<1>12. CASE UNCHANGED vars
  <2>1. phase' = "playing" => (FunctionOf(games[choice].name) \in Functions)'
    BY <1>12 DEF vars, FunctionOf
  <2> QED
    BY <1>0, <1>12, <2>1 DEF vars
<1> QED
  BY <1>1, <1>2, <1>3, <1>4, <1>5, <1>6, <1>7, <1>8, <1>9, <1>10, <1>11, <1>12
     DEF Next, Ended

\* A party that returns adds its victories and defeats once, to its game.
LEMMA PartyConserves ==
    ASSUME IInv, NEW r \in Score, GameReturns(r)
    PROVE  ScoreConservation' /\ ScoresAreAMap'
<1> DEFINE n == games[choice].name
           old == GetFromName(scores, n)
           before(g) == GetFromName(Opening, g)
<1> USE DEF IInv
<1>1. n \in GameNames
  BY EntryNames DEF TypeOK
<1>2. scores \in Seq(Pair) /\ KeysUnique(scores)
  BY DEF TypeOK, ScoresAreAMap
<1>3. old \in Score /\ played[n] \in Score
  BY <1>1, <1>2, GetType DEF TypeOK
<1>4. /\ Credit(old, r) \in Score
      /\ Credit(old, r).win = Plus(old.win, r.win)
      /\ Credit(old, r).lost = Plus(old.lost, r.lost)
  BY <1>3, PlusType DEF Credit, Score
<1>5. Opening' = Opening /\ Identified
  BY DEF GameReturns, Opening, Identified
<1>6. CASE n \in LongGames
  BY <1>5, <1>6 DEF GameReturns, ScoreConservation, ScoresAreAMap
<1>7. CASE n \notin LongGames
  <2>1. scores' = Insert(scores, n, Credit(old, r))
    BY <1>7 DEF GameReturns
  <2>2. KeysUnique(scores')
    BY <1>1, <1>2, <1>4, <2>1, InsertMap
  <2>3. \A g : GetFromName(scores', g) =
              IF g = n THEN Credit(old, r) ELSE GetFromName(scores, g)
    BY <1>1, <1>2, <1>4, <2>1, InsertMap
  <2>4. /\ \A g \in GameNames : g # n => played'[g] = played[g]
        /\ played'[n].win = Plus(played[n].win, r.win)
        /\ played'[n].lost = Plus(played[n].lost, r.lost)
    BY <1>1, <1>7 DEF GameReturns, Tally, TypeOK
  <2>5. Opening \in Seq(Pair) /\ KeysUnique(Opening)
    BY <1>5, EmptyMap, SessionAssumption DEF Opening, NoShadowedPlayer
  <2>6. before(n) \in Score
    BY <2>5, GetType
  <2>7. /\ Plus(old.win, r.win) = Plus(before(n).win, Plus(played[n].win, r.win))
        /\ Plus(old.lost, r.lost) = Plus(before(n).lost, Plus(played[n].lost, r.lost))
    <3>1. /\ old.win = Plus(before(n).win, played[n].win)
          /\ old.lost = Plus(before(n).lost, played[n].lost)
      BY <1>1, <1>5 DEF ScoreConservation
    <3>2. /\ before(n).win \in Counter /\ played[n].win \in Counter /\ r.win \in Counter
          /\ before(n).lost \in Counter /\ played[n].lost \in Counter /\ r.lost \in Counter
      BY <1>3, <2>6 DEF Score
    <3> QED
      BY <3>1, <3>2, PlusAssociative
  <2>8. ASSUME NEW g \in GameNames
        PROVE  /\ GetFromName(scores', g).win = Plus(before(g).win, played'[g].win)
               /\ GetFromName(scores', g).lost = Plus(before(g).lost, played'[g].lost)
    <3>1. CASE g = n
      BY <3>1, <1>4, <2>3, <2>4, <2>7
    <3>2. CASE g # n
      BY <3>2, <1>5, <2>3, <2>4 DEF ScoreConservation
    <3> QED
      BY <3>1, <3>2
  <2> QED
    BY <1>5, <2>2, <2>8 DEF ScoreConservation, ScoresAreAMap
<1> QED
  BY <1>6, <1>7

\* No step loses a victory or a defeat, or doubles an entry of the map.
LEMMA ScoreStep == IInv /\ [Next]_vars => (ScoreConservation /\ ScoresAreAMap)'
<1> SUFFICES ASSUME IInv, [Next]_vars PROVE (ScoreConservation /\ ScoresAreAMap)'
  OBVIOUS
<1> USE DEF IInv, player, input, history
<1>1. ASSUME UNCHANGED <<scores, played, name, origin>>, Identified' => Identified
      PROVE  (ScoreConservation /\ ScoresAreAMap)'
  BY <1>1, SameScores
<1>2. ASSUME phase \in {"start", "identify", "confirm"}, played' = played,
             scores' = Opening', scores' \in Seq(Pair), KeysUnique(scores')
      PROVE  (ScoreConservation /\ ScoresAreAMap)'
  <2>1. \A g \in GameNames : played'[g] = NoScore
    BY <1>2 DEF SessionShape
  <2> QED
    BY <1>2, <2>1, Opened DEF ScoreConservation, ScoresAreAMap
<1>3. CASE StartAnonymous
  BY <1>2, <1>3, EmptyMap DEF StartAnonymous, Opening
<1>4. ASSUME NEW n \in UserNames, WelcomeBack(n)
      PROVE  (ScoreConservation /\ ScoresAreAMap)'
  BY <1>2, <1>4, SessionAssumption DEF WelcomeBack, Opening
<1>5. CASE ConfirmYes
  BY <1>2, <1>5, EmptyMap DEF ConfirmYes, Opening
<1>6. CASE StartIdentification \/ ConfirmNo \/ ConfirmAgain
  BY <1>1, <1>6 DEF StartIdentification, ConfirmNo, ConfirmAgain, Identified
<1>7. ASSUME NEW n \in UserNames, NotFound(n)
      PROVE  (ScoreConservation /\ ScoresAreAMap)'
  BY <1>1, <1>7 DEF NotFound, Identified
<1>8. CASE MenuAgain \/ ShowScores
  BY <1>1, <1>8 DEF MenuAgain, ShowScores, Identified
<1>9. CASE Quit
  BY <1>9, EmptyMap DEF Quit, Identified, ScoreConservation, ScoresAreAMap
<1>10. ASSUME NEW i \in DOMAIN games, Play(i)
       PROVE  (ScoreConservation /\ ScoresAreAMap)'
  BY <1>1, <1>10 DEF Play, Identified
<1>11. ASSUME NEW r \in Score, GameReturns(r)
       PROVE  (ScoreConservation /\ ScoresAreAMap)'
  BY <1>11, PartyConserves
<1>12. CASE UNCHANGED vars
  BY <1>1, <1>12 DEF vars, Identified
<1> QED
  BY <1>3, <1>4, <1>5, <1>6, <1>7, <1>8, <1>9, <1>10, <1>11, <1>12
     DEF Next, Ended

-----------------------------------------------------------------------------
(* The theorems *)

\* Every reachable state satisfies the inductive invariant.
THEOREM Invariance == Spec => []IInv
<1>1. IInv /\ [Next]_vars => IInv'
  BY TypeStep, SessionStep, ScoreStep DEF IInv
<1> QED
  BY InitIInv, <1>1, PTL DEF Spec

\* Type correctness of a session.
THEOREM TypeCorrect == Spec => []TypeOK
<1>1. IInv => TypeOK
  BY DEF IInv
<1> QED
  BY Invariance, <1>1, PTL

\* The map of the player always holds the record's victories and defeats plus
\* those of every party of the session, whatever their order and number.
THEOREM ScoresConserved == Spec => []ScoreConservation
<1>1. IInv => ScoreConservation
  BY DEF IInv
<1> QED
  BY Invariance, <1>1, PTL

\* The list behind the scores stays a map: one pair for each game.
THEOREM ScoresStayAMap == Spec => []ScoresAreAMap
<1>1. IInv => ScoresAreAMap
  BY DEF IInv
<1> QED
  BY Invariance, <1>1, PTL

\* A player on record is never replaced by a new one, and nobody becomes a
\* new player without a yes read from the input.
THEOREM NobodyShadowed == Spec => []NoShadowedPlayer
<1>1. IInv => NoShadowedPlayer
  BY DEF IInv
<1> QED
  BY Invariance, <1>1, PTL

\* What a session has allocated is what it still owns, plus one map for each
\* refused confirmation.
THEOREM HeapAccounted == Spec => []HeapBalance
<1>1. IInv => HeapBalance
  BY DEF IInv
<1> QED
  BY Invariance, <1>1, PTL

-----------------------------------------------------------------------------
(* The session implements the ledger *)

\* Steps that keep the scores and do not open or close the session stutter.
LEMMA LedgerStutter ==
    ASSUME UNCHANGED scores, LedgerStatus' = LedgerStatus
    PROVE  UNCHANGED <<LedgerStatus, LedgerOf(scores)>>
  BY DEF LedgerOf

\* A party that returns credits one line of the ledger, or stutters when its
\* result is lost with the program.
LEMMA PartyCredits ==
    ASSUME IInv, NEW r \in Score, GameReturns(r)
    PROVE  Ledger!Next \/ UNCHANGED <<LedgerStatus, LedgerOf(scores)>>
<1> DEFINE n == games[choice].name
           old == GetFromName(scores, n)
           line == [win |-> r.win, lost |-> r.lost]
<1> USE DEF IInv
<1>1. n \in GameNames
  BY EntryNames DEF TypeOK
<1>2. scores \in Seq(Pair) /\ KeysUnique(scores)
  BY DEF TypeOK, ScoresAreAMap
<1>3. old \in Score
  BY <1>2, GetType
<1>4. LedgerStatus = "open" /\ LedgerStatus' = "open"
  BY DEF GameReturns, LedgerStatus, Identified
<1>5. CASE n \in LongGames
  BY <1>4, <1>5, LedgerStutter DEF GameReturns
<1>6. CASE n \notin LongGames
  <2>1. scores' = Insert(scores, n, Credit(old, r))
    BY <1>6 DEF GameReturns
  <2>2. /\ Credit(old, r) \in Score
        /\ Credit(old, r).win = Plus(old.win, r.win)
        /\ Credit(old, r).lost = Plus(old.lost, r.lost)
    BY <1>3, PlusType DEF Credit, Score
  <2>3. \A g : GetFromName(scores', g) =
              IF g = n THEN Credit(old, r) ELSE GetFromName(scores, g)
    BY <1>1, <1>2, <2>1, <2>2, InsertMap
  <2>4. LedgerOf(scores)' =
          [LedgerOf(scores) EXCEPT ![n] = [win  |-> Plus(@.win, line.win),
                                           lost |-> Plus(@.lost, line.lost)]]
    BY <1>1, <2>2, <2>3 DEF LedgerOf
  <2>5. line \in Returned
    <3>1. r \in Outcomes[FunctionOf(n)] /\ FunctionOf(n) \in Functions
      BY DEF GameReturns, SessionShape
    <3> QED
      BY <3>1 DEF Returned
  <2>6. Ledger!Credit(n, line)
    BY <1>4, <2>4 DEF Ledger!Credit, Ledger!Plus, Plus
  <2> QED
    BY <1>1, <2>5, <2>6 DEF Ledger!Next
<1> QED
  BY <1>5, <1>6

\* Each step of a session is a step of the ledger or leaves it alone.
LEMMA LedgerStep ==
    IInv /\ [Next]_vars => [Ledger!Next]_<<LedgerStatus, LedgerOf(scores)>>
<1> SUFFICES ASSUME IInv, [Next]_vars
             PROVE  Ledger!Next \/ UNCHANGED <<LedgerStatus, LedgerOf(scores)>>
  OBVIOUS
<1> USE DEF IInv, player, input, history
<1>1. ASSUME phase \in {"start", "identify", "confirm"}, phase' = "menu",
             \/ scores' = <<>>
             \/ \E n \in Known : scores' = Record[n]
      PROVE  Ledger!Next
  <2>1. LedgerStatus = "none" /\ LedgerStatus' = "open"
    BY <1>1 DEF LedgerStatus, Identified
  <2>2. PICK map : scores' = map /\ (map = <<>> \/ \E n \in Known : map = Record[n])
    BY <1>1
  <2>3. LedgerOf(scores)' = LedgerOf(map)
    BY <2>2 DEF LedgerOf
  <2>4. LedgerOf(map) \in {LedgerOf(Record[n]) : n \in Known} \cup {LedgerOf(<<>>)}
    BY <2>2
  <2>5. Ledger!Open(LedgerOf(map))
    BY <2>1, <2>3 DEF Ledger!Open
  <2> QED
    BY <2>4, <2>5 DEF Ledger!Next
<1>2. CASE StartAnonymous \/ ConfirmYes
  BY <1>1, <1>2 DEF StartAnonymous, ConfirmYes
<1>3. ASSUME NEW n \in UserNames, WelcomeBack(n) PROVE Ledger!Next
  BY <1>1, <1>3 DEF WelcomeBack
<1>4. CASE StartIdentification \/ ConfirmNo \/ ConfirmAgain
  BY <1>4, LedgerStutter
     DEF StartIdentification, ConfirmNo, ConfirmAgain, LedgerStatus, Identified
<1>5. ASSUME NEW n \in UserNames, NotFound(n)
      PROVE  UNCHANGED <<LedgerStatus, LedgerOf(scores)>>
  BY <1>5, LedgerStutter DEF NotFound, LedgerStatus, Identified
<1>6. CASE MenuAgain \/ ShowScores
  BY <1>6, LedgerStutter DEF MenuAgain, ShowScores, LedgerStatus, Identified
<1>7. CASE Quit
  <2>1. LedgerStatus = "open" /\ LedgerStatus' = "closed"
    BY <1>7 DEF Quit, LedgerStatus, Identified
  <2>2. LedgerOf(scores)' = Ledger!Blank
    BY <1>7, EmptyMap DEF Quit, LedgerOf, Ledger!Blank, NoScore
  <2> QED
    BY <2>1, <2>2 DEF Ledger!Next, Ledger!Close
<1>8. ASSUME NEW i \in DOMAIN games, Play(i)
      PROVE  UNCHANGED <<LedgerStatus, LedgerOf(scores)>>
  BY <1>8, LedgerStutter DEF Play, LedgerStatus, Identified
<1>9. ASSUME NEW r \in Score, GameReturns(r)
      PROVE  Ledger!Next \/ UNCHANGED <<LedgerStatus, LedgerOf(scores)>>
  BY <1>9, PartyCredits
<1>10. CASE UNCHANGED vars
  BY <1>10, LedgerStutter DEF vars, LedgerStatus, Identified
<1> QED
  BY <1>2, <1>3, <1>4, <1>5, <1>6, <1>7, <1>8, <1>9, <1>10 DEF Next, Ended

\* A session implements the ledger: victories and defeats are credited one
\* party at a time, to the line of the game played, and never otherwise change.
THEOREM LedgerImplemented == Spec => ImplementsLedger
<1>1. Init => Ledger!Init
  <2>1. LedgerOf(<<>>) = Ledger!Blank
    BY EmptyMap DEF LedgerOf, Ledger!Blank, NoScore
  <2> QED
    BY <2>1 DEF Init, Ledger!Init, LedgerStatus, Identified
<1> QED
  BY <1>1, LedgerStep, Invariance, PTL DEF Spec, Ledger!Spec, ImplementsLedger
=============================================================================
