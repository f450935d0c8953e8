---------------------------- MODULE PartyProofs ----------------------------
(***************************************************************************)
(* Proofs about a party of hangman, for every set of words and lines and   *)
(* every number of turns, and about a party of tic-tac-toe (M), whose      *)
(* phase, scores and eof play the same part.                               *)
(***************************************************************************)
EXTENDS Pendu, FiniteSetTheorems, TLAPS

VARIABLES plateau, nb, rejected, wasted  \* of tic-tac-toe

M == INSTANCE Morpion

-----------------------------------------------------------------------------
(* Pendu *)

IInv == TypeOK /\ ShownIsTried /\ ResultIsEarned

\* The places of a word are finitely many.
LEMMA Places ==
    ASSUME mot \in Words, NEW S, S \subseteq DOMAIN mot
    PROVE  /\ DOMAIN mot = 1..Len(mot) /\ Len(mot) \in Nat
           /\ IsFiniteSet(S) /\ Cardinality(S) \in 0..Len(mot)
<1>1. mot \in Seq(Chars)
  BY PenduAssumption
<1>2. DOMAIN mot = 1..Len(mot) /\ Len(mot) \in Nat
  BY <1>1
<1>3. IsFiniteSet(1..Len(mot)) /\ Cardinality(1..Len(mot)) = Len(mot)
  BY <1>2, FS_Interval, SMTT(20)
<1>4. IsFiniteSet(S) /\ Cardinality(S) <= Len(mot)
  BY <1>2, <1>3, FS_Subset
<1> QED
  BY <1>2, <1>4, FS_CardinalityType

\* The party as it starts.
LEMMA InitIInv == Init => IInv
<1> SUFFICES ASSUME Init PROVE IInv
  OBVIOUS
<1>1. mot \in Words /\ Cardinality({}) = 0 /\ 0 \in 0..Len(mot)
  BY Places, FS_EmptySet DEF Init
<1>2. TypeOK
  <2>1. tours \in -MaxOverdraft..NbTours
    BY PenduAssumption DEF Init
  <2>2. eof \in BOOLEAN /\ saisie \in Lines /\ phase \in {"letter", "word", "returned"}
    BY Zenon DEF Init
  <2>3. scores \in [win: {0, 1}, lost: {0, 1}, draw: {0}]
    BY DEF Init
  <2>4. index \subseteq DOMAIN mot /\ tried \subseteq {First(line) : line \in Lines}
    BY DEF Init
  <2>5. counter \in 0..Len(mot)
    BY <1>1 DEF Init
  <2> QED
    BY <1>1, <2>1, <2>2, <2>3, <2>4, <2>5 DEF TypeOK
<1>3. ShownIsTried /\ ResultIsEarned
  BY <1>1 DEF Init, ShownIsTried, ResultIsEarned
<1> QED
  BY <1>2, <1>3 DEF IInv

\* The line of a step is one that may be typed.
LEMMA ReadType ==
    ASSUME TypeOK, NEW l \in Lines, Read(l)
    PROVE  saisie' \in Lines /\ saisie' = l /\ eof' \in BOOLEAN
  BY DEF Read, TypeOK

\* Results are counted in a party that goes on, where there is none yet.
LEMMA Counting ==
    ASSUME IInv, phase # "returned"
    PROVE  /\ scores = [win |-> 0, lost |-> 0, draw |-> 0]
           /\ Won => scores' = [win |-> 1, lost |-> 0, draw |-> 0]
           /\ Lost => scores' = [win |-> 0, lost |-> 1, draw |-> 0]
<1>1. scores \in [win: {0, 1}, lost: {0, 1}, draw: {0}]
  BY DEF IInv, TypeOK
<1>2. scores.win + scores.lost = 0
  BY DEF IInv, ResultIsEarned
<1>3. scores.win = 0 /\ scores.lost = 0
  BY <1>1, <1>2
<1> QED
  BY <1>1, <1>3 DEF Won, Lost

\* A letter shows the places it has, and counts those it adds.
LEMMA LetterShows ==
    ASSUME IInv, NEW l \in Lines, Letter(l)
    PROVE  ShownIsTried' /\ index' \subseteq DOMAIN mot' /\ counter' \in 0..Len(mot')
<1> DEFINE new == RightChars(First(l))
<1>1. /\ new \subseteq DOMAIN mot /\ index \subseteq DOMAIN mot /\ index \cap new = {}
      /\ mot' = mot /\ index' = index \cup new /\ counter' = counter + Cardinality(new)
      /\ tried' = tried \cup {First(l)} /\ mot \in Words
  BY DEF Letter, RightChars, IInv, TypeOK
<1>2. index' = {i \in DOMAIN mot' : mot'[i] \in tried'}
  BY <1>1 DEF RightChars, IInv, ShownIsTried
<1>3. IsFiniteSet(index) /\ IsFiniteSet(new) /\ Cardinality(index) \in Nat
      /\ Cardinality(new) \in Nat
  BY <1>1, Places
<1>4. counter' = Cardinality(index')
  <2>1. Cardinality(index \cup new) = Cardinality(index) + Cardinality(new) - Cardinality({})
    BY <1>1, <1>3, FS_Union
  <2> QED
    BY <1>1, <1>3, <2>1, FS_EmptySet DEF IInv, ShownIsTried
<1>5. Cardinality(index \cup new) \in 0..Len(mot)
  BY <1>1, Places
<1> QED
  BY <1>1, <1>2, <1>4, <1>5 DEF ShownIsTried

\* A step keeps the invariant.
LEMMA StepIInv == IInv /\ [Next]_vars => IInv'
<1> SUFFICES ASSUME IInv, [Next]_vars PROVE IInv'
  OBVIOUS
<1> USE DEF IInv
<1>1. ASSUME NEW l \in Lines, Quit(l) PROVE IInv'
  <2>1. scores' = [win |-> 0, lost |-> 1, draw |-> 0] /\ phase' = "returned"
    BY <1>1, Counting DEF Quit, Lost
  <2>2. saisie' = l /\ saisie' \in Lines /\ eof' \in BOOLEAN
    BY <1>1, ReadType DEF Quit
  <2>3. TypeOK'
    BY <1>1, <2>1, <2>2 DEF Quit, TypeOK
  <2>4. ShownIsTried' /\ ResultIsEarned'
    BY <1>1, <2>1, <2>2 DEF Quit, ShownIsTried, ResultIsEarned
  <2> QED
    BY <2>3, <2>4
<1>2. ASSUME NEW l \in Lines, AskWord(l) PROVE IInv'
  <2>1. saisie' \in Lines /\ eof' \in BOOLEAN
    BY <1>2, ReadType DEF AskWord
  <2>2. TypeOK'
    BY <1>2, <2>1 DEF AskWord, TypeOK
  <2>3. ShownIsTried' /\ ResultIsEarned'
    BY <1>2, Counting DEF AskWord, ShownIsTried, ResultIsEarned
  <2> QED
    BY <2>2, <2>3
<1>3. ASSUME NEW l \in Lines, Word(l) PROVE IInv'
  <2>1. saisie' = l /\ saisie' \in Lines /\ eof' \in BOOLEAN
    BY <1>3, ReadType DEF Word
  <2>2. ShownIsTried'
    BY <1>3 DEF Word, ShownIsTried
  <2>3. CASE IsPrefix(mot, l)
    <3>1. scores' = [win |-> 1, lost |-> 0, draw |-> 0] /\ phase' = "returned" /\ tours' = tours
      BY <1>3, <2>3, Counting DEF Word, Won
    <3>2. TypeOK'
      BY <1>3, <2>1, <3>1 DEF Word, TypeOK
    <3>3. ResultIsEarned'
      BY <1>3, <2>1, <2>3, <3>1 DEF Word, ResultIsEarned
    <3> QED
      BY <2>2, <3>2, <3>3
  <2>4. CASE ~IsPrefix(mot, l)
    <3>1. /\ scores' = scores /\ phase' = "letter" /\ tours' = tours - 1
          /\ tours > -MaxOverdraft
      BY <1>3, <2>4 DEF Word, MissTurn
    <3>2. tours' \in -MaxOverdraft..NbTours
      BY <3>1, PenduAssumption DEF TypeOK
    <3>3. TypeOK'
      BY <1>3, <2>1, <3>1, <3>2 DEF Word, TypeOK
    <3>4. ResultIsEarned'
      BY <1>3, <3>1, Counting DEF Word, ResultIsEarned
    <3> QED
      BY <2>2, <3>3, <3>4
  <2> QED
    BY <2>3, <2>4
<1>4. ASSUME NEW l \in Lines, Letter(l) PROVE IInv'
  <2>1. saisie' = l /\ saisie' \in Lines /\ eof' \in BOOLEAN
    BY <1>4, ReadType DEF Letter
  <2>2. ShownIsTried' /\ index' \subseteq DOMAIN mot' /\ counter' \in 0..Len(mot')
    BY <1>4, LetterShows
  <2>3. tried' \subseteq {First(line) : line \in Lines} /\ mot' = mot /\ mot' \in Words
    BY <1>4 DEF Letter, TypeOK
  <2>4. tours' \in -MaxOverdraft..NbTours
    BY <1>4, PenduAssumption DEF Letter, MissTurn, TypeOK
  <2>5. /\ scores' \in [win: {0, 1}, lost: {0, 1}, draw: {0}]
        /\ phase' \in {"letter", "word", "returned"} /\ ResultIsEarned'
    <3>1. CASE index' = DOMAIN mot /\ Won
      BY <1>4, <2>3, <3>1, Counting DEF Letter, Won, ResultIsEarned
    <3>2. CASE index' # DOMAIN mot /\ LastTurn /\ Lost
      BY <1>4, <2>3, <3>2, Counting DEF Letter, LastTurn, Lost, ResultIsEarned
    <3>3. CASE UNCHANGED <<phase, scores>>
      BY <1>4, <3>3, Counting DEF Letter, ResultIsEarned, TypeOK
    <3> QED
      BY <1>4, <3>1, <3>2, <3>3 DEF Letter
  <2> QED
    BY <2>1, <2>2, <2>3, <2>4, <2>5 DEF TypeOK
<1>5. CASE UNCHANGED vars
  BY <1>5 DEF vars, TypeOK, ShownIsTried, ResultIsEarned
<1> QED
  BY <1>1, <1>2, <1>3, <1>4, <1>5 DEF Next

\* In every party the types hold, the letters shown are those tried, and the
\* result is earned (game_pendu.c:222-303).
THEOREM Invariance == Spec => []IInv
  BY InitIInv, StepIInv, PTL DEF Spec

\* Every variable keeps its type.
THEOREM TypeCorrect == Spec => []TypeOK
<1>1. IInv => TypeOK
  BY DEF IInv
<1> QED
  BY <1>1, Invariance, PTL

\* The letters shown are those tried, at every place they have, and they are
\* counted once, for any word (game_pendu.c:139-156).
THEOREM ShownAreTried == Spec => []ShownIsTried
<1>1. IInv => ShownIsTried
  BY DEF IInv
<1> QED
  BY <1>1, Invariance, PTL

\* No word loses a party, and no party is won without the word
\* (game_pendu.c:222-303).
THEOREM ResultsEarned == Spec => []ResultIsEarned
<1>1. IInv => ResultIsEarned
  BY DEF IInv
<1> QED
  BY <1>1, Invariance, PTL

\* One party is played and counted once, whatever is typed.
THEOREM GameImplemented == Spec => ImplementsGame
<1> DEFINE status == IF phase = "returned" THEN "returned" ELSE "playing"
<1>1. Init => Promise!Init
  BY DEF Init, Promise!Init
<1>2. IInv /\ [Next]_vars => [Promise!Next]_<<status, scores>>
  <2> SUFFICES ASSUME IInv, [Next]_vars PROVE Promise!EndParty \/ UNCHANGED <<status, scores>>
    BY DEF Promise!Next
  <2>1. ASSUME phase # "returned", Won \/ Lost PROVE Promise!EndParty
    BY <2>1 DEF Won, Lost, Promise!EndParty
  <2>2. ASSUME NEW l \in Lines, Quit(l) PROVE Promise!EndParty
    BY <2>1, <2>2 DEF Quit
  <2>3. ASSUME NEW l \in Lines, AskWord(l) PROVE UNCHANGED <<status, scores>>
    BY <2>3 DEF AskWord
  <2>4. ASSUME NEW l \in Lines, Word(l) PROVE Promise!EndParty \/ UNCHANGED <<status, scores>>
    BY <2>1, <2>4 DEF Word
  <2>5. ASSUME NEW l \in Lines, Letter(l) PROVE Promise!EndParty \/ UNCHANGED <<status, scores>>
    BY <2>1, <2>5 DEF Letter
  <2>6. CASE UNCHANGED vars
    BY <2>6 DEF vars
  <2> QED
    BY <2>2, <2>3, <2>4, <2>5, <2>6 DEF Next
<1> QED
  BY <1>1, <1>2, Invariance, PTL DEF Spec, Promise!Spec, ImplementsGame

\* The lines a party of Pendu can still have: two for each turn left and for each
\* letter to find, and one for the word that is asked.
LinesLeft == 2 * (tours + Len(mot) - counter) + (IF phase = "letter" THEN 1 ELSE 0)

\* Each line ends the party or leaves fewer.
LineCounts == phase' = "returned" \/ LinesLeft' < LinesLeft

\* There are some as long as the party goes on and is not overdrawn.
LinesRunOut == phase # "returned" /\ ~Overdrawn => LinesLeft \in Nat \ {0}

\* No line is for nothing: a party of Pendu that no wrong word overdraws ends
\* within 2 * (NbTours + Len(mot)) + 1 lines, whatever they are, those of the end
\* of file included (game_pendu.c:222-303).
THEOREM PartiesShorten == Spec => []LinesRunOut /\ [][LineCounts]_vars
<1>1. IInv => LinesRunOut
  <2> SUFFICES ASSUME IInv, phase # "returned", ~Overdrawn PROVE LinesLeft \in Nat \ {0}
    BY DEF LinesRunOut
  <2>1. tours \in Int /\ tours > 0
    BY PenduAssumption DEF Overdrawn, IInv, TypeOK
  <2>2. Len(mot) \in Nat /\ counter \in 0..Len(mot)
    BY Places DEF IInv, TypeOK
  <2> QED
    BY <2>1, <2>2 DEF LinesLeft
<1>2. IInv /\ [Next]_vars => [LineCounts]_vars
  <2> SUFFICES ASSUME IInv, Next, phase' # "returned" PROVE LinesLeft' < LinesLeft
    BY DEF LineCounts
  <2>1. /\ tours \in Int /\ Len(mot) \in Nat /\ counter \in 0..Len(mot)
        /\ mot \in Words /\ index \subseteq DOMAIN mot
    BY Places, PenduAssumption DEF IInv, TypeOK
  <2>2. ASSUME NEW l \in Lines, Quit(l) PROVE FALSE
    BY <2>2 DEF Quit, Lost
  <2>3. ASSUME NEW l \in Lines, AskWord(l) PROVE LinesLeft' < LinesLeft
    BY <2>1, <2>3 DEF AskWord, LinesLeft
  <2>4. ASSUME NEW l \in Lines, Word(l) PROVE LinesLeft' < LinesLeft
    <3>1. phase = "word" /\ phase' = "letter" /\ tours' = tours - 1 /\ UNCHANGED <<mot, counter>>
      BY <2>4 DEF Word, Won, MissTurn
    <3> QED
      BY <2>1, <3>1 DEF LinesLeft
  <2>5. ASSUME NEW l \in Lines, Letter(l) PROVE LinesLeft' < LinesLeft
    <3> DEFINE new == RightChars(First(l))
    <3>1. /\ phase = "letter" /\ phase' = "letter" /\ mot' = mot
          /\ counter' = counter + Cardinality(new)
          /\ \/ new # {} /\ tours' = tours
             \/ new = {} /\ tours' = tours - 1
      BY <2>5 DEF Letter, Won, Lost, MissTurn
    <3>2. new \subseteq DOMAIN mot
      BY DEF RightChars
    <3>3. Cardinality(new) \in Nat /\ (Cardinality(new) = 0 <=> new = {})
      BY <2>1, <3>2, Places, FS_EmptySet
    <3>4. \/ tours' = tours /\ counter' >= counter + 1
          \/ tours' = tours - 1 /\ counter' = counter
      BY <2>1, <3>1, <3>3
    <3>5. counter' \in Nat
      BY <2>1, <3>1, <3>3
    <3> HIDE DEF new
    <3>6. tours' + Len(mot) - counter' < tours + Len(mot) - counter
      BY <2>1, <3>4, <3>5
    <3> QED
      BY <2>1, <3>1, <3>4, <3>5, <3>6 DEF LinesLeft
  <2> QED
    BY <2>2, <2>3, <2>4, <2>5 DEF Next
<1> QED
  BY <1>1, <1>2, Invariance, PTL DEF Spec

-----------------------------------------------------------------------------
(* Morpion *)

\* What the turns have in common, besides the properties checked: while the party
\* goes on there is no line, no result yet, and a free square.
GoesOn ==
    phase = "playing" =>
        /\ nb < 9
        /\ ~M!Victory(plateau, "O") /\ ~M!Victory(plateau, "X") /\ ~M!Full(plateau)
        /\ scores = [win |-> 0, lost |-> 0, draw |-> 0]

MorpionInv == M!TypeOK /\ M!TurnsAlternate /\ M!ScoreMatchesBoard /\ GoesOn

\* The instance counts as the library does.
LEMMA SameCount == \A S : M!Cardinality(S) = Cardinality(S)
  BY Zenon DEF Cardinality, M!Cardinality

\* There are nine squares, and finitely many of them have a symbol.
LEMMA Squares ==
    ASSUME NEW S, S \subseteq M!Cells
    PROVE  /\ IsFiniteSet(M!Cells) /\ Cardinality(M!Cells) = 9
           /\ IsFiniteSet(S) /\ Cardinality(S) \in Nat
<1> DEFINE a == 1  b == 9
<1>1. IsFiniteSet(a..b) /\ Cardinality(a..b) = IF a > b THEN 0 ELSE b - a + 1
  <2>1. a \in Int /\ b \in Int
    OBVIOUS
  <2> HIDE DEF a, b
  <2> QED
    BY <2>1, FS_Interval
<1>2. IsFiniteSet(M!Cells) /\ Cardinality(M!Cells) = 9
  BY <1>1 DEF M!Cells
<1> QED
  BY <1>2, FS_Subset, FS_CardinalityType

\* So it is before and after a turn.
LEMMA Symbols ==
    ASSUME NEW s
    PROVE  /\ IsFiniteSet(M!With(s)) /\ Cardinality(M!With(s)) \in Nat
           /\ Cardinality(M!With(s)') \in Nat
<1>1. M!With(s) \subseteq M!Cells /\ M!With(s)' \subseteq M!Cells
  BY DEF M!With
<1> QED
  BY <1>1, Squares

\* A symbol put on a free square is one more of its kind, and makes no line of
\* the other.
LEMMA Placed ==
    ASSUME plateau \in [M!Cells -> {"free", "O", "X"}], NEW c \in M!Cells, plateau[c] = "free",
           NEW s \in {"O", "X"}, NEW t \in {"O", "X"}, s # t,
           plateau' = [plateau EXCEPT ![c] = s]
    PROVE  /\ plateau' \in [M!Cells -> {"free", "O", "X"}]
           /\ Cardinality(M!With(s)') = Cardinality(M!With(s)) + 1
           /\ M!With(t)' = M!With(t)
           /\ M!Victory(plateau', t) => M!Victory(plateau, t)
<1>1. M!With(s)' = M!With(s) \cup {c} /\ c \notin M!With(s)
  BY DEF M!With
<1>2. M!With(t)' = M!With(t)
  BY DEF M!With
<1>3. M!Victory(plateau', t) => M!Victory(plateau, t)
  <2> SUFFICES ASSUME NEW line \in M!Rows \cup M!Columns \cup M!Diagonals,
                      \A d \in line : plateau'[d] = t
               PROVE  \A d \in line : plateau[d] = t
    BY DEF M!Victory
  <2>1. line \subseteq M!Cells
    BY DEF M!Rows, M!Columns, M!Diagonals, M!Cells
  <2> QED
    BY <2>1
<1> QED
  BY <1>1, <1>2, <1>3, Symbols, FS_AddElement

\* A board of nine symbols is full.
LEMMA NineFull ==
    ASSUME NEW board \in [M!Cells -> {"free", "O", "X"}],
           NEW os, os = {c \in M!Cells : board[c] = "O"},
           NEW xs, xs = {c \in M!Cells : board[c] = "X"},
           Cardinality(os) + Cardinality(xs) = 9
    PROVE  M!Full(board)
<1>1. os \cap xs = {} /\ os \subseteq M!Cells /\ xs \subseteq M!Cells
  OBVIOUS
<1>2. IsFiniteSet(os) /\ IsFiniteSet(xs) /\ IsFiniteSet(M!Cells) /\ Cardinality(M!Cells) = 9
      /\ Cardinality(os) \in Nat /\ Cardinality(xs) \in Nat
  BY <1>1, Squares
<1>3. Cardinality(os \cup xs) = Cardinality(os) + Cardinality(xs) - Cardinality({})
  BY <1>1, <1>2, FS_Union
<1>4. Cardinality(os \cup xs) = 9
  <2>1. Cardinality({}) = 0
    BY FS_EmptySet
  <2> QED
    BY <1>2, <1>3, <2>1
<1>5. os \cup xs = M!Cells
  BY <1>1, <1>2, <1>4, FS_Subset
<1> QED
  BY <1>5 DEF M!Full

\* The empty board.
LEMMA MorpionStarts == M!Init => MorpionInv
<1> SUFFICES ASSUME M!Init PROVE MorpionInv
  OBVIOUS
<1>1. M!With("O") = {} /\ M!With("X") = {}
  BY DEF M!Init, M!With
<1>2. ~M!Victory(plateau, "O") /\ ~M!Victory(plateau, "X") /\ ~M!Full(plateau)
  BY DEF M!Init, M!Victory, M!Full, M!Cells, M!Rows, M!Columns, M!Diagonals
<1>3. M!TypeOK
  <2>1. /\ phase \in {"playing", "returned", "undefined"}
        /\ plateau \in [M!Cells -> {"free", "O", "X"}] /\ nb \in 0..9 /\ wasted \in 0..5
        /\ scores \in [win: {0, 1}, lost: {0, 1}, draw: {0, 1}]
    BY DEF M!Init
  <2>2. rejected \in BOOLEAN /\ eof \in BOOLEAN
    BY DEF M!Init
  <2> QED
    BY <2>1, <2>2 DEF M!TypeOK
<1>4. M!TurnsAlternate
  BY <1>1, SameCount, FS_EmptySet DEF M!Init, M!TurnsAlternate
<1> QED
  BY <1>2, <1>3, <1>4 DEF M!Init, MorpionInv, GoesOn, M!ScoreMatchesBoard

\* The end of a turn of s, which had no line of the other symbol t to find: what
\* after() decides is true of the board.
LEMMA TurnEnds ==
    ASSUME MorpionInv, phase = "playing",
           NEW s \in {"O", "X"}, NEW t \in {"O", "X"}, s # t,
           NEW r \in {"win", "lost"}, r = (IF s = "O" THEN "win" ELSE "lost"),
           plateau' \in [M!Cells -> {"free", "O", "X"}], ~M!Victory(plateau', t),
           wasted' \in Nat, wasted' >= wasted,
           Cardinality(M!With("X")') = nb' \div 2,
           Cardinality(M!With("O")') + wasted' = (nb' + 1) \div 2,
           M!After(s, r)
    PROVE  /\ phase' \in {"playing", "returned"} /\ nb' \in 0..9 /\ wasted' \in 0..5
           /\ scores' \in [win: {0, 1}, lost: {0, 1}, draw: {0, 1}]
           /\ M!TurnsAlternate' /\ M!ScoreMatchesBoard' /\ GoesOn'
<1> USE DEF MorpionInv
<1>1. nb' = nb + 1 /\ nb \in 0..8 /\ scores = [win |-> 0, lost |-> 0, draw |-> 0]
  BY DEF GoesOn, M!TypeOK, M!After
<1>2. nb' \in 1..9 /\ M!TurnsAlternate'
  BY <1>1, SameCount DEF M!TurnsAlternate
<1>3. wasted' \in 0..5
  <2>1. Cardinality(M!With("O")') \in Nat
    BY Symbols
  <2> QED
    BY <1>1, <2>1
<1>4. CASE M!Victory(plateau', s) /\ M!Over(r)
  BY <1>1, <1>2, <1>3, <1>4 DEF M!Over, M!ScoreMatchesBoard, GoesOn
<1>5. CASE ~M!Victory(plateau', s) /\ M!Full(plateau') /\ M!Over("draw")
  BY <1>1, <1>2, <1>3, <1>5 DEF M!Over, M!ScoreMatchesBoard, GoesOn
<1>6. CASE /\ ~M!Victory(plateau', s) /\ ~M!Full(plateau')
           /\ phase' = IF M!TurnsLeft THEN "playing" ELSE "returned"
           /\ UNCHANGED scores
  <2>1. phase' = "returned" => wasted' > 0
    <3> SUFFICES ASSUME phase' = "returned", wasted' = 0 PROVE FALSE
      BY <1>3
    <3>1. nb' = 9
      BY <1>2, <1>6 DEF M!TurnsLeft
    <3>2. M!Full(plateau')
      <4>1. /\ M!With("O")' = {c \in M!Cells : plateau'[c] = "O"}
            /\ M!With("X")' = {c \in M!Cells : plateau'[c] = "X"}
        BY DEF M!With
      <4>2. Cardinality(M!With("O")') + Cardinality(M!With("X")') = 9
        BY <3>1, Symbols
      <4> QED
        BY <4>1, <4>2, NineFull
    <3> QED
      BY <1>6, <3>2
  <2> QED
    BY <1>1, <1>2, <1>3, <1>6, <2>1 DEF M!ScoreMatchesBoard, GoesOn, M!TurnsLeft
<1> QED
  BY <1>4, <1>5, <1>6 DEF M!After

\* A turn keeps the invariant.
LEMMA MorpionStep == MorpionInv /\ [M!Next]_(M!vars) => MorpionInv'
<1> SUFFICES ASSUME MorpionInv, [M!Next]_(M!vars) PROVE MorpionInv'
  OBVIOUS
<1> USE DEF MorpionInv
<1>1. phase = "playing" =>
        /\ nb \in 0..8 /\ Cardinality(M!With("X")) = nb \div 2
        /\ Cardinality(M!With("O")) + wasted = (nb + 1) \div 2
        /\ ~M!Victory(plateau, "O") /\ ~M!Victory(plateau, "X")
  BY SameCount DEF M!TypeOK, M!TurnsAlternate, GoesOn
<1>2. ASSUME NEW c \in M!Cells, M!TourJoueur(c) PROVE MorpionInv'
  <2>1. /\ phase = "playing" /\ nb % 2 = 0 /\ wasted' = wasted /\ nb' = nb + 1
        /\ rejected' \in BOOLEAN /\ eof' \in BOOLEAN
    BY <1>2 DEF M!TourJoueur, M!PlayersTurn, M!Typed, M!After, M!TypeOK
  <2>2. /\ plateau' \in [M!Cells -> {"free", "O", "X"}]
        /\ Cardinality(M!With("O")') = Cardinality(M!With("O")) + 1
        /\ M!With("X")' = M!With("X") /\ ~M!Victory(plateau', "X")
    BY <1>1, <1>2, <2>1, Placed DEF M!TourJoueur, M!FreeCell, M!TypeOK
  <2>3. nb' \div 2 = nb \div 2 /\ (nb' + 1) \div 2 = (nb + 1) \div 2 + 1
    BY <1>1, <2>1
  <2>4. /\ Cardinality(M!With("X")') = nb' \div 2
        /\ Cardinality(M!With("O")') + wasted' = (nb' + 1) \div 2
    BY <1>1, <2>1, <2>2, <2>3, Symbols DEF M!TypeOK
  <2> QED
    BY <1>2, <2>1, <2>2, <2>4, TurnEnds DEF M!TourJoueur, M!TypeOK
<1>3. ASSUME NEW c \in M!Cells, M!TourIA(c) PROVE MorpionInv'
  <2>1. /\ phase = "playing" /\ nb % 2 = 1 /\ wasted' = wasted /\ nb' = nb + 1
        /\ rejected' \in BOOLEAN /\ eof' \in BOOLEAN
    BY <1>3 DEF M!TourIA, M!After, M!TypeOK
  <2>2. /\ plateau' \in [M!Cells -> {"free", "O", "X"}]
        /\ Cardinality(M!With("X")') = Cardinality(M!With("X")) + 1
        /\ M!With("O")' = M!With("O") /\ ~M!Victory(plateau', "O")
    BY <1>1, <1>3, <2>1, Placed DEF M!TourIA, M!FreeCell, M!TypeOK
  <2>3. nb' \div 2 = nb \div 2 + 1 /\ (nb' + 1) \div 2 = (nb + 1) \div 2
    BY <1>1, <2>1
  <2>4. /\ Cardinality(M!With("X")') = nb' \div 2
        /\ Cardinality(M!With("O")') + wasted' = (nb' + 1) \div 2
    BY <1>1, <2>1, <2>2, <2>3, Symbols DEF M!TypeOK
  <2> QED
    BY <1>3, <2>1, <2>2, <2>4, TurnEnds DEF M!TourIA, M!TypeOK
<1>4. ASSUME NEW s \in {"O", "X"}, M!TourPerdu(s) PROVE MorpionInv'
  <2>1. /\ phase = "playing" /\ nb % 2 = 0 /\ wasted' = wasted + 1 /\ nb' = nb + 1
        /\ rejected' \in BOOLEAN /\ eof' \in BOOLEAN /\ plateau' = plateau
    BY <1>4 DEF M!TourPerdu, M!PlayersTurn, M!Typed, M!After, M!TypeOK
  <2>2. M!With("X")' = M!With("X") /\ M!With("O")' = M!With("O")
    BY <2>1 DEF M!With
  <2>3. nb' \div 2 = nb \div 2 /\ (nb' + 1) \div 2 = (nb + 1) \div 2 + 1
    BY <1>1, <2>1
  <2>4. /\ Cardinality(M!With("X")') = nb' \div 2
        /\ Cardinality(M!With("O")') + wasted' = (nb' + 1) \div 2
    BY <1>1, <2>1, <2>2, <2>3, Symbols DEF M!TypeOK
  <2>5. CASE M!After("O", "win")
    BY <1>1, <2>1, <2>4, <2>5, TurnEnds DEF M!TypeOK
  <2>6. CASE phase' = "undefined" /\ nb' = nb + 1 /\ UNCHANGED scores
    <3>1. nb' \in 0..9 /\ wasted' \in 0..5
      BY <1>1, <2>1, <2>4, Symbols DEF M!TypeOK
    <3> QED
      BY <2>1, <2>6, <3>1 DEF M!TypeOK, M!TurnsAlternate, M!ScoreMatchesBoard, GoesOn
  <2> QED
    BY <1>4, <2>5, <2>6 DEF M!TourPerdu
<1>5. CASE M!Rejected
  <2>1. /\ UNCHANGED <<phase, plateau, nb, scores, wasted>>
        /\ rejected' \in BOOLEAN /\ eof' \in BOOLEAN
    BY <1>5 DEF M!Rejected, M!TypeOK
  <2> QED
    BY <2>1 DEF M!TypeOK, M!TurnsAlternate, M!With, M!ScoreMatchesBoard, GoesOn
<1>6. CASE UNCHANGED M!vars
  BY <1>6 DEF M!vars, M!TypeOK, M!TurnsAlternate, M!With, M!ScoreMatchesBoard, GoesOn
<1> QED
  BY <1>2, <1>3, <1>4, <1>5, <1>6 DEF M!Next

\* In every party the types hold, the turns alternate, the score is that of the
\* board, and while the party goes on nobody has a line (game_morpion.c:50-80).
THEOREM MorpionInvariance == M!Spec => []MorpionInv
  BY MorpionStarts, MorpionStep, PTL DEF M!Spec

\* The player and the program take turns, and each turn fills one square but those
\* the player wasted (game_morpion.c:50-80).
THEOREM TurnsAlternating == M!Spec => []M!TurnsAlternate
<1>1. MorpionInv => M!TurnsAlternate
  BY DEF MorpionInv
<1> QED
  BY <1>1, MorpionInvariance, PTL

\* The score returned is that of the final board, and a party without a result is
\* one in which the player wasted turns (game_morpion.c:57-80).
THEOREM ScoresMatchBoard == M!Spec => []M!ScoreMatchesBoard
<1>1. MorpionInv => M!ScoreMatchesBoard
  BY DEF MorpionInv
<1> QED
  BY <1>1, MorpionInvariance, PTL

\* While the party goes on a square is free: the loop that draws squares until it
\* meets one has one to meet, and the player one to choose
\* (game_morpion.c:199-210).
THEOREM SquareLeft == M!Spec => [](phase = "playing" => \E c \in M!Cells : M!FreeCell(c))
<1>1. MorpionInv => (phase = "playing" => \E c \in M!Cells : M!FreeCell(c))
  BY DEF MorpionInv, GoesOn, M!Full, M!FreeCell
<1> QED
  BY <1>1, MorpionInvariance, PTL

\* What the arcade expects of a start function.
Expected == INSTANCE Game WITH
    status <- IF phase = "playing" THEN "playing" ELSE "returned", tally <- scores

\* No turn was used without a square.
NoneWasted == wasted = 0

\* A party in which no turn is wasted is what the arcade expects of a game: one
\* party, counted once (arcade.c:162-183, game_morpion.c:50-80).
THEOREM WellPlayed == M!Spec /\ []NoneWasted => Expected!Spec
<1> DEFINE status == IF phase = "playing" THEN "playing" ELSE "returned"
<1>1. M!Init => Expected!Init
  BY DEF M!Init, Expected!Init
<1>2. MorpionInv /\ MorpionInv' /\ NoneWasted /\ NoneWasted' /\ [M!Next]_(M!vars)
        => [Expected!Next]_<<status, scores>>
  <2> SUFFICES ASSUME MorpionInv, MorpionInv', NoneWasted, NoneWasted', [M!Next]_(M!vars)
               PROVE  Expected!EndParty \/ UNCHANGED <<status, scores>>
    BY DEF Expected!Next
  <2>1. ASSUME NEW s, NEW r \in {"win", "lost"}, phase = "playing", M!After(s, r)
        PROVE  Expected!EndParty \/ UNCHANGED <<status, scores>>
    <3>1. CASE \E q \in {"win", "lost", "draw"} : M!Over(q)
      BY <2>1, <3>1 DEF M!Over, Expected!EndParty
    <3>2. CASE UNCHANGED scores
      <4>1. phase' \in {"playing", "returned"}
        BY <2>1 DEF M!After, M!Over
      <4>2. ASSUME phase' = "returned" PROVE FALSE
        <5>1. scores.win + scores.lost + scores.draw = 0
          BY <2>1 DEF MorpionInv, GoesOn
        <5>2. scores'.win + scores'.lost + scores'.draw # 0
          BY <4>2 DEF MorpionInv, NoneWasted, M!ScoreMatchesBoard
        <5> QED
          BY <3>2, <5>1, <5>2
      <4> QED
        BY <2>1, <3>2, <4>1, <4>2
    <3> QED
      BY <2>1, <3>1, <3>2 DEF M!After
  <2>2. ASSUME NEW c \in M!Cells, M!TourJoueur(c)
        PROVE  Expected!EndParty \/ UNCHANGED <<status, scores>>
    BY <2>1, <2>2 DEF M!TourJoueur, M!PlayersTurn
  <2>3. ASSUME NEW c \in M!Cells, M!TourIA(c)
        PROVE  Expected!EndParty \/ UNCHANGED <<status, scores>>
    BY <2>1, <2>3 DEF M!TourIA
  <2>4. ASSUME NEW s \in {"O", "X"}, M!TourPerdu(s) PROVE FALSE
    BY <2>4 DEF M!TourPerdu, NoneWasted
  <2>5. CASE M!Rejected \/ UNCHANGED M!vars
    BY <2>5 DEF M!Rejected, M!vars
  <2> QED
    BY <2>2, <2>3, <2>4, <2>5 DEF M!Next
<1> QED
  BY <1>1, <1>2, MorpionInvariance, PTL DEF M!Spec, Expected!Spec
=============================================================================
