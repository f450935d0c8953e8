------------------------------- MODULE Pendu -------------------------------
(***************************************************************************)
(* jmmjouer/games/game_pendu.c: one party of hangman.  A line is a letter, *)
(* the wish to propose a word, read from the line after, or to quit.  What *)
(* a line stands for depends on its first characters only; at end of file  *)
(* the buffer keeps the line before, or what it held when the party began. *)
(***************************************************************************)
EXTENDS Naturals, Integers, SequencesExt

CONSTANTS Chars,        \* characters
          Words,        \* the words to find
          Lines,        \* the lines that may be typed
          NbTours,      \* 10 in the program
          MaxOverdraft  \* bound of the model on what nbTourRestant goes below 0

ASSUME PenduAssumption ==
    /\ Words \cup Lines \subseteq Seq(Chars) /\ <<>> \notin Words
    /\ NbTours \in Nat \ {0} /\ MaxOverdraft \in Nat

VARIABLES phase,    \* "letter", "word" (the word prompt), "returned"
          mot,      \* mot_mystere
          index,    \* the positions where indexCorrectLetters is 1
          counter,  \* correct_char_counter
          tours,    \* nbTourRestant
          saisie,   \* the input buffer
          eof,
          scores,
          tried     \* first characters of the lines taken as letters (history)

vars == <<phase, mot, index, counter, tours, saisie, eof, scores, tried>>

Init ==
    /\ phase = "letter" /\ mot \in Words
    /\ index = {} /\ counter = 0 /\ tours = NbTours
    /\ saisie \in Lines /\ eof = FALSE
    /\ scores = [win |-> 0, lost |-> 0, draw |-> 0]
    /\ tried = {}

First(line) == IF line = <<>> THEN "nul" ELSE line[1]

IsQuit(line) == First(line) = "q"
IsWord(line) == First(line) = "w" \/ IsPrefix(<<"m", "o", "t">>, line)

\* fgets(): a line, or at end of file the one already in the buffer.
Read(line) ==
    /\ saisie' = line
    /\ \/ ~eof /\ UNCHANGED eof
       \/ line = saisie /\ eof' = TRUE

\* A faulty variant: the defeat is not counted.
LostUncounted == phase' = "returned" /\ UNCHANGED scores

Won  == phase' = "returned" /\ scores' = [scores EXCEPT !.win = @ + 1]
Lost == phase' = "returned" /\ scores' = [scores EXCEPT !.lost = @ + 1]

\* A faulty variant: the turn is not taken.
MissFree == UNCHANGED tours

\* A turn is lost; MaxOverdraft stops the model only.
MissTurn == tours > -MaxOverdraft /\ tours' = tours - 1

-----------------------------------------------------------------------------

\* "q": the party is lost.
Quit(line) ==
    /\ phase = "letter" /\ IsQuit(line) /\ Read(line)
    /\ Lost
    /\ UNCHANGED <<mot, index, counter, tours, tried>>

\* "w" or "mot": the next line is a word.
AskWord(line) ==
    /\ phase = "letter" /\ IsWord(line) /\ Read(line)
    /\ phase' = "word"
    /\ UNCHANGED <<mot, index, counter, tours, scores, tried>>

\* loopSecretWord(): the word is right as soon as the line starts with it.  A
\* wrong one costs a turn, and nothing looks whether it was the last.
Word(line) ==
    /\ phase = "word" /\ Read(line)
    /\ IF IsPrefix(mot, line)
       THEN Won /\ UNCHANGED tours
       ELSE MissTurn /\ phase' = "letter" /\ UNCHANGED scores
    /\ UNCHANGED <<mot, index, counter, tried>>

\* Faulty variants: positions found before count again; the first occurrence
\* of the letter only is found.
RightCharsAgain(c) == {i \in DOMAIN mot : mot[i] = c}
RightCharOnce(c) ==
    {i \in DOMAIN mot \ index : mot[i] = c /\ \A j \in 1..(i - 1) : mot[j] # c}

\* countRightChar(): the positions a letter adds.
RightChars(c) == {i \in DOMAIN mot \ index : mot[i] = c}

\* A faulty variant: the party is lost one turn early.
LastTurnEarly == tours' = 1

\* nbTourRestant==0, looked at after a wrong letter only.
LastTurn == tours' = 0

\* A letter: the end of the party when it was the last one to find, or when the
\* turn it cost was the last.
Letter(line) ==
    LET new == RightChars(First(line)) IN
    /\ phase = "letter" /\ ~IsQuit(line) /\ ~IsWord(line) /\ Read(line)
    /\ tried' = tried \cup {First(line)}
    /\ index' = index \cup new /\ counter' = counter + Cardinality(new)
    /\ \/ /\ index' = DOMAIN mot
          /\ Won /\ UNCHANGED tours
       \/ /\ index' # DOMAIN mot /\ new # {}
          /\ UNCHANGED <<phase, tours, scores>>
       \/ /\ index' # DOMAIN mot /\ new = {}
          /\ MissTurn
          /\ IF LastTurn THEN Lost ELSE UNCHANGED <<phase, scores>>
    /\ UNCHANGED mot

Next == \E line \in Lines : Quit(line) \/ AskWord(line) \/ Word(line) \/ Letter(line)

\* A line, or the end of the file, comes in the end.
Fairness == WF_vars(Next)

Spec == Init /\ [][Next]_vars /\ Fairness

-----------------------------------------------------------------------------
(* Properties *)

\* Every variable has its type.
TypeOK ==
    /\ phase \in {"letter", "word", "returned"} /\ mot \in Words
    /\ index \subseteq DOMAIN mot /\ counter \in 0..Len(mot)
    /\ tours \in -MaxOverdraft..NbTours
    /\ saisie \in Lines /\ eof \in BOOLEAN
    /\ scores \in [win: {0, 1}, lost: {0, 1}, draw: {0}]
    /\ tried \subseteq {First(line) : line \in Lines}

\* The letters shown are those tried, at every place they have in the word, and
\* correct_char_counter, which tells a right letter from a wrong or a repeated
\* one, is their number (game_pendu.c:139-156, 263, 279).
ShownIsTried ==
    /\ index = {i \in DOMAIN mot : mot[i] \in tried}
    /\ counter = Cardinality(index)

\* A party is won by a word, or by its last letter, and lost by quitting or by
\* the letter that costs the last turn, never by a word (game_pendu.c:222-303).
ResultIsEarned ==
    /\ scores.win = 1 => index = DOMAIN mot \/ IsPrefix(mot, saisie)
    /\ scores.lost = 1 => IsQuit(saisie) \/ (tours = 0 /\ index # DOMAIN mot)
    /\ scores.win + scores.lost = IF phase = "returned" THEN 1 ELSE 0

\* The party goes on with no turn left: a wrong word took the last one.
Overdrawn == phase # "returned" /\ tours <= 0

\* The party ends, or a wrong word overdraws it: while there are turns left every
\* two lines find a letter or cost a turn, at end of file as well.
PartyEnds == <>(phase = "returned" \/ Overdrawn)

Promise == INSTANCE Game WITH
    status <- IF phase = "returned" THEN "returned" ELSE "playing",
    tally  <- scores

\* One party is played and counted once.
ImplementsGame == Promise!Spec
=============================================================================
