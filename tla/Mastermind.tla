----------------------------- MODULE Mastermind -----------------------------
(***************************************************************************)
(* jmmjouer/games/game_mastermind.c: parties in which the player guesses a *)
(* secret code, told after each guess how many pieces are well placed and  *)
(* how many are of a right colour in a wrong place.                        *)
(***************************************************************************)
EXTENDS Naturals, FiniteSets, FiniteSetsExt

CONSTANTS NbPIECE,       \* length of a code, 4 in the program
          Colors,        \* colours of the pieces, 5 in the program
          MaxTENTATIVE,  \* 10 in the program
          MaxParties     \* bound of the model

ASSUME MastermindAssumption ==
    /\ NbPIECE \in Nat \ {0} /\ IsFiniteSet(Colors) /\ Colors # {}
    /\ MaxTENTATIVE \in Nat /\ MaxParties \in Nat \ {0}

VARIABLES phase,       \* "guess", "again" (the replay question), "returned"
          secret,      \* tab_code_secret
          guess,       \* tab_guess, the last valid one
          bien, mal,   \* the last answer
          tentatives, victoire,
          scores,
          essais,      \* guesses of this party, up to one too many (history)
          eof,         \* stdin is at end of file
          asked        \* the replay question has an answer it rejected

party == <<secret, guess, bien, mal, tentatives, victoire, essais>>
vars == <<phase, party, scores, eof, asked>>

Pieces == 0..(NbPIECE - 1)
Codes == [Pieces -> Colors]
NoCode == <<>>   \* nothing was read into tab_guess in this party

Least(a, b) == IF a <= b THEN a ELSE b

-----------------------------------------------------------------------------
(* mm_algo_mastermind() *)

\* memo_deja_utilise after the first loop: 1 where a piece is well placed.
Placed(g, s) == [i \in Pieces |-> IF g[i] = s[i] THEN 1 ELSE 0]

\* The places of the code tried for a piece: those after it, modulo the size,
\* at distance 1 to NbPIECE - 1, of its colour and not used yet.
Candidates(g, s, memo, piece) ==
    {d \in 1..(NbPIECE - 1) :
        LET autre == (piece + d) % NbPIECE
        IN  g[piece] = s[autre] /\ memo[autre] = 0}

\* A faulty variant: the pieces already well placed are tried as well.
MalPlaceAll(g, s) ==
    LET after[k \in 0..NbPIECE] ==
            IF k = 0 THEN [memo |-> Placed(g, s), mal |-> 0]
            ELSE LET p == after[k - 1]
                     ds == Candidates(g, s, p.memo, k - 1)
                 IN  IF ds = {} THEN p
                     ELSE [memo |-> [p.memo EXCEPT ![(k - 1 + Min(ds)) % NbPIECE] = 2],
                           mal  |-> p.mal + 1]
    IN  after[NbPIECE].mal

\* The second loop: each piece not well placed marks the first place found.
MalPlace(g, s) ==
    LET after[k \in 0..NbPIECE] ==
            IF k = 0 THEN [memo |-> Placed(g, s), mal |-> 0]
            ELSE LET p == after[k - 1]
                     ds == Candidates(g, s, p.memo, k - 1)
                 IN  IF p.memo[k - 1] = 1 \/ ds = {} THEN p
                     ELSE [memo |-> [p.memo EXCEPT ![(k - 1 + Min(ds)) % NbPIECE] = 2],
                           mal  |-> p.mal + 1]
    IN  after[NbPIECE].mal

BienPlace(g, s) == Cardinality({i \in Pieces : g[i] = s[i]})

-----------------------------------------------------------------------------

Init ==
    /\ phase = "guess" /\ secret \in Codes /\ guess = NoCode
    /\ bien = 0 /\ mal = 0 /\ tentatives = 1 /\ victoire = FALSE /\ essais = 0
    /\ scores = [win |-> 0, lost |-> 0, draw |-> 0]
    /\ eof = FALSE /\ asked = FALSE

\* mm_ask_guess_user() rejects the line; at end of file it does so for ever.
InvalidGuess ==
    /\ phase = "guess"
    /\ eof' \in {eof, TRUE}
    /\ UNCHANGED <<phase, party, scores, asked>>

\* A faulty variant: the number of guesses does not end the loop.
OverNever == victoire'

\* The condition that ends the loop, after the guess.
Over == victoire' \/ tentatives > MaxTENTATIVE

\* A faulty variant: tentatives is not incremented.
SameAttempt == tentatives

NextAttempt == tentatives + 1

\* A faulty variant: a defeat is not counted.
CountedIfWon(won) == IF won THEN [scores EXCEPT !.win = @ + 1] ELSE scores

\* start_game_mastermind() counts the result of the party.
Counted(won) == IF won THEN [scores EXCEPT !.win = @ + 1]
                       ELSE [scores EXCEPT !.lost = @ + 1]

\* A valid code, the answer to it, and the end of the party when it is found or
\* when there were too many of them.
Guess(g) ==
    /\ phase = "guess" /\ ~eof
    /\ guess' = g /\ essais' = Least(essais + 1, MaxTENTATIVE + 1)
    /\ bien' = BienPlace(g, secret) /\ mal' = MalPlace(g, secret)
    /\ victoire' = (victoire \/ bien' = NbPIECE)
    /\ IF Over
       THEN phase' = "again" /\ scores' = Counted(victoire') /\ UNCHANGED tentatives
       ELSE tentatives' = NextAttempt /\ UNCHANGED <<phase, scores>>
    /\ UNCHANGED <<secret, eof, asked>>

\* scanf("%c"): a character of a line, or at end of file whatever the variable
\* held: it is undefined until a character was read into it.
Answer(c) ==
    \/ ~eof /\ UNCHANGED eof
    \/ eof' = TRUE /\ (asked => c = "other")

\* A faulty variant: the next party starts with the attempts of the last one.
YesKeepsAttempts ==
    /\ phase = "again" /\ Answer("y") /\ scores.win + scores.lost < MaxParties
    /\ phase' = "guess" /\ asked' = FALSE
    /\ secret' \in Codes /\ guess' = NoCode /\ bien' = 0 /\ mal' = 0 /\ essais' = 0
    /\ victoire' = FALSE
    /\ UNCHANGED <<tentatives, scores>>

\* mm_make_one_game() again: a new code, and the attempts from the start.
Yes ==
    /\ phase = "again" /\ Answer("y") /\ scores.win + scores.lost < MaxParties
    /\ phase' = "guess" /\ asked' = FALSE
    /\ secret' \in Codes /\ guess' = NoCode /\ bien' = 0 /\ mal' = 0 /\ essais' = 0
    /\ tentatives' = 1 /\ victoire' = FALSE
    /\ UNCHANGED scores

No ==
    /\ phase = "again" /\ Answer("n")
    /\ phase' = "returned" /\ asked' = FALSE
    /\ UNCHANGED <<party, scores>>

AskAgain ==
    /\ phase = "again" /\ Answer("other") /\ asked' = TRUE
    /\ UNCHANGED <<phase, party, scores>>

Next ==
    \/ InvalidGuess
    \/ \E g \in Codes : Guess(g)
    \/ Yes \/ No \/ AskAgain

\* Between the lines that are rejected the player goes on typing valid codes;
\* nothing is assumed of his answers to the replay question.
Fairness == WF_vars(\E g \in Codes : Guess(g))

Spec == Init /\ [][Next]_vars /\ Fairness

-----------------------------------------------------------------------------
(* Properties *)

\* Every variable has its type.
TypeOK ==
    /\ phase \in {"guess", "again", "returned"}
    /\ secret \in Codes /\ guess \in Codes \cup {NoCode}
    /\ bien \in 0..NbPIECE /\ mal \in 0..NbPIECE
    /\ tentatives \in 1..(MaxTENTATIVE + 1) /\ victoire \in BOOLEAN
    /\ essais \in 0..(MaxTENTATIVE + 1)
    /\ scores \in [win: 0..MaxParties, lost: 0..MaxParties, draw: {0}]
    /\ eof \in BOOLEAN /\ asked \in BOOLEAN

\* The number of pieces of colour c.
Count(code, c) == Cardinality({i \in Pieces : code[i] = c})

\* The colours the two codes have in common, each with its multiplicity.
InCommon(g, s) ==
    MapThenSumSet(LAMBDA c : Least(Count(g, c), Count(s, c)), Colors)

\* The two loops over one array of marks compute the answer of the game's
\* rules, whatever colours are repeated: the well placed pieces, and of the
\* others as many as the codes share (game_mastermind.c:222-268).
AnswerIsRight ==
    guess # NoCode =>
        /\ bien = Cardinality({i \in Pieces : guess[i] = secret[i]})
        /\ bien + mal = InCommon(guess, secret)

\* A party is over exactly when the code was found or after one guess more
\* than MaxTENTATIVE, and is won exactly when the last guess is the code, the
\* very last one included (game_mastermind.c:152-180).
PartyIsDecided ==
    phase # "guess" =>
        /\ victoire <=> guess = secret
        /\ ~victoire => essais = MaxTENTATIVE + 1

\* A party started ends, however many lines are rejected, as long as stdin has
\* valid ones: tentatives counts every guess of this party and no other.
PartyEnds == phase = "guess" ~> phase = "again" \/ eof

Promise == INSTANCE Game WITH
    status <- CASE phase = "guess" -> "playing"
                [] phase = "again" -> "between"
                [] phase = "returned" -> "returned",
    tally  <- scores

\* Every party counts once in the score returned, and one is played at least.
ImplementsGame == Promise!Spec

\* What the code does not do: stop at the number of attempts it announces, "le
\* nombre maximum de tentatives".
AtMostMaxTentative == essais <= MaxTENTATIVE
=============================================================================
