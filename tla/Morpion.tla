------------------------------ MODULE Morpion ------------------------------
(***************************************************************************)
(* src_plugins/game_morpion.c: one party of tic-tac-toe against a program  *)
(* that plays at random.  The board shows the number of each free square;  *)
(* an input is accepted when the board shows that character, the symbols   *)
(* already played included, whose square is then out of the board: the     *)
(* write goes elsewhere on the stack, and the turn is used.                *)
(***************************************************************************)
EXTENDS Naturals, FiniteSets

VARIABLES phase,     \* "playing", "returned", "undefined" (the stray write hurt)
          plateau,   \* the squares: "free", "O" or "X"
          nb,        \* nb_case_joue
          scores,
          rejected,  \* tentative holds a rejected character of this turn
          eof,
          wasted     \* turns used without a square (history)

vars == <<phase, plateau, nb, scores, rejected, eof, wasted>>

Cells == 1..9

Init ==
    /\ phase = "playing"
    /\ plateau = [c \in Cells |-> "free"]
    /\ nb = 0
    /\ scores = [win |-> 0, lost |-> 0, draw |-> 0]
    /\ rejected = FALSE /\ eof = FALSE /\ wasted = 0

\* The lines test_victoire() compares.
Rows      == {{1, 2, 3}, {4, 5, 6}, {7, 8, 9}}
Columns   == {{1, 4, 7}, {2, 5, 8}, {3, 6, 9}}
Diagonals == {{1, 5, 9}, {3, 5, 7}}

Victory(board, s) ==
    \E line \in Rows \cup Columns \cup Diagonals : \A c \in line : board[c] = s

\* test_plateau_rempli()
Full(board) == \A c \in Cells : board[c] # "free"

Over(r) == phase' = "returned" /\ scores' = [scores EXCEPT ![r] = @ + 1]

\* "On ne peut pas jouer plus de 9 cases !"
TurnsLeft == nb' < 9

\* A faulty variant: a full board is a draw, before looking for a line.
AfterFull(s, r) ==
    /\ nb' = nb + 1
    /\ \/ Full(plateau') /\ Over("draw")
       \/ ~Full(plateau') /\ Victory(plateau', s) /\ Over(r)
       \/ /\ ~Full(plateau') /\ ~Victory(plateau', s)
          /\ phase' = IF TurnsLeft THEN "playing" ELSE "returned"
          /\ UNCHANGED scores

\* The end of a turn of the loop: a line, a full board, or the ninth turn.
After(s, r) ==
    /\ nb' = nb + 1
    /\ \/ Victory(plateau', s) /\ Over(r)
       \/ ~Victory(plateau', s) /\ Full(plateau') /\ Over("draw")
       \/ /\ ~Victory(plateau', s) /\ ~Full(plateau')
          /\ phase' = IF TurnsLeft THEN "playing" ELSE "returned"
          /\ UNCHANGED scores

-----------------------------------------------------------------------------
(* Turns of the player: nb is even *)

PlayersTurn == phase = "playing" /\ nb % 2 = 0

\* scanf("%c"): a character, or at end of file what tentative holds: undefined
\* at the start of the turn, then the character rejected.
Typed ==
    \/ ~eof /\ UNCHANGED eof
    \/ eof' = TRUE /\ ~rejected

\* Faulty variants: the character is not looked for on the board; the search
\* stops before the last square.
AnyCell(c) == c \in Cells
FreeCellBeforeLast(c) == c < 9 /\ plateau[c] = "free"

\* saisie_est_correct() for a digit: the board still shows it.
FreeCell(c) == plateau[c] = "free"

TourJoueur(c) ==
    /\ PlayersTurn /\ FreeCell(c) /\ Typed
    /\ plateau' = [plateau EXCEPT ![c] = "O"]
    /\ rejected' = FALSE
    /\ After("O", "win")
    /\ UNCHANGED wasted

\* The character is a symbol of the board.
TourPerdu(s) ==
    /\ PlayersTurn /\ (\E c \in Cells : plateau[c] = s) /\ Typed
    /\ rejected' = FALSE /\ wasted' = wasted + 1
    /\ UNCHANGED plateau
    /\ \/ After("O", "win")
       \/ phase' = "undefined" /\ nb' = nb + 1 /\ UNCHANGED scores

\* Any other character, the newline after each of the others for one; at end of
\* file it is rejected for ever.
Rejected ==
    /\ PlayersTurn
    /\ rejected' = TRUE /\ eof' \in {eof, TRUE}
    /\ UNCHANGED <<phase, plateau, nb, scores, wasted>>

-----------------------------------------------------------------------------
(* Turns of the program: rand() until a digit is on the board *)

TourIA(c) ==
    /\ phase = "playing" /\ nb % 2 = 1 /\ FreeCell(c)
    /\ plateau' = [plateau EXCEPT ![c] = "X"]
    /\ After("X", "lost")
    /\ UNCHANGED <<rejected, eof, wasted>>

Next ==
    \/ \E c \in Cells : TourJoueur(c) \/ TourIA(c)
    \/ \E s \in {"O", "X"} : TourPerdu(s)
    \/ Rejected

\* The player types the number of a free square in the end, and rand() draws one.
Fairness ==
    /\ WF_vars(\E c \in Cells : TourJoueur(c))
    /\ WF_vars(\E c \in Cells : TourIA(c))

Spec == Init /\ [][Next]_vars /\ Fairness

-----------------------------------------------------------------------------
(* Properties *)

\* Every variable has its type.
TypeOK ==
    /\ phase \in {"playing", "returned", "undefined"}
    /\ plateau \in [Cells -> {"free", "O", "X"}] /\ nb \in 0..9
    /\ scores \in [win: {0, 1}, lost: {0, 1}, draw: {0, 1}]
    /\ rejected \in BOOLEAN /\ eof \in BOOLEAN /\ wasted \in 0..5

With(s) == {c \in Cells : plateau[c] = s}

\* The turns alternate: the player starts, and every turn fills one square but
\* those he wasted on a symbol (game_morpion.c:50-80).
TurnsAlternate ==
    phase = "playing" =>
        /\ Cardinality(With("X")) = nb \div 2
        /\ Cardinality(With("O")) + wasted = (nb + 1) \div 2

\* The score returned is that of the final board: at most one result, a line of
\* the winner and none of the other, a full board without a line for a draw; and
\* a party without a result is one in which the player wasted turns.
ScoreMatchesBoard ==
    phase = "returned" =>
        /\ scores.win = 1 <=> Victory(plateau, "O")
        /\ scores.lost = 1 <=> Victory(plateau, "X")
        /\ scores.draw = 1 <=> Full(plateau) /\ scores.win = 0 /\ scores.lost = 0
        /\ scores.win + scores.lost <= 1
        /\ scores.win + scores.lost + scores.draw = 0 => wasted > 0

\* The party ends, unless the input does: the program always has a free square to
\* draw, although wasted turns do not fill the board (game_morpion.c:207-209).
PartyEnds == <>(phase # "playing" \/ eof)
=============================================================================
