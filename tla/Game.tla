-------------------------------- MODULE Game --------------------------------
(***************************************************************************)
(* What the arcade expects of a game's start function: it plays one party  *)
(* or more and returns a score in which every party is counted once, as a  *)
(* victory, a defeat or a draw.                                            *)
(***************************************************************************)
EXTENDS Naturals

VARIABLES status,  \* "playing" a party, "between" two parties, "returned"
          tally    \* the score_game_t so far

Init == status = "playing" /\ tally = [win |-> 0, lost |-> 0, draw |-> 0]

\* A party ends; the game may return at once.
EndParty ==
    /\ status = "playing"
    /\ \E r \in {"win", "lost", "draw"} : tally' = [tally EXCEPT ![r] = @ + 1]
    /\ status' \in {"between", "returned"}

PlayAgain == status = "between" /\ status' = "playing" /\ UNCHANGED tally

Return == status = "between" /\ status' = "returned" /\ UNCHANGED tally

Next == EndParty \/ PlayAgain \/ Return

Spec == Init /\ [][Next]_<<status, tally>>
=============================================================================
