----------------------------- MODULE ScoreLedger -----------------------------
(***************************************************************************)
(* What the arcade promises about a player's victories and defeats: a      *)
(* ledger is opened once, for one player; from then on each finished game  *)
(* adds its result to the line of that game and to no other; nothing else  *)
(* ever changes a line.                                                    *)
(***************************************************************************)
EXTENDS MapGameScore

CONSTANTS Results,    \* what one game can add to a line: [win, lost]
          Openings    \* the ledgers a session can start with

VARIABLES status, ledger

Line == [win: Counter, lost: Counter]

Blank == [g \in GameNames |-> [win |-> 0, lost |-> 0]]

Init == status = "none" /\ ledger = Blank

Open(l) ==
    /\ status = "none"
    /\ status' = "open"
    /\ ledger' = l

Credit(g, r) ==
    /\ status = "open"
    /\ ledger' = [ledger EXCEPT ![g] = [win  |-> Plus(@.win, r.win),
                                        lost |-> Plus(@.lost, r.lost)]]
    /\ UNCHANGED status

Close ==
    /\ status = "open"
    /\ status' = "closed"
    /\ ledger' = Blank

Next ==
    \/ \E l \in Openings : Open(l)
    \/ \E g \in GameNames, r \in Results : Credit(g, r)
    \/ Close

Spec == Init /\ [][Next]_<<status, ledger>>
=============================================================================
