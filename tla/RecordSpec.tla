----------------------------- MODULE RecordSpec -----------------------------
(***************************************************************************)
(* What the record of the players promises (record/irecord.h): asked for a *)
(* name, it answers with the player its storage has under that name, under *)
(* an id no other answer had, or with an invalid player; and it holds its  *)
(* storage open only while it looks for the answer.                        *)
(***************************************************************************)
EXTENDS Naturals

CONSTANTS Names, Contents,
          Nobody,       \* an invalid player
          Pending,      \* no answer yet
          Fits(_, _, _),    \* a reply is what a content has under a name
          IsTotal(_, _)     \* a number of players is that of a content

VARIABLES content, status, asked, reply, lastId, total, open

Init ==
    /\ content \in Contents
    /\ status = "closed" /\ asked \in Names /\ reply = Pending
    /\ lastId = 0 /\ total = 0 /\ open = FALSE

Start ==
    /\ status = "closed" /\ status' \in {"idle", "halted"}
    /\ UNCHANGED <<content, asked, reply, lastId, total, open>>

Ask(n) ==
    /\ status = "idle" /\ status' = "busy"
    /\ asked' = n /\ reply' = Pending /\ open' = TRUE
    /\ UNCHANGED <<content, lastId, total>>

\* The storage cannot be read: nobody is found.
Unavailable(n) ==
    /\ status = "idle"
    /\ asked' = n /\ reply' = Nobody
    /\ UNCHANGED <<content, status, lastId, total, open>>

Answer(r) ==
    /\ status = "busy" /\ status' = "idle"
    /\ Fits(content, asked, r)
    /\ reply' = r /\ open' = FALSE
    /\ IF r.valid THEN r.id > lastId /\ lastId' = r.id ELSE UNCHANGED lastId
    /\ UNCHANGED <<content, asked, total>>

Count ==
    /\ status = "idle" /\ status' = "counting" /\ open' = TRUE
    /\ reply' = Pending /\ total' = 0
    /\ UNCHANGED <<content, asked, lastId>>

Counted ==
    /\ status = "counting" /\ status' = "idle" /\ open' = FALSE
    /\ IsTotal(content, total')
    /\ UNCHANGED <<content, asked, reply, lastId>>

Stop ==
    /\ status = "idle" /\ status' = "closed" /\ reply' = Pending
    /\ UNCHANGED <<content, asked, lastId, total, open>>

\* An assertion fails, or storage that is not there is read.
Halt ==
    /\ status \in {"idle", "busy"} /\ status' = "halted" /\ reply' = Pending
    /\ total' \in {0, total} /\ open' \in BOOLEAN
    /\ UNCHANGED <<content, asked, lastId>>

Next ==
    \/ Start \/ Count \/ Counted \/ Stop \/ Halt
    \/ \E n \in Names : Ask(n) \/ Unavailable(n)
    \/ status = "busy" /\ Answer(reply')

Spec == Init /\ [][Next]_<<content, status, asked, reply, lastId, total, open>>
=============================================================================
