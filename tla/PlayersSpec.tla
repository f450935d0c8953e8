---------------------------- MODULE PlayersSpec ----------------------------
(***************************************************************************)
(* What a list and a vector of players promise: the list is a queue, the   *)
(* vector what was pushed on it, and players go in and out as copies.      *)
(* When the memory is exhausted a copy may lack games, and a player may be *)
(* lost; those who remain are those who were there, in the same order.     *)
(***************************************************************************)
EXTENDS Naturals, Sequences

CONSTANTS Names, GamesOf, Absent, NoHand

VARIABLES queue, size,   \* the list, and the length it tells
          vec,           \* the vector
          hand,          \* the joueur of the caller
          intact,        \* no allocation has failed
          stopped        \* the program ended, or its behaviour is undefined

vars == <<queue, size, vec, hand, intact, stopped>>

Init ==
    /\ queue = Absent /\ size = 0 /\ vec = Absent /\ hand = NoHand
    /\ intact = TRUE /\ stopped = FALSE

\* A copy of s: the same player, with all of his games while nothing failed.
Copy(s, c) == c.who = s.who /\ c.games \subseteq s.games /\ (intact' => c.games = s.games)

Holds(j, s) == j # NoHand /\ j.valid /\ Copy(s, j)
Invalid == [valid |-> FALSE]
Free == hand = NoHand

\* t is what is left of s.
Remains(s, t) ==
    \E at \in [1..Len(t) -> 1..Len(s)] :
        /\ \A i, j \in 1..Len(t) : i < j => at[i] < at[j]
        /\ \A i \in 1..Len(t) : Copy(s[at[i]], t[i])
        /\ intact' => Len(t) = Len(s)

Make(n) ==
    /\ Free /\ hand' = [valid |-> TRUE, who |-> n, games |-> GamesOf[n]]
    /\ UNCHANGED <<queue, size, vec>>

Release == ~Free /\ hand' = NoHand /\ UNCHANGED <<queue, size, vec>>

NewQueue == queue = Absent /\ queue' = <<>> /\ size' = 0 /\ UNCHANGED <<vec, hand>>
FreeQueue == queue # Absent /\ queue' = Absent /\ size' = 0 /\ UNCHANGED <<vec, hand>>
NewVector == vec = Absent /\ vec' = <<>> /\ UNCHANGED <<queue, size, hand>>
FreeVector == vec # Absent /\ vec' = Absent /\ UNCHANGED <<queue, size, hand>>

Pushed(s, t) ==
    /\ Absent \notin {s, t} /\ Len(t) = Len(s) + 1
    /\ t = Append(s, t[Len(t)]) /\ Copy(hand, t[Len(t)])

Push ==
    /\ ~Free /\ hand.valid
    /\ \/ Pushed(queue, queue') /\ size' = size + 1 /\ UNCHANGED vec
       \/ Pushed(vec, vec') /\ UNCHANGED <<queue, size>>
    /\ UNCHANGED hand

Pop ==
    /\ Free /\ queue \notin {Absent, <<>>}
    /\ queue' = Tail(queue) /\ UNCHANGED vec
    /\ \/ Holds(hand', Head(queue)) /\ size' = size - 1
       \/ ~intact' /\ hand' = Invalid /\ UNCHANGED size

Get(i) ==
    /\ Free /\ vec # Absent /\ i \in DOMAIN vec /\ Holds(hand', vec[i])
    /\ UNCHANGED <<queue, size, vec>>

\* There is nobody to return.
Nobody == Free /\ hand' = Invalid /\ UNCHANGED <<queue, size, vec>>

\* The first n players of the queue become the vector.
Convert(n) ==
    /\ vec = Absent /\ vec' # Absent /\ Remains(SubSeq(queue, 1, n), vec')
    /\ queue' = SubSeq(queue, n + 1, Len(queue))
    /\ intact' => n = Len(queue) /\ size' = size - n
    /\ size' <= size /\ UNCHANGED hand

\* A call fails; while it goes on players may be lost.
Failed ==
    /\ ~intact'
    /\ UNCHANGED <<vec, hand>>
    /\ \/ UNCHANGED <<queue, size>>
       \/ Absent \notin {queue, queue'} /\ Len(queue') <= Len(queue) /\ Remains(queue, queue') /\ size' <= size

Call ==
    \/ \E n \in Names : Make(n)
    \/ Release \/ NewQueue \/ FreeQueue \/ NewVector \/ FreeVector
    \/ Push \/ Pop \/ Nobody \/ Failed
    \/ vec # Absent /\ \E i \in DOMAIN vec : Get(i)
    \/ queue # Absent /\ \E n \in 0..Len(queue) : Convert(n)

\* Memory is exhausted, or an empty queue is converted.
Halt == stopped' /\ (intact' => queue = <<>>)

Next ==
    /\ ~stopped
    /\ intact' => intact
    /\ Halt \/ (~stopped' /\ Call)

Spec == Init /\ [][Next]_vars
=============================================================================
