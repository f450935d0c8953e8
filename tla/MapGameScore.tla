---------------------------- MODULE MapGameScore ----------------------------
(***************************************************************************)
(* joueur/map_game_score.c and joueur/score_game.c: the scores of one      *)
(* player, kept as a list of (game name, score) pairs that is searched by  *)
(* name.  A map is the sequence of its pairs, first node first.            *)
(*                                                                         *)
(* The three counters of a score are unsigned ints: they are kept modulo   *)
(* CounterMod, 2^32 in the program.                                        *)
(***************************************************************************)
EXTENDS Naturals, Sequences

CONSTANTS GameNames,   \* the names a game can have
          CounterMod   \* number of values of an unsigned counter

ASSUME CounterAssumption == CounterMod \in Nat \ {0}

Counter == 0..(CounterMod - 1)

\* score_game_t
Score == [win: Counter, lost: Counter, draw: Counter]

\* score_game_create()
NoScore == [win |-> 0, lost |-> 0, draw |-> 0]

\* struct pair_game_score_t
Pair == [name: GameNames, score: Score]

\* A faulty variant: the sum of two counters as if they could not wrap.
PlusUnbounded(a, b) == a + b

\* Unsigned addition: (a + b) % CounterMod for two counters.
Plus(a, b) == IF a + b < CounterMod THEN a + b ELSE (a + b) - CounterMod

\* The positions of the pairs named n, and the one a search from the first
\* node returns.
Slots(map, n) == {i \in DOMAIN map : map[i].name = n}
Find(map, n) == CHOOSE i \in Slots(map, n) : \A j \in Slots(map, n) : i <= j

\* map_game_score_get_from_name(): the score, or zeros when the key is absent.
GetFromName(map, n) ==
    IF Slots(map, n) = {} THEN NoScore ELSE map[Find(map, n)].score

\* A faulty variant: push back without looking for the key.
InsertBlindly(map, n, s) == Append(map, [name |-> n, score |-> s])

\* map_game_score_insert(): replace the score of the first pair of that name,
\* or push a new pair at the back.
Insert(map, n, s) ==
    IF Slots(map, n) = {}
    THEN Append(map, [name |-> n, score |-> s])
    ELSE [map EXCEPT ![Find(map, n)].score = s]

\* No two pairs of the list have the same name: the list is a map.
KeysUnique(map) ==
    \A i, j \in DOMAIN map : map[i].name = map[j].name => i = j
=============================================================================
