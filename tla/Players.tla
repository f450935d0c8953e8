------------------------------ MODULE Players ------------------------------
(***************************************************************************)
(* joueur/list_joueur.c and joueur/vector_joueur.c over                    *)
(* joueur/adapter_ccontainer_joueur.c: lists and vectors of players, who   *)
(* are serialised into values and back, with a copy of the name and of the *)
(* map of scores each time.                                                *)
(*                                                                         *)
(* A player is a name and the games of his map.  Names, maps and the data  *)
(* of the values are counted where they are allocated and freed; what a    *)
(* map or a list allocates inside itself is CList's.  An allocation that   *)
(* fails is a fault; one that nothing looks at is undefined behaviour.     *)
(***************************************************************************)
EXTENDS Integers, Sequences, FiniteSets, Functions

CONSTANTS Names,       \* the names of the players
          GamesOf,     \* the games each of them has a score for
          Absent,      \* no list or vector was made
          NoHand,      \* the caller has no joueur
          MaxLen,      \* bounds of the model
          MaxFaults

Games == UNION Range(GamesOf)

Stored == [who: Names, games: SUBSET Games]

\* joueur_t: a valid one owns a name and a map, an invalid one a map.
Joueur == [valid: {TRUE}, who: Names, games: SUBSET Games]
          \cup [valid: {FALSE}]

ASSUME PlayersAssumption ==
    /\ DOMAIN GamesOf = Names /\ IsFiniteSet(Games)
    /\ Absent \notin Seq(Stored) /\ NoHand \notin Joueur
    /\ MaxLen \in Nat /\ MaxFaults \in Nat

VARIABLES list,        \* the values of list->clist
          len,         \* list->len
          vector,      \* the values of vector->cvect
          hand,        \* a joueur_t of the caller
          converting,  \* list_joueur_to_vector() is in its loop
          mem,         \* allocated names, maps and data
          faults,      \* allocations that failed            (history)
          fate,        \* "ok", "aborted", "undefined"
          debug        \* assertions are compiled in

vars == <<list, len, vector, hand, converting, mem, faults, fate, debug>>

Nobody == [valid |-> FALSE]
Player(s) == [valid |-> TRUE, who |-> s.who, games |-> s.games]

Mem(n, m, d) == [names |-> n, maps |-> m, data |-> d]
Plus(a, b) == Mem(a.names + b.names, a.maps + b.maps, a.data + b.data)
None == Mem(0, 0, 0)

\* What make_value_joueur() allocates for a player.
Value == Mem(1, 1, 1)

\* A faulty variant: the name is not freed.
DeletedButName == Mem(0, 1, 1)

\* What joueur_deleter_value() frees.
Deleted == Mem(1, 1, 1)
Times(k, a) == Mem(k * a.names, k * a.maps, k * a.data)

Init ==
    /\ list = Absent /\ len = 0 /\ vector = Absent /\ hand = NoHand
    /\ converting = FALSE
    /\ mem = None /\ faults = 0 /\ fate = "ok" /\ debug \in BOOLEAN

Calm == fate = "ok" /\ ~converting

Fault(n) == faults' = faults + n /\ faults' <= MaxFaults

Gain(m) == mem' = Plus(mem, m)
Lose(m) == mem' = Plus(mem, Times(-1, m))

Become(outcome) ==
    /\ fate' = outcome /\ Fault(1)
    /\ UNCHANGED <<list, len, vector, hand, converting, mem, debug>>

-----------------------------------------------------------------------------
(* Conversions: what a call may return, and what it allocates *)

\* A faulty variant: the copy shares nothing and holds nothing.
EmptyCopies(games) == {[ok |-> TRUE, games |-> {}, maps |-> 1, faults |-> 0]}

\* map_game_score_copy(): a copy; or, after a value or the list itself could not
\* be allocated, a new empty map, the part already copied being lost.  Without
\* assertions a node that could not be allocated is a game less.
Copies(games) ==
    {[ok |-> TRUE, games |-> games, maps |-> 1, faults |-> 0]} \cup
    [ok: {FALSE}, games: {{}}, maps: IF games = {} THEN {1} ELSE {1, 2}, faults: {1}] \cup
    {[ok |-> TRUE, games |-> g, maps |-> 1, faults |-> Cardinality(games \ g)] :
        g \in IF debug THEN {} ELSE SUBSET games \ {games}}

\* A copy of a map cannot be complete, which is asserted.
ShortCopy(games) == debug /\ games # {} /\ Become("aborted")

\* make_value_joueur(): a failure loses what was allocated before it.
Values(j) ==
    {[ok |-> c.ok, games |-> c.games, faults |-> c.faults,
      mem |-> IF c.ok THEN Value ELSE Mem(1, c.maps, 0)] : c \in Copies(j.games)} \cup
    {[ok |-> FALSE, games |-> {}, faults |-> 1, mem |-> None]}

\* The serialised player.
Serial(j, v) == [who |-> j.who, games |-> v.games]

-----------------------------------------------------------------------------
(* The joueur of the caller *)

\* joueur_init() and an insertion for each of his games; joueur_delete().
Make(n) ==
    /\ Calm /\ hand = NoHand
    /\ hand' = [valid |-> TRUE, who |-> n, games |-> GamesOf[n]] /\ Gain(Mem(1, 1, 0))
    /\ UNCHANGED <<list, len, vector, converting, faults, fate, debug>>

OwnedBy(j) == IF j = NoHand THEN None ELSE Mem(IF j.valid THEN 1 ELSE 0, 1, 0)

Release ==
    /\ Calm /\ hand # NoHand
    /\ hand' = NoHand /\ Lose(OwnedBy(hand))
    /\ UNCHANGED <<list, len, vector, converting, faults, fate, debug>>

-----------------------------------------------------------------------------
(* The list *)

\* list_joueur_new(), list_joueur_init(): the list is written before it is
\* looked at; without its clist it is NULL, which is written too.
NewList ==
    /\ Calm /\ list = Absent
    /\ \/ /\ list' = <<>> /\ len' = 0
          /\ UNCHANGED <<vector, hand, converting, mem, faults, fate, debug>>
       \/ Become("undefined")

\* list_joueur_free()
FreeList ==
    /\ Calm /\ list # Absent
    /\ list' = Absent /\ len' = 0 /\ Lose(Times(Len(list), Deleted))
    /\ UNCHANGED <<vector, hand, converting, faults, fate, debug>>

\* list_joueur_push_back(), of a valid joueur: a value that finds no node is lost.
PushBack ==
    /\ Calm /\ list # Absent /\ Len(list) < MaxLen /\ hand # NoHand /\ hand.valid
    /\ \/ ShortCopy(hand.games) \/ Become("undefined")
       \/ \E v \in Values(hand) :
            /\ Gain(v.mem)
            /\ \/ /\ v.ok /\ Fault(v.faults)
                  /\ list' = Append(list, Serial(hand, v)) /\ len' = len + 1
               \/ /\ Fault(IF v.ok THEN v.faults + 1 ELSE v.faults)
                  /\ UNCHANGED <<list, len>>
            /\ UNCHANGED <<vector, hand, converting, fate, debug>>

\* A faulty variant: the length is decreased before the error is looked at.
LenAfterPopAny == len - 1

LenAfterPop == IF list = <<>> THEN len ELSE len - 1

\* list_joueur_pop_front() of an empty list: an invalid joueur.
PopNothing ==
    /\ Calm /\ list = <<>> /\ hand = NoHand
    /\ \/ /\ hand' = Nobody /\ Gain(Mem(0, 1, 0)) /\ len' = LenAfterPop
          /\ UNCHANGED <<list, vector, converting, faults, fate, debug>>
       \/ Become("undefined")

\* The first player is taken out and extracted, and his value deleted.
PopFront ==
    /\ Calm /\ list \notin {Absent, <<>>} /\ hand = NoHand
    /\ \/ ShortCopy(Head(list).games) \/ Become("undefined")
       \/ \E c \in Copies(Head(list).games) :
            /\ c.ok /\ Fault(c.faults)
            /\ hand' = [valid |-> TRUE, who |-> Head(list).who, games |-> c.games]
            /\ list' = Tail(list) /\ len' = LenAfterPop
            /\ mem' = Plus(Plus(mem, Mem(1, c.maps, 0)), Times(-1, Deleted))
            /\ UNCHANGED <<vector, converting, fate, debug>>

\* The extraction fails: the joueur is made invalid over what it had, of the
\* value the data alone is freed, and the player is still counted.
PopFails(c) ==
    /\ ~c.ok /\ Fault(c.faults)
    /\ list' = Tail(list) /\ UNCHANGED len
    /\ Gain(Mem(1, c.maps + 1, -1))

PopFailed ==
    /\ Calm /\ list \notin {Absent, <<>>} /\ hand = NoHand
    /\ \E c \in Copies(Head(list).games) : PopFails(c)
    /\ hand' = Nobody
    /\ UNCHANGED <<vector, converting, fate, debug>>

-----------------------------------------------------------------------------
(* The vector *)

\* vector_joueur_new(), vector_joueur_init(): a vector that could not be made is
\* not to be used.
NewVector ==
    /\ Calm /\ vector = Absent
    /\ \/ /\ vector' = <<>>
          /\ UNCHANGED <<list, len, hand, converting, mem, faults, fate, debug>>
       \/ Become("undefined")

FreeVector ==
    /\ Calm /\ vector # Absent
    /\ vector' = Absent /\ Lose(Times(Len(vector), Deleted))
    /\ UNCHANGED <<list, len, hand, converting, faults, fate, debug>>

\* vector_joueur_push_back(): a value that finds no place is lost.
VectorPush ==
    /\ Calm /\ vector # Absent /\ Len(vector) < MaxLen /\ hand # NoHand /\ hand.valid
    /\ \/ ShortCopy(hand.games) \/ Become("undefined")
       \/ \E v \in Values(hand) :
            /\ Gain(v.mem)
            /\ \/ v.ok /\ Fault(v.faults) /\ vector' = Append(vector, Serial(hand, v))
               \/ Fault(IF v.ok THEN v.faults + 1 ELSE v.faults) /\ UNCHANGED vector
            /\ UNCHANGED <<list, len, hand, converting, fate, debug>>

\* vector_joueur_get_at(): the error of the extraction is not returned, and the
\* player then has an empty map.
GetAt(i) ==
    /\ Calm /\ vector # Absent /\ i \in DOMAIN vector /\ hand = NoHand
    /\ \/ ShortCopy(vector[i].games) \/ Become("undefined")
       \/ \E c \in Copies(vector[i].games) :
            /\ Fault(c.faults)
            /\ hand' = [valid |-> TRUE, who |-> vector[i].who, games |-> c.games]
            /\ Gain(Mem(1, c.maps, 0))
            /\ UNCHANGED <<list, len, vector, converting, fate, debug>>

\* An index out of range: an invalid joueur.
GetNothing ==
    /\ Calm /\ vector # Absent /\ hand = NoHand
    /\ \/ /\ hand' = Nobody /\ Gain(Mem(0, 1, 0))
          /\ UNCHANGED <<list, len, vector, converting, faults, fate, debug>>
       \/ Become("undefined")

-----------------------------------------------------------------------------
(* From a list to a vector *)

\* list_joueur_to_vector(): nothing is returned for an empty list.
StartConversion ==
    /\ Calm /\ list # Absent /\ len > 0 /\ vector = Absent
    /\ \/ /\ converting' = TRUE /\ vector' = <<>>
          /\ UNCHANGED <<list, len, hand, mem, faults, fate, debug>>
       \/ Become("undefined")

\* A player is popped, pushed, and deleted; a push that fails is asserted, or
\* not seen.
ConvertOne ==
    /\ fate = "ok" /\ converting /\ list # <<>>
    /\ \/ ShortCopy(Head(list).games) \/ Become("undefined")
       \/ \E c \in Copies(Head(list).games) :
          LET j == [who |-> Head(list).who, games |-> c.games] IN
            /\ c.ok
            /\ \E v \in Values(j) :
                /\ Fault(c.faults + v.faults)
                /\ IF v.ok THEN vector' = Append(vector, Serial(j, v)) /\ UNCHANGED fate
                   ELSE UNCHANGED vector /\ fate' = IF debug THEN "aborted" ELSE "ok"
                /\ mem' = Plus(Plus(mem, v.mem), Times(-1, Deleted))
            /\ list' = Tail(list) /\ len' = len - 1
            /\ UNCHANGED <<hand, converting, debug>>

\* The first pop that returns nobody ends the loop, and the rest of the list
\* stays; when it is the very first one, it is asserted not to be.
EndConversion ==
    /\ fate = "ok" /\ converting
    /\ \/ list = <<>> /\ UNCHANGED <<list, len, mem, faults>>
       \/ /\ list # <<>>
          /\ \E c \in Copies(Head(list).games) :
                /\ ~c.ok /\ Fault(c.faults)
                /\ list' = Tail(list) /\ UNCHANGED len
                /\ Gain(Mem(1, c.maps, -1))
    /\ converting' = FALSE
    /\ fate' = IF debug /\ vector = <<>> THEN "aborted" ELSE "ok"
    /\ UNCHANGED <<vector, hand, debug>>

\* list_joueur_to_vector_generic_impl(): the values are moved; the vector of an
\* empty list is NULL, and written to.
MoveAll ==
    /\ Calm /\ list # Absent /\ vector = Absent
    /\ IF list = <<>>
       THEN /\ fate' = "undefined"
            /\ UNCHANGED <<list, len, vector, hand, converting, mem, faults, debug>>
       ELSE \/ /\ vector' = list /\ list' = <<>> /\ len' = 0
               /\ UNCHANGED <<hand, converting, mem, faults, fate, debug>>
            \/ Become("undefined")

-----------------------------------------------------------------------------
Convert == ConvertOne \/ EndConversion

Next ==
    \/ \E n \in Names : Make(n)
    \/ Release
    \/ NewList \/ FreeList \/ PushBack \/ PopNothing \/ PopFront \/ PopFailed
    \/ NewVector \/ FreeVector \/ VectorPush \/ GetNothing
    \/ \E i \in 1..MaxLen : GetAt(i)
    \/ StartConversion \/ Convert \/ MoveAll

Spec == Init /\ [][Next]_vars
-----------------------------------------------------------------------------
(* Properties *)

\* Every variable has its type; a list is never longer than it says.
TypeOK ==
    /\ list \in Seq(Stored) \cup {Absent} /\ len \in Nat
    /\ list # Absent => Len(list) <= len
    /\ vector \in Seq(Stored) \cup {Absent}
    /\ hand \in Joueur \cup {NoHand} /\ converting \in BOOLEAN
    /\ mem \in [names: Nat, maps: Nat, data: Nat] /\ faults \in 0..MaxFaults
    /\ fate \in {"ok", "aborted", "undefined"} /\ debug \in BOOLEAN

NbValues == (IF list = Absent THEN 0 ELSE Len(list)) + (IF vector = Absent THEN 0 ELSE Len(vector))

Owned == Plus(Times(NbValues, Value), OwnedBy(hand))

\* What the list, the vector and the caller own is allocated; as long as no
\* allocation failed nothing else is, and each one that fails loses two names,
\* three maps and the data of one value at most
\* (adapter_ccontainer_joueur.c:24-131, list_joueur.c:37-88).
HeapBalance ==
    fate = "ok" =>
        /\ mem.names - Owned.names \in 0..(2 * faults)
        /\ mem.maps - Owned.maps \in 0..(3 * faults)
        /\ mem.data - Owned.data \in 0..faults

-----------------------------------------------------------------------------
(* The list as a queue of players *)

Promise == INSTANCE PlayersSpec WITH
    queue  <- IF converting THEN vector \o list ELSE list,
    size   <- IF converting THEN len + Len(vector) ELSE len,
    vec    <- IF converting THEN Absent ELSE vector,
    intact <- faults = 0,
    stopped <- fate # "ok"

\* As long as no allocation fails, the list is a queue of whole players that
\* knows its length, and a conversion gives all of them in order; after that,
\* players may be lost or lose games, but nobody is invented, doubled or moved.
ImplementsPlayers == Promise!Spec
=============================================================================
