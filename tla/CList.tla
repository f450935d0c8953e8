------------------------------- MODULE CList -------------------------------
(***************************************************************************)
(* ccontainer/clist_generic.c: a doubly linked list whose nodes are        *)
(* allocated and freed one by one.  The heap is explicit: malloc may fail  *)
(* or return any free address, one a stale pointer still holds included,   *)
(* and a call that reads or writes a freed node is undefined behaviour.    *)
(*                                                                         *)
(* A list is a handle whose first_node is an address or Null.  A behaviour *)
(* uses one set of operations of the API: what is safe depends on which    *)
(* operations are used together.                                           *)
(***************************************************************************)
EXTENDS Naturals, Sequences, FiniteSets, Functions

CONSTANTS Addrs,          \* addresses of the nodes
          Null,           \* the NULL pointer
          Handles,
          Vals,           \* values, of a key and a datum
          Absent, NoVal,
          Profiles,       \* the sets of operations a behaviour may use
          Debug           \* assertions are compiled in (NDEBUG undefined)

ASSUME ListAssumption ==
    /\ Null \notin Addrs /\ Absent \notin Addrs \cup {Null}
    /\ Absent \notin Seq(Vals)
    /\ \A v \in Vals : DOMAIN v = {"key", "data"}
    /\ IsFiniteSet(Addrs) /\ Debug \in BOOLEAN

\* Nothing but remove_node reads prev_node, which push_front and pop_front leave
\* wrong: the callers do not use them on the same lists.
ASSUME ProfileAssumption ==
    \A ops \in Profiles :
        "remove" \in ops => ops \cap {"push_front", "pop_front"} = {}

VARIABLES node,       \* the allocated nodes
          first,      \* first_node of each list
          reply,      \* what the last call returned
          used,       \* the operations this behaviour uses
          undefined,  \* a call touched memory that is not allocated
          aborted     \* an assertion failed

vars == <<node, first, reply, used, undefined, aborted>>

Keys == {v.key : v \in Vals}
Ptr == Addrs \cup {Null}
Node == [val: Vals, prev: Ptr, next: Ptr]     \* struct clist_node_type

Live == DOMAIN node

\* A faulty variant: a NULL from malloc is taken for a node.
FreshOrNull == Ptr \ Live

\* What malloc may return when it succeeds.
Fresh == Addrs \ Live

Answer(op, err, val) == [op |-> op, err |-> err, val |-> val]

Init ==
    /\ node = <<>>
    /\ first = [h \in Handles |-> Absent]
    /\ reply = Answer("none", "OK", NoVal)
    /\ used \in Profiles
    /\ undefined = FALSE /\ aborted = FALSE

-----------------------------------------------------------------------------
(* Walking *)

\* The pointer found after k steps along next_node; a walk stops at NULL, and
\* cannot leave an address that is not allocated.
Walk(heap, a) ==
    LET Step(p) == IF p \in DOMAIN heap THEN heap[p].next ELSE p
        at[k \in 0..Cardinality(Addrs)] == IF k = 0 THEN a ELSE Step(at[k - 1])
    IN  at

\* The allocated nodes met from a, in order.
Chain(heap, a) ==
    LET at == Walk(heap, a)
        n  == Cardinality({k \in DOMAIN at : at[k] \in DOMAIN heap})
    IN  [i \in 1..n |-> at[i - 1]]

List(h) == Chain(node, first[h])

\* get_last_node()
LastNode(h) == IF first[h] = Null THEN Null ELSE List(h)[Len(List(h))]

\* The positions whose value matches k, and the one a search stops at.
Matches(h, k) == {i \in DOMAIN List(h) : node[List(h)[i]].val.key = k}

\* A faulty variant: the search goes on and keeps the last match.
MatchLast(h, k) == CHOOSE i \in Matches(h, k) : \A j \in Matches(h, k) : j <= i

Match(h, k) == CHOOSE i \in Matches(h, k) : \A j \in Matches(h, k) : i <= j

\* The pointers a whole walk dereferences, and those a search dereferences.
Walked(h) == Range(Walk(node, first[h])) \ {Null}
Searched(h, k) ==
    IF Matches(h, k) = {} THEN Walked(h)
    ELSE {List(h)[i] : i \in 1..Match(h, k)}

Touch(pointers) == undefined' = (undefined \/ ~(pointers \subseteq Live))

\* The call is one this behaviour makes, on a list that exists.
Call(op, h) ==
    op \in used /\ first[h] # Absent /\ ~undefined /\ ~aborted

\* The call gives back an error code and leaves the lists alone.
Fail(op, err) == reply' = Answer(op, err, NoVal) /\ UNCHANGED <<node, first>>

Allocate(a, n) == [x \in Live \cup {a} |-> IF x = a THEN n ELSE node[x]]

Linked(heap, a, field, to) ==
    IF a = Null THEN heap
    ELSE [heap EXCEPT ![a] = IF field = "next" THEN [@ EXCEPT !.next = to]
                                               ELSE [@ EXCEPT !.prev = to]]

-----------------------------------------------------------------------------
(* Operations *)

\* clist_gen_new() and clist_gen_init()
New(h) ==
    /\ first[h] = Absent /\ ~undefined /\ ~aborted
    /\ \/ first' = [first EXCEPT ![h] = Null] /\ reply' = Answer("new", "OK", NoVal)
       \/ first' = first /\ reply' = Answer("new", "ALLOCERR", NoVal)
    /\ UNCHANGED <<node, used, undefined, aborted>>

\* clist_gen_free(): every node reached from the first one, then the list.
Free(h) ==
    /\ Call("free", h)
    /\ node' = Restrict(node, Live \ Range(List(h)))
    /\ first' = [first EXCEPT ![h] = Absent]
    /\ reply' = Answer("free", "OK", NoVal)
    /\ Touch(Walked(h))
    /\ UNCHANGED <<used, aborted>>

\* A faulty variant: prev_node of the new node is left NULL.
PushBackUnlinked(h, v) ==
    /\ Call("push_back", h)
    /\ \/ \E a \in Fresh :
            /\ node' = Linked(Allocate(a, [val |-> v, prev |-> Null, next |-> Null]),
                              LastNode(h), "next", a)
            /\ first' = IF first[h] = Null THEN [first EXCEPT ![h] = a] ELSE first
            /\ reply' = Answer("push_back", "OK", NoVal)
       \/ Fail("push_back", "ALLOCERR")
    /\ Touch(Walked(h))
    /\ UNCHANGED <<used, aborted>>

\* clist_gen_push_back()
PushBack(h, v) ==
    /\ Call("push_back", h)
    /\ \/ \E a \in Fresh :
            /\ node' = Linked(Allocate(a, [val |-> v, prev |-> LastNode(h), next |-> Null]),
                              LastNode(h), "next", a)
            /\ first' = IF first[h] = Null THEN [first EXCEPT ![h] = a] ELSE first
            /\ reply' = Answer("push_back", "OK", NoVal)
       \/ Fail("push_back", "ALLOCERR")
    /\ Touch(Walked(h))
    /\ UNCHANGED <<used, aborted>>

\* clist_gen_push_front(): prev_node of the old first node stays NULL.
PushFront(h, v) ==
    /\ Call("push_front", h)
    /\ \/ \E a \in Fresh :
            /\ node' = Allocate(a, [val |-> v, prev |-> Null, next |-> first[h]])
            /\ first' = [first EXCEPT ![h] = a]
            /\ reply' = Answer("push_front", "OK", NoVal)
       \/ Fail("push_front", "ALLOCERR")
    /\ UNCHANGED <<used, undefined, aborted>>

\* A faulty variant: the node is unlinked and not freed.
PopFrontKept(h) ==
    /\ Call("pop_front", h)
    /\ IF first[h] = Null
       THEN Fail("pop_front", "EMPTY") /\ UNCHANGED undefined
       ELSE /\ first' = [first EXCEPT ![h] = node[first[h]].next]
            /\ reply' = Answer("pop_front", "OK", node[first[h]].val)
            /\ Touch({first[h]})
            /\ UNCHANGED node
    /\ UNCHANGED <<used, aborted>>

\* clist_gen_pop_front(): prev_node of the new first node keeps pointing at
\* the node just freed.
PopFront(h) ==
    /\ Call("pop_front", h)
    /\ IF first[h] = Null
       THEN Fail("pop_front", "EMPTY") /\ UNCHANGED undefined
       ELSE /\ first' = [first EXCEPT ![h] = node[first[h]].next]
            /\ reply' = Answer("pop_front", "OK", node[first[h]].val)
            /\ node' = Restrict(node, Live \ {first[h]})
            /\ Touch({first[h]})
    /\ UNCHANGED <<used, aborted>>

Missing(op, h) ==
    Answer(op, IF first[h] = Null THEN "EMPTY" ELSE "NOT_FOUND", NoVal)

\* clist_gen_find()
Find(h, k) ==
    /\ Call("find", h)
    /\ reply' = IF Matches(h, k) = {} THEN Missing("find", h)
                ELSE Answer("find", "OK", node[List(h)[Match(h, k)]].val)
    /\ Touch(Searched(h, k))
    /\ UNCHANGED <<node, first, used, aborted>>

\* clist_gen_find_node(), then a new content for the value of the node, the
\* way map_game_score_insert() replaces a score.
Replace(h, v) ==
    /\ Call("find", h)
    /\ IF Matches(h, v.key) = {}
       THEN reply' = Missing("replace", h) /\ UNCHANGED node
       ELSE /\ node' = [node EXCEPT ![List(h)[Match(h, v.key)]].val = v]
            /\ reply' = Answer("replace", "OK", NoVal)
    /\ Touch(Searched(h, v.key))
    /\ UNCHANGED <<first, used, aborted>>

\* A faulty variant: prev_node of the node after is not relinked.
RemoveHalf(h, k) ==
    /\ Call("remove", h)
    /\ IF Matches(h, k) = {}
       THEN Fail("remove", "NOT_FOUND") /\ Touch(Searched(h, k))
       ELSE LET a == List(h)[Match(h, k)]
                before == node[a].prev
                after == node[a].next
            IN  /\ Touch(Searched(h, k) \cup ({before, after} \ {Null}))
                /\ node' = Restrict(Linked(node, before, "next", after), Live \ {a})
                /\ first' = IF before = Null THEN [first EXCEPT ![h] = after] ELSE first
                /\ reply' = Answer("remove", "OK", NoVal)
    /\ UNCHANGED <<used, aborted>>

\* clist_gen_find_node() and clist_gen_remove_node() of what it found.
Remove(h, k) ==
    /\ Call("remove", h)
    /\ IF Matches(h, k) = {}
       THEN Fail("remove", "NOT_FOUND") /\ Touch(Searched(h, k))
       ELSE LET a == List(h)[Match(h, k)]
                before == node[a].prev
                after == node[a].next
            IN  /\ Touch(Searched(h, k) \cup ({before, after} \ {Null}))
                /\ node' = Restrict(Linked(Linked(node, before, "next", after),
                                           after, "prev", before),
                                    Live \ {a})
                /\ first' = IF before = Null THEN [first EXCEPT ![h] = after] ELSE first
                /\ reply' = Answer("remove", "OK", NoVal)
    /\ UNCHANGED <<used, aborted>>

\* The addresses n calls of malloc may return, in order.
Allocations(n) ==
    {s \in [1..n -> Fresh] : \A i, j \in 1..n : s[i] = s[j] => i = j}

\* The heap with a new list of these values at these addresses.
Built(values, at) ==
    LET n == Len(values)
        PtrAt(i) == IF i \in 1..n THEN at[i] ELSE Null
    IN  [x \in Live \cup Range(at) |->
            IF x \in Live THEN node[x]
            ELSE LET i == CHOOSE j \in 1..n : at[j] = x
                 IN  [val |-> values[i], prev |-> PtrAt(i - 1), next |-> PtrAt(i + 1)]]

\* The values of a list at a set of positions, in order.
ValuesAt(h, positions) ==
    LET kth(k) == CHOOSE i \in positions :
                    Cardinality({j \in positions : j < i}) = k - 1
    IN  [k \in 1..Cardinality(positions) |-> node[List(h)[kth(k)]].val]

\* clist_gen_copy(): the first n values are duplicated, then the duplicater
\* fails or the list ends.  An error of push_back is ignored: kept are the
\* values whose node could be allocated, and only an assertion compares the
\* two sizes at the end.
Copy(h, g) ==
    LET all == Len(List(h)) IN
    /\ Call("copy", h) /\ first[g] = Absent
    /\ Touch(Walked(h))
    /\ \/ Fail("copy", "ALLOCERR") /\ UNCHANGED aborted
       \/ \E n \in 0..all : \E kept \in SUBSET (1..n) :
            IF Debug /\ n = all /\ kept # 1..n
            THEN aborted' = TRUE /\ UNCHANGED <<node, first, reply>>
            ELSE \E at \in Allocations(Cardinality(kept)) :
                    /\ node' = Built(ValuesAt(h, kept), at)
                    /\ first' = [first EXCEPT ![g] = IF kept = {} THEN Null ELSE at[1]]
                    /\ reply' = Answer("copy", IF n < all THEN "ALLOCERR"
                                       ELSE IF all = 0 THEN "EMPTY" ELSE "OK", NoVal)
                    /\ UNCHANGED aborted
    /\ UNCHANGED used

Next ==
    \E h \in Handles :
        \/ New(h) \/ Free(h) \/ PopFront(h)
        \/ \E v \in Vals : PushBack(h, v) \/ PushFront(h, v) \/ Replace(h, v)
        \/ \E k \in Keys : Find(h, k) \/ Remove(h, k)
        \/ \E g \in Handles : Copy(h, g)

Spec == Init /\ [][Next]_vars

-----------------------------------------------------------------------------
(* Properties *)

AllCalls == {"none", "new", "replace"} \cup UNION Profiles

\* Every variable has its type.
TypeOK ==
    /\ Live \subseteq Addrs /\ node \in [Live -> Node]
    /\ first \in [Handles -> Ptr \cup {Absent}]
    /\ reply \in [op: AllCalls, err: {"OK", "EMPTY", "NOT_FOUND", "ALLOCERR"},
                  val: Vals \cup {NoVal}]
    /\ used \in Profiles /\ undefined \in BOOLEAN /\ aborted \in BOOLEAN

\* No call dereferences a freed node, although pop_front leaves one behind in
\* prev_node and malloc gives its address out again (clist_generic.c:206-211):
\* nothing but remove_node reads prev_node (clist_generic.c:337-348).
MemorySafe == ~undefined

Exist == {h \in Handles : first[h] # Absent}

\* Every allocated node is on one list, which ends with NULL: no call loses a
\* node, links one twice or makes two lists share one.
NoNodeLost ==
    /\ \A h \in Exist : Walk(node, first[h])[Cardinality(Addrs)] = Null
    /\ \A h, g \in Exist : h # g => Range(List(h)) \cap Range(List(g)) = {}
    /\ Live = UNION {Range(List(h)) : h \in Exist}

\* Where nodes are removed, every prev_node is the node before, or NULL in the
\* first one, whatever was pushed, copied and removed: it is what remove_node
\* takes to tell the first node from the others (clist_generic.c:340-344).
BackLinks ==
    "remove" \in used =>
        \A h \in Exist : \A i \in DOMAIN List(h) :
            node[List(h)[i]].prev = IF i = 1 THEN Null ELSE List(h)[i - 1]

\* The list of values a chain of nodes stands for.
Contents(h) ==
    LET nodes == List(h)
    IN  IF first[h] = Absent THEN Absent
        ELSE [i \in DOMAIN nodes |-> node[nodes[i]].val]

Promise == INSTANCE ListSpec WITH lists <- [h \in Handles |-> Contents(h)]

\* Seen through its values the list is a sequence: no call reorders, drops or
\* duplicates a value, and none changes another list.
ImplementsList == Promise!Spec
=============================================================================
