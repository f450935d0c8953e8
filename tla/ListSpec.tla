------------------------------ MODULE ListSpec ------------------------------
(***************************************************************************)
(* What a list of ccontainer promises: each handle is absent or stands for *)
(* a sequence of values, and a call that fails to allocate changes         *)
(* nothing, except that a copy may lose values and says so.                *)
(***************************************************************************)
EXTENDS Naturals, Sequences, FiniteSets

CONSTANTS Handles, Vals, Absent, NoVal

VARIABLES lists,  \* the sequence of each handle
          reply   \* the last call and what it returned

Keys == {v.key : v \in Vals}

Answer(op, err, val) == [op |-> op, err |-> err, val |-> val]

Init ==
    /\ lists = [h \in Handles |-> Absent]
    /\ reply = Answer("none", "OK", NoVal)

Exists(h) == lists[h] # Absent

\* The call succeeds and makes g the sequence s; it fails and changes nothing.
Succeed(op, g, s) ==
    /\ reply' = Answer(op, "OK", NoVal)
    /\ lists' = [lists EXCEPT ![g] = s]

Fail(op, err) == reply' = Answer(op, err, NoVal) /\ UNCHANGED lists

New(h) ==
    /\ Succeed("new", h, <<>>) \/ Fail("new", "ALLOCERR")
    /\ ~Exists(h)

\* The other calls are made on a list that exists.

Free(h) == Succeed("free", h, Absent)

PushBack(h, v) ==
    \/ Succeed("push_back", h, Append(lists[h], v))
    \/ Fail("push_back", "ALLOCERR")

PushFront(h, v) ==
    \/ Succeed("push_front", h, <<v>> \o lists[h])
    \/ Fail("push_front", "ALLOCERR")

PopFront(h) ==
    \/ Fail("pop_front", "EMPTY") /\ lists[h] = <<>>
    \/ /\ lists[h] # <<>>
       /\ reply' = Answer("pop_front", "OK", Head(lists[h]))
       /\ lists' = [lists EXCEPT ![h] = Tail(@)]

\* The places of a key, and the first of them.
Places(s, k) == {i \in DOMAIN s : s[i].key = k}
Place(s, k) == CHOOSE i \in Places(s, k) : \A j \in Places(s, k) : i <= j

NotThere(op, h, k) ==
    \/ Fail(op, "EMPTY") /\ lists[h] = <<>>
    \/ Fail(op, "NOT_FOUND") /\ lists[h] # <<>> /\ Places(lists[h], k) = {}

Find(h, k) ==
    \/ NotThere("find", h, k)
    \/ /\ Places(lists[h], k) # {}
       /\ reply' = Answer("find", "OK", lists[h][Place(lists[h], k)])
       /\ UNCHANGED lists

Replace(h, v) ==
    \/ NotThere("replace", h, v.key)
    \/ /\ Places(lists[h], v.key) # {}
       /\ Succeed("replace", h, [lists[h] EXCEPT ![Place(lists[h], v.key)] = v])

Without(s, i) == SubSeq(s, 1, i - 1) \o SubSeq(s, i + 1, Len(s))

Remove(h, k) ==
    \/ Fail("remove", "NOT_FOUND") /\ Places(lists[h], k) = {}
    \/ /\ Places(lists[h], k) # {}
       /\ Succeed("remove", h, Without(lists[h], Place(lists[h], k)))

\* The values of s at a set of positions, in order.
Selected(s, positions) ==
    LET kth(k) == CHOOSE i \in positions :
                    Cardinality({j \in positions : j < i}) = k - 1
    IN  [k \in 1..Cardinality(positions) |-> s[kth(k)]]

\* A copy that answers OK is the same sequence; one that could not allocate
\* may have lost values, and keeps the others in their order.
Copy(h, g) ==
    /\ ~Exists(g)
    /\ \/ Fail("copy", "ALLOCERR")
       \/ Succeed("copy", g, lists[h]) /\ lists[h] # <<>>
       \/ /\ reply' = Answer("copy", "EMPTY", NoVal) /\ lists[h] = <<>>
          /\ lists' = [lists EXCEPT ![g] = <<>>]
       \/ \E kept \in SUBSET DOMAIN lists[h] :
            /\ reply' = Answer("copy", "ALLOCERR", NoVal)
            /\ lists' = [lists EXCEPT ![g] = Selected(lists[h], kept)]

Next ==
    \E h \in Handles :
        \/ New(h)
        \/ /\ Exists(h)
           /\ \/ Free(h) \/ PopFront(h)
              \/ \E k \in Keys : Find(h, k) \/ Remove(h, k)
              \/ \E v \in Vals : PushBack(h, v) \/ PushFront(h, v) \/ Replace(h, v)
              \/ \E g \in Handles : Copy(h, g)

Spec == Init /\ [][Next]_<<lists, reply>>
=============================================================================
