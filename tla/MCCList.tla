------------------------------ MODULE MCCList ------------------------------
(***************************************************************************)
(* Two lists over a few addresses.  Nothing but remove_node reads          *)
(* prev_node: one profile leaves it out, the other has it without the two  *)
(* operations that break prev_node.                                        *)
(***************************************************************************)
EXTENDS CList, TLC

MCProfiles ==
    { {"push_back", "push_front", "pop_front", "find", "copy", "free"},
      {"push_back", "remove", "copy", "free"} }

\* Two values with the same key, and one with another.
V(k, d) == [key |-> k, data |-> d]
MCVals == {V("k1", "d1"), V("k1", "d2"), V("k2", "d1")}

\* No operation reads the last reply: states that differ in it are the same.
ButReply == <<node, first, used, undefined, aborted>>

AnyName == Permutations(Addrs) \cup Permutations(Handles)
=============================================================================
