----------------------------- MODULE VectorSpec -----------------------------
(***************************************************************************)
(* What the vectors, the list and the arrays of ccontainer promise: they   *)
(* are sequences of values, each value in one of them and nowhere else.    *)
(* A value is an identity with a key; it keeps both as long as it is in a  *)
(* sequence, wherever it is moved to.                                      *)
(***************************************************************************)
EXTENDS Naturals, Sequences, FiniteSets, Functions

CONSTANTS Vectors, Blocks, Keys, Null, Absent, NoJob

VARIABLES content,   \* the sequence of each vector
          list, array,
          key,       \* the values in use and their keys
          task,      \* the sort that is running
          status     \* "idle", "sorting", "stopped"

vars == <<content, list, array, key, task, status>>

Init ==
    /\ content = [v \in Vectors |-> Absent]
    /\ list = <<>> /\ array = <<>> /\ key = <<>>
    /\ task = NoJob /\ status = "idle"

Exists(v) == content[v] # Absent
Values(s) == Range(s) \ {Null}

Set(v, s) == content' = [content EXCEPT ![v] = s]

\* New values, none twice, and the keys they get; old values that end.
Fresh(ids) ==
    /\ Range(ids) \subseteq Blocks \ DOMAIN key
    /\ \A i, j \in DOMAIN ids : ids[i] = ids[j] => i = j

NewKeys(ids, keys) ==
    key' = [b \in DOMAIN key \cup Range(ids) |->
               IF b \in Range(ids) THEN keys[CHOOSE i \in DOMAIN ids : ids[i] = b] ELSE key[b]]

End(S) == key' = Restrict(key, DOMAIN key \ S)

New(v) == ~Exists(v) /\ Set(v, <<>>) /\ UNCHANGED <<list, array, key, task>>

PushBack(v, b, k) ==
    /\ Exists(v) /\ Set(v, Append(content[v], b))
    /\ Fresh(<<b>>) /\ NewKeys(<<b>>, <<k>>)
    /\ UNCHANGED <<list, array, task>>

\* The values of a copy are new, with the keys of those copied; the rest of it,
\* when it fails, is no value.
Copy(v, w) ==
    /\ Exists(v) /\ ~Exists(w)
    /\ \E n \in 0..Len(content[v]) :
        LET new == SubSeq(content'[w], 1, n) IN
        /\ Len(content'[w]) = Len(content[v])
        /\ \A i \in (n + 1)..Len(content[v]) : content'[w][i] = Null
        /\ Fresh(new) /\ NewKeys(new, [i \in 1..n |-> key[content[v][i]]])
        /\ Set(w, content'[w])
    /\ UNCHANGED <<list, array, task>>

Swap(v) ==
    /\ Exists(v)
    /\ \E i, j \in DOMAIN content[v] :
        Set(v, [content[v] EXCEPT ![i] = content[v][j], ![j] = content[v][i]])
    /\ UNCHANGED <<list, array, key, task>>

Clear(v) ==
    /\ Exists(v) /\ (Set(v, <<>>) \/ Set(v, Absent))
    /\ End(Values(content[v]))
    /\ UNCHANGED <<list, array, task>>

-----------------------------------------------------------------------------
(* The sort *)

Bigger(order, a, b) == IF order = "bigger" THEN key[a] > key[b] ELSE key[a] < key[b]

At(s, a) == CHOOSE i \in DOMAIN s : s[i] = a

\* t has the values of s, none bigger than one after it, equal ones in the order
\* they had.
IsStableSort(order, s, t) ==
    /\ Len(t) = Len(s) /\ Range(t) = Range(s)
    /\ \A i, j \in DOMAIN t : i < j =>
        /\ ~Bigger(order, t[i], t[j])
        /\ key[t[i]] = key[t[j]] => At(s, t[i]) < At(s, t[j])

StartSort(v) ==
    /\ Exists(v) /\ status' = "sorting"
    /\ task' \in [v: {v}, order: {"bigger", "smaller"}]
    /\ UNCHANGED <<content, list, array, key>>

\* One element is sorted, whatever it is.
EndSort ==
    /\ status = "sorting" /\ status' = "idle" /\ task' = NoJob
    /\ LET s == content[task.v]  t == content'[task.v] IN
        /\ Set(task.v, t)
        /\ IF Len(s) < 2 THEN t = s ELSE IsStableSort(task.order, s, t)
    /\ UNCHANGED <<list, array, key>>

-----------------------------------------------------------------------------
(* The list and the array *)

ListPush(b, k) ==
    /\ list' = Append(list, b) /\ Fresh(<<b>>) /\ NewKeys(<<b>>, <<k>>)
    /\ UNCHANGED <<content, array, task>>

ListPop ==
    /\ list # <<>> /\ list' = Tail(list) /\ End({Head(list)})
    /\ UNCHANGED <<content, array, task>>

\* A copy of s, some of whose values may be missing.
ArrayOf(s) ==
    /\ array = <<>> /\ Len(array') = Len(s)
    /\ Values(array') \subseteq Blocks \ DOMAIN key
    /\ \A i, j \in DOMAIN s : array'[i] = array'[j] /\ array'[i] # Null => i = j
    /\ DOMAIN key' = DOMAIN key \cup Values(array')
    /\ \A b \in DOMAIN key : key'[b] = key[b]
    /\ \A i \in DOMAIN s : array'[i] # Null => key'[array'[i]] = key[s[i]]
    /\ UNCHANGED <<content, list, task>>

DeleteArray ==
    /\ array' = <<>> /\ End(Values(array)) /\ UNCHANGED <<content, list, task>>

\* The values of the list become those of a vector, in the same order.
Transfer(v) ==
    /\ ~Exists(v) /\ Set(v, list) /\ list' = <<>> /\ UNCHANGED <<array, key, task>>

-----------------------------------------------------------------------------
Call ==
    /\ status = "idle" /\ status' = "idle"
    /\ \/ ListPop \/ DeleteArray \/ ArrayOf(list)
       \/ \E b \in Blocks, k \in Keys : ListPush(b, k)
       \/ \E v \in Vectors :
            \/ New(v) \/ Swap(v) \/ Clear(v) \/ Transfer(v)
            \/ Exists(v) /\ Null \notin Range(content[v]) /\ ArrayOf(content[v])
            \/ \E b \in Blocks, k \in Keys : PushBack(v, b, k)
            \/ \E w \in Vectors : Copy(v, w)

Halt ==
    /\ status' = "stopped" /\ status # "stopped"
    /\ UNCHANGED <<content, list, array, key, task>>

Next ==
    \/ Call \/ EndSort \/ Halt
    \/ status = "idle" /\ \E v \in Vectors : StartSort(v)

Spec == Init /\ [][Next]_vars
=============================================================================
