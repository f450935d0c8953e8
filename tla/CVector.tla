------------------------------ MODULE CVector ------------------------------
(***************************************************************************)
(* ccontainer/cvector_generic.c with its strings (cvector_cstring.c,       *)
(* value.c, value_cstring.c), and what else owns the same values: the list *)
(* of strings (clist_cstring.c), the arrays copied out of both, and the    *)
(* conversion of a list to a vector (ccontainer_utils.c).                  *)
(*                                                                         *)
(* A value is a block of the heap with a key, what a comparison sees of    *)
(* its bytes; a place of a vector holds a block or the NULL of a value     *)
(* that was moved or could not be copied.  Every allocation may fail.  A   *)
(* call is one step, but for the sort, where a comparison is.              *)
(***************************************************************************)
EXTENDS Naturals, Sequences, FiniteSets, Functions

CONSTANTS Vectors,       \* the vectors a program may have
          Blocks,        \* addresses of the values
          Keys,          \* numbers
          Null,          \* the NULL pointer
          Absent,        \* no vector was made
          Garbage,       \* a vector whose members nothing initialised
          NoJob,         \* no sort is running
          Profiles,      \* the sets of operations a behaviour may use
          Capacities,    \* what a vector is made with, or is asked to grow to
          MaxCapacity,   \* bounds of the model
          MaxList

Place == Blocks \cup {Null}
Vector == [items: Seq(Place), capacity: Nat]     \* cvector_gen_t
Job == [v: Vectors, order: {"bigger", "smaller"}, size: Nat, i: Nat \ {0},
        swapped: BOOLEAN, before: Seq(Place)]

ASSUME VectorAssumption ==
    /\ IsFiniteSet(Blocks) /\ Null \notin Blocks /\ Keys \subseteq Nat
    /\ Vectors \cap {"list", "array"} = {}
    /\ {Absent, Garbage} \cap Vector = {} /\ Absent \notin Seq(Place) /\ NoJob \notin Job
    /\ Capacities \subseteq Nat /\ MaxCapacity \in Nat /\ MaxList \in Nat

VARIABLES vec,     \* cvector_gen_t: array and len as one sequence, capacity
          list,    \* the values of a clist_gen_t, first node first
          array,   \* what get_array() gave to the caller, empty for NULL
          heap,    \* the allocated blocks and their keys
          lost,    \* allocated blocks nothing points at          (history)
          job,     \* the locals of the sort, and what it began with
          fate,    \* "ok", "aborted", "undefined"
          used,    \* the operations this behaviour uses
          debug    \* assertions are compiled in

setting == <<used, debug>>
vars == <<vec, list, array, heap, lost, job, fate, setting>>

Init ==
    /\ vec = [v \in Vectors |-> Absent]
    /\ list = <<>> /\ array = <<>>
    /\ heap = <<>> /\ lost = {}
    /\ job = NoJob /\ fate = "ok" /\ used \in Profiles /\ debug \in BOOLEAN

-----------------------------------------------------------------------------
(* The heap *)

Free == Blocks \ DOMAIN heap

\* What malloc returns: a free block; and for each of S one, none twice.
NewBlock == CHOOSE b \in Free : TRUE
Fresh(S) == CHOOSE ids \in [S -> Free] : \A i, j \in S : ids[i] = ids[j] => i = j

BlocksOf(s) == Range(s) \ {Null}

\* heap with the new blocks of s, each with its key, and without those of S.
With(s, keys) ==
    [b \in DOMAIN heap \cup Range(s) |->
        IF b \in Range(s) THEN keys[CHOOSE i \in DOMAIN s : s[i] = b] ELSE heap[b]]
Without(S) == Restrict(heap, DOMAIN heap \ S)

KeysOf(s) == [i \in DOMAIN s |-> heap[s[i]]]

Calm == fate = "ok" /\ job = NoJob
Alive(v) == vec[v] \notin {Absent, Garbage}
Items(v) == vec[v].items
HasHole(s) == Null \in Range(s)

Become(outcome) ==
    /\ fate' = outcome
    /\ UNCHANGED <<vec, list, array, heap, lost, job, setting>>

\* Values that are there are asserted, or read all the same.
Trouble == IF debug THEN "aborted" ELSE "undefined"

SetVector(v, items, capacity) ==
    vec' = [vec EXCEPT ![v] = [items |-> items, capacity |-> capacity]]

-----------------------------------------------------------------------------
(* Construction and destruction *)

\* cvector_gen_new(), cvector_gen_init(): the pointer is not checked.
New(v) ==
    /\ Calm /\ vec[v] = Absent
    /\ \/ /\ SetVector(v, <<>>, 0)
          /\ UNCHANGED <<list, array, heap, lost, job, fate, setting>>
       \/ Become("undefined")

\* cvector_gen_init_with_capacity(): its error is ignored, and the vector is
\* then what malloc returned.
NewWithCapacity(v, n) ==
    /\ Calm /\ vec[v] = Absent
    /\ \/ /\ SetVector(v, <<>>, n) \/ vec' = [vec EXCEPT ![v] = Garbage]
          /\ UNCHANGED <<list, array, heap, lost, job, fate, setting>>
       \/ Become("undefined")

UseGarbage(v) == Calm /\ vec[v] = Garbage /\ Become("undefined")

\* A faulty variant: the last element is kept.
AllButLast(s) == BlocksOf(SubSeq(s, 1, Len(s) - 1))

\* delete_elements(): the deleter frees what each place points at.
Deleted(s) == BlocksOf(s)

\* cvector_gen_clear(): the capacity stays.
Clear(v) ==
    /\ Calm /\ Alive(v)
    /\ heap' = Without(Deleted(Items(v)))
    /\ SetVector(v, <<>>, vec[v].capacity)
    /\ UNCHANGED <<list, array, lost, job, fate, setting>>

\* cvector_gen_free(), cvector_cstring_delete()
Delete(v) ==
    /\ Calm /\ Alive(v)
    /\ heap' = Without(Deleted(Items(v)))
    /\ vec' = [vec EXCEPT ![v] = Absent]
    /\ UNCHANGED <<list, array, lost, job, fate, setting>>

\* cvector_gen_copy(): the length is set first, then each value is duplicated
\* until one cannot be; the places after it stay NULL.  That the array could not
\* be allocated is not looked at.
CopyTo(v, w, n) ==
    LET s == Items(v)
        ids == Fresh(1..n)
    IN  /\ SetVector(w, [i \in DOMAIN s |-> IF i <= n THEN ids[i] ELSE Null], Len(s))
        /\ heap' = With(ids, KeysOf(SubSeq(s, 1, n)))
        /\ UNCHANGED <<list, array, lost, job, fate, setting>>

Copy(v, w) ==
    /\ Calm /\ Alive(v) /\ vec[w] = Absent
    /\ \/ IF Items(v) # <<>> THEN Become("undefined")
          ELSE /\ vec' = [vec EXCEPT ![w] = Garbage]
               /\ UNCHANGED <<list, array, heap, lost, job, fate, setting>>
       \/ \E n \in 0..Len(Items(v)) :
            /\ n <= Cardinality(Free)
            /\ IF \E i \in DOMAIN Items(v) : i <= n + 1 /\ Items(v)[i] = Null
               THEN Become(Trouble) ELSE CopyTo(v, w, n)

-----------------------------------------------------------------------------
(* Growth *)

\* cvector_gen_set_capacity(): it never shrinks; each value is moved, which
\* asserts that it is there.
SetCapacity(v, n) ==
    /\ Calm /\ Alive(v) /\ n > vec[v].capacity
    /\ IF debug /\ HasHole(Items(v)) THEN Become("aborted")
       ELSE /\ SetVector(v, Items(v), n)
            /\ UNCHANGED <<list, array, heap, lost, job, fate, setting>>

\* A faulty variant: one place too few is asked for.
NeededShort(v) == Len(Items(v))

\* The capacity cvector_gen_push_back() asks for.
Needed(v) == Len(Items(v)) + 1

Fits(v) == Needed(v) <= vec[v].capacity

\* cvector_cstring_push_back(): a value is made, and moved to the vector.
PushBack(v, k) ==
    /\ Calm /\ Alive(v) /\ Needed(v) <= MaxCapacity /\ Free # {}
    /\ IF ~Fits(v) /\ debug /\ HasHole(Items(v)) THEN Become("aborted")
       ELSE /\ SetVector(v, Append(Items(v), NewBlock),
                         IF Fits(v) THEN vec[v].capacity ELSE Needed(v))
            /\ heap' = With(<<NewBlock>>, <<k>>)
            /\ UNCHANGED <<list, array, lost, job, fate, setting>>

\* The vector cannot grow: the caller forgets the value he made.
PushLost(v, k) ==
    /\ Calm /\ Alive(v) /\ ~Fits(v) /\ Free # {}
    /\ heap' = With(<<NewBlock>>, <<k>>) /\ lost' = lost \cup {NewBlock}
    /\ UNCHANGED <<vec, list, array, job, fate, setting>>

\* cvector_cstring_get_ref_at(), get_copy_at(): the NULL that stands for an index
\* out of range, or that a failed copy left, is read.
ReadNothing(v, i) ==
    /\ Calm /\ Alive(v)
    /\ i \in DOMAIN Items(v) => Items(v)[i] = Null
    /\ Become("undefined")

\* cvector_gen_swap(): through a value moved out; the same index twice moves
\* from a place that is NULL.
Swapped(s, i, j) == [s EXCEPT ![i] = s[j], ![j] = s[i]]

Swap(v, i, j) ==
    /\ Calm /\ Alive(v) /\ {i, j} \subseteq DOMAIN Items(v)
    /\ IF debug /\ (i = j \/ Null \in {Items(v)[i], Items(v)[j]}) THEN Become("aborted")
       ELSE /\ SetVector(v, Swapped(Items(v), i, j), vec[v].capacity)
            /\ UNCHANGED <<list, array, heap, lost, job, fate, setting>>

-----------------------------------------------------------------------------
(* cvector_bubble_sort() *)

StartSort(v, order) ==
    /\ Calm /\ Alive(v)
    /\ job' = [v |-> v, order |-> order, size |-> Len(Items(v)), i |-> 1,
               swapped |-> FALSE, before |-> Items(v)]
    /\ UNCHANGED <<vec, list, array, heap, lost, fate, setting>>

\* The comparaters: strictly bigger, strictly smaller.
After(order, a, b) == IF order = "bigger" THEN heap[a] > heap[b] ELSE heap[a] < heap[b]

\* A faulty variant: equal values are swapped.
NotBefore(a, b) == heap[a] = heap[b] \/ After(job.order, a, b)

OutOfOrder(a, b) == After(job.order, a, b)

\* One turn of the inner loop.
Compare ==
    LET s == Items(job.v)
        i == job.i IN
    /\ fate = "ok" /\ job # NoJob /\ i < job.size
    /\ IF i + 1 > Len(s) \/ Null \in {s[i], s[i + 1]} THEN Become("undefined")
       ELSE /\ IF OutOfOrder(s[i], s[i + 1])
               THEN /\ SetVector(job.v, Swapped(s, i, i + 1), vec[job.v].capacity)
                    /\ job' = [job EXCEPT !.i = i + 1, !.swapped = TRUE]
               ELSE /\ job' = [job EXCEPT !.i = i + 1] /\ UNCHANGED vec
            /\ UNCHANGED <<list, array, heap, lost, fate, setting>>

\* A faulty variant: b_swap is set to false before the first pass only.
StillSwapped == [job EXCEPT !.size = IF @ = 0 THEN MaxCapacity ELSE @ - 1, !.i = 1]

\* size_array is unsigned.
NextPass ==
    [job EXCEPT !.size = IF @ = 0 THEN MaxCapacity ELSE @ - 1, !.i = 1, !.swapped = FALSE]

EndPass ==
    /\ fate = "ok" /\ job # NoJob /\ job.i >= job.size
    /\ job' = IF job.swapped THEN NextPass ELSE NoJob
    /\ UNCHANGED <<vec, list, array, heap, lost, fate, setting>>

-----------------------------------------------------------------------------
(* Lists and arrays of strings *)

\* clist_cstring_push_back(): without a node the value made is forgotten.
ListPush(k) ==
    /\ Calm /\ Len(list) < MaxList /\ Free # {}
    /\ heap' = With(<<NewBlock>>, <<k>>)
    /\ \/ list' = Append(list, NewBlock) /\ UNCHANGED lost
       \/ lost' = lost \cup {NewBlock} /\ UNCHANGED list
    /\ UNCHANGED <<vec, array, job, fate, setting>>

\* clist_cstring_pop_front(): the value is deleted, copied to the caller or not.
ListPop ==
    /\ Calm /\ list # <<>>
    /\ heap' = Without({Head(list)}) /\ list' = Tail(list)
    /\ UNCHANGED <<vec, array, lost, job, fate, setting>>

\* clist_cstring_get_array(): a string that cannot be copied is NULL.
ListArray ==
    /\ Calm /\ array = <<>> /\ list # <<>>
    /\ \E copied \in SUBSET DOMAIN list :
        /\ Cardinality(copied) <= Cardinality(Free)
        /\ array' = [i \in DOMAIN list |-> IF i \in copied THEN Fresh(copied)[i] ELSE Null]
        /\ heap' = With(Fresh(copied), KeysOf(list))
    /\ UNCHANGED <<vec, list, lost, job, fate, setting>>

\* cvector_cstring_get_array(): a string that cannot be copied is written all
\* the same, and a NULL is read.
VectorArray(v) ==
    /\ Calm /\ Alive(v) /\ array = <<>> /\ Items(v) # <<>>
    /\ \/ Become("undefined")
       \/ LET ids == Fresh(DOMAIN Items(v)) IN
            /\ ~HasHole(Items(v)) /\ Len(Items(v)) <= Cardinality(Free)
            /\ array' = ids /\ heap' = With(ids, KeysOf(Items(v)))
            /\ UNCHANGED <<vec, list, lost, job, fate, setting>>

\* carray_cstring_delete()
DeleteArray ==
    /\ Calm /\ array # <<>>
    /\ heap' = Without(BlocksOf(array)) /\ array' = <<>>
    /\ UNCHANGED <<vec, list, lost, job, fate, setting>>

\* transfert_clist_to_cvector_gen(): values are popped until the list is empty;
\* whether the capacity was obtained is not looked at.
Transfer(v) ==
    /\ Calm /\ vec[v] = Absent /\ list # <<>>
    /\ \/ Become("undefined")
       \/ /\ SetVector(v, list, Len(list)) /\ list' = <<>>
          /\ UNCHANGED <<array, heap, lost, job, fate, setting>>

-----------------------------------------------------------------------------
Sorting == Compare \/ EndPass

OnVector(v) ==
    \/ UseGarbage(v) \/ Clear(v) \/ Delete(v)
    \/ "push" \in used /\ (New(v) \/ \E n \in Capacities : NewWithCapacity(v, n))
    \/ "push" \in used /\ \E k \in Keys : PushBack(v, k) \/ PushLost(v, k)
    \/ \E i \in 1..(MaxCapacity + 1) : ReadNothing(v, i)
    \/ "copy" \in used /\ \E w \in Vectors : Copy(v, w)
    \/ "grow" \in used /\ \E n \in Capacities : SetCapacity(v, n)
    \/ "swap" \in used /\ \E i, j \in 1..MaxCapacity : Swap(v, i, j)
    \/ "sort" \in used /\ \E order \in {"bigger", "smaller"} : StartSort(v, order)
    \/ "array" \in used /\ VectorArray(v)
    \/ "list" \in used /\ Transfer(v)

OnList == ListPop \/ ListArray \/ \E k \in Keys : ListPush(k)

Next ==
    \/ \E v \in Vectors : OnVector(v)
    \/ Sorting \/ DeleteArray
    \/ "list" \in used /\ OnList

\* The loops of the sort go on; nothing makes anybody call.
Spec == Init /\ [][Next]_vars /\ WF_vars(Sorting)
-----------------------------------------------------------------------------
(* Properties *)

\* Every variable has its type; no vector is longer than its array.
TypeOK ==
    /\ \A v \in Vectors :
        \/ vec[v] \in {Absent, Garbage}
        \/ vec[v] \in Vector /\ Len(Items(v)) <= vec[v].capacity
    /\ list \in Seq(Blocks) /\ array \in Seq(Place)
    /\ DOMAIN heap \subseteq Blocks /\ Range(heap) \subseteq Keys
    /\ lost \subseteq DOMAIN heap
    /\ job \in Job \cup {NoJob}
    /\ fate \in {"ok", "aborted", "undefined"} /\ used \in Profiles /\ debug \in BOOLEAN

\* All that can own a value: the vectors, the list and the array; their places.
Seats == Vectors \cup {"list", "array"}

Places(c) ==
    IF c = "list" THEN list ELSE IF c = "array" THEN array
    ELSE IF Alive(c) THEN Items(c) ELSE <<>>

\* The places that point at block b.
Owners(b) == UNION {{<<c, i>> : i \in {j \in DOMAIN Places(c) : Places(c)[j] = b}} : c \in Seats}

\* Whatever is copied, moved, grown, sorted, converted or cleared, and whichever
\* allocation fails, an allocated value has one owner, who will free it, or was
\* forgotten by a push that failed; and nobody points at what was freed
\* (cvector_generic.c:41-230, ccontainer_utils.c:16-53).
OneOwner ==
    \A b \in Blocks :
        IF b \in DOMAIN heap \ lost THEN Cardinality(Owners(b)) = 1 ELSE Owners(b) = {}

\* A sort ends, whatever the values and the order, unless it reads the NULL
\* a failed copy left (cvector_generic.c:196-220).
SortEnds == job # NoJob ~> job = NoJob \/ fate = "undefined"

-----------------------------------------------------------------------------
(* Vectors as sequences *)

Seen(v) ==
    IF ~Alive(v) THEN Absent
    ELSE IF job # NoJob /\ job.v = v THEN job.before ELSE Items(v)

Status ==
    IF fate # "ok" THEN "stopped" ELSE IF job # NoJob THEN "sorting" ELSE "idle"

Contents == [v \in Vectors |-> Seen(v)]
OwnedKeys == Restrict(heap, DOMAIN heap \ lost)
Task == IF job = NoJob THEN NoJob ELSE [v |-> job.v, order |-> job.order]

Promise == INSTANCE VectorSpec WITH
    content <- Contents, key <- OwnedKeys, task <- Task, status <- Status

\* The vectors are sequences of values that keep their identity: growth is not
\* seen, a sort is one stable sort, and a copy is whole or is a prefix of it.
ImplementsVector == Promise!Spec
=============================================================================
