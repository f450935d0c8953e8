----------------------------- MODULE FileRecord -----------------------------
(***************************************************************************)
(* record/file_record.c over record/irecord.c: the players and their       *)
(* scores, found by scanning a text file.                                  *)
(*                                                                         *)
(* A file is the sequence of what fgets() returns, one line or one piece   *)
(* of a line longer than its buffer each, and a line is what the code can  *)
(* tell of it: whether it starts with '+', its first word, the flags after *)
(* it, what stands before a colon, and the numbers after that.  One action *)
(* is one turn of a loop; what a local variable holds before anything is   *)
(* read into it is any value.                                              *)
(***************************************************************************)
EXTENDS MapGameScore, FiniteSets

CONSTANTS Chars,       \* the characters of a name
          Names,       \* what can be asked for
          Words,       \* what a line can start with
          LongGames,   \* the keys of MAX_NAME_GAME_LEN characters or more
          Files,       \* what the file may hold
          Undefined,   \* the content of a variable nothing was read into
          Pending,     \* no joueur was returned
          MaxLookups   \* bound of the model

Line == [sep: BOOLEAN, word: Words, flags: Seq(BOOLEAN),
         colon: BOOLEAN, key: GameNames, nums: Seq(Counter)]

ASSUME RecordAssumption ==
    /\ Words \cup Names \subseteq Seq(Chars) /\ <<>> \in Words
    /\ Files \subseteq Seq(Line)
    /\ LongGames \subseteq GameNames
    /\ Undefined \notin Words \cup Score
    /\ MaxLookups \in Nat

VARIABLES
    file,      \* the lines of the file
    phase,     \* where the code is
    fp,        \* the file pointer: "null", "open", "closed"
    streams,   \* the streams that are open
    pos,       \* lines read from the stream
    line,      \* buffer_line
    found,     \* found_record, in next_record()
    asked,     \* the name asked for
    word,      \* name_joueur, the buffer of search_record_joueur_by_name()
    num,       \* win, lost and draw, the locals of extract_map_victories()
    joueur,    \* the joueur_t the last call returned
    nextId,    \* next_joueur_id
    counter,   \* the number count_records() returns
    lookups    \* lookups so far                                  (history)

stream == <<fp, streams, pos>>
locals == <<line, found, word, num>>
vars == <<file, phase, stream, locals, asked, joueur, nextId, counter, lookups>>

Joueur == [valid: BOOLEAN, id: Nat, name: Words, daltonien: BOOLEAN,
           admin: BOOLEAN, scores: Seq(Pair)]

\* joueur_default_init()
NoJoueur == [valid |-> FALSE, id |-> 0, name |-> <<>>, daltonien |-> FALSE,
             admin |-> FALSE, scores |-> <<>>]

Init ==
    /\ file \in Files
    /\ phase = "new"
    /\ fp = "null" /\ streams = 0 /\ pos = 0
    /\ line = Undefined /\ found = FALSE /\ word = Undefined /\ num = Undefined
    /\ asked \in Names /\ joueur = Pending
    /\ nextId = 1 /\ counter = 0 /\ lookups = 0

\* file_record_init(): the base class ends the program when its description
\* cannot be allocated; the copy of the file's name is not checked.
Construct ==
    /\ phase = "new"
    /\ phase' \in {"ready", "exited", "crashed"}
    /\ UNCHANGED <<file, stream, locals, asked, joueur, nextId, counter, lookups>>

\* file_record_delete(): the file pointer is reset.
Delete ==
    /\ phase = "ready"
    /\ phase' = "deleted" /\ fp' = "null" /\ joueur' = Pending
    /\ UNCHANGED <<file, streams, pos, locals, asked, nextId, counter, lookups>>

-----------------------------------------------------------------------------
(* Reading *)

OpenFile == fp' = "open" /\ streams' = streams + 1 /\ pos' = 0

\* A faulty variant: the stream is closed in the error path.
CloseUnopened == fp' = "null" /\ streams' = streams - 1 /\ UNCHANGED pos

CannotOpen == fp' = "null" /\ UNCHANGED <<streams, pos>>

\* A faulty variant: the stream is left open.
LeftOpen == fp' = "closed" /\ UNCHANGED streams

CloseFile == fp' = "closed" /\ streams' = streams - 1

\* fgets() has a line to return.
More == pos < Len(file)

NextLine == pos' = pos + 1 /\ line' = file[pos + 1]

-----------------------------------------------------------------------------
(* Looking for a player: __get_joueur_from_name() *)

\* The locals of the call are undefined.
Lookup(n) ==
    /\ phase = "ready" /\ lookups < MaxLookups
    /\ asked' = n /\ lookups' = lookups + 1
    /\ line' = Undefined /\ found' = FALSE /\ word' = Undefined /\ num' = Undefined
    /\ \/ OpenFile /\ phase' = "seek" /\ joueur' = Pending
       \/ CannotOpen /\ joueur' = NoJoueur /\ UNCHANGED phase
    /\ UNCHANGED <<file, nextId, counter>>

\* The loop of next_record(), as long as no separator was read.
Seek ==
    /\ phase = "seek" /\ ~found /\ More
    /\ NextLine /\ found' = file[pos + 1].sep
    /\ UNCHANGED <<file, phase, fp, streams, asked, word, num, joueur, nextId, counter, lookups>>

\* A faulty variant: the loop stops at the separator.
SeparatorIsName ==
    /\ phase = "seek" /\ found
    /\ phase' = "name"
    /\ UNCHANGED <<file, stream, locals, asked, joueur, nextId, counter, lookups>>

\* The loop reads one line more, when there is one, before it stops.
NameLine ==
    /\ phase = "seek" /\ found
    /\ phase' = "name"
    /\ IF More THEN NextLine ELSE UNCHANGED <<pos, line>>
    /\ UNCHANGED <<file, fp, streams, found, asked, word, num, joueur, nextId, counter, lookups>>

\* The end of the file: an invalid joueur.
NotFound ==
    /\ phase = "seek" /\ ~found /\ ~More
    /\ phase' = "ready" /\ joueur' = NoJoueur
    /\ CloseFile
    /\ UNCHANGED <<file, pos, locals, asked, nextId, counter, lookups>>

\* extract_name_joueur(): nothing is read from a line of spaces, and the buffer
\* keeps the name before, or what it held.
ReadWord(w) ==
    IF line.word # <<>> THEN w = line.word ELSE word \in {w, Undefined}

StartsWith(s, t) == Len(t) <= Len(s) /\ \A i \in DOMAIN t : s[i] = t[i]

\* A faulty variant: the lengths are not compared.
MatchPrefix(w) == StartsWith(w, asked)

\* match_name()
MatchName(w) == StartsWith(w, asked) /\ Len(w) = Len(asked)

\* The player is another one: next_record() again.
Pass(w) ==
    /\ phase = "name" /\ ReadWord(w) /\ ~MatchName(w)
    /\ phase' = "seek" /\ word' = w /\ found' = FALSE
    /\ UNCHANGED <<file, stream, line, num, asked, joueur, nextId, counter, lookups>>

Flag(k) == k <= Len(line.flags) /\ line.flags[k]

\* A faulty variant: the id is that of the player before.
IdAgain == nextId' = nextId

\* file_record_get_next_joueur_id()
NextId == nextId' = nextId + 1

\* extract_one_record(): the player is made, with a new id and no scores; his
\* name is undefined when the line has none.
Extract(w, n) ==
    /\ phase = "name" /\ ReadWord(w) /\ MatchName(w)
    /\ line.word # <<>> => n = line.word
    /\ phase' = "scores" /\ word' = w
    /\ joueur' = [valid |-> TRUE, id |-> nextId, name |-> n,
                  daltonien |-> Flag(1), admin |-> Flag(2), scores |-> <<>>]
    /\ NextId
    /\ UNCHANGED <<file, stream, line, found, num, asked, counter, lookups>>

\* sscanf() of the numbers of line l: those that are missing keep what the
\* variable held; without a colon the bytes after the line are read instead.
Scanned(l, s) ==
    LET Read(k, value, before) ==
            IF ~l.colon THEN TRUE
            ELSE IF k <= Len(l.nums) THEN value = l.nums[k]
            ELSE num # Undefined => value = before
    IN  /\ Read(1, s.win, num.win) /\ Read(2, s.lost, num.lost)
        /\ Read(3, s.draw, num.draw)

\* extract_map_victories(), one line: a new game, or one that is replaced.
ReadScore(s) ==
    /\ phase = "scores" /\ More /\ ~file[pos + 1].sep
    /\ file[pos + 1].key \notin LongGames
    /\ NextLine /\ Scanned(line', s) /\ num' = s
    /\ joueur' = [joueur EXCEPT !.scores = Insert(@, line'.key, s)]
    /\ UNCHANGED <<file, phase, fp, streams, found, word, asked, nextId, counter, lookups>>

\* The name of a game is too long for a pair of the map, which is asserted.
LongName ==
    /\ phase = "scores" /\ More /\ ~file[pos + 1].sep
    /\ file[pos + 1].key \in LongGames
    /\ NextLine /\ phase' = "aborted" /\ joueur' = Pending
    /\ UNCHANGED <<file, fp, streams, found, word, num, asked, nextId, counter, lookups>>

\* A faulty variant: the end of the file does not end the loop.
UntilSeparator ==
    /\ phase = "scores" /\ More /\ file[pos + 1].sep
    /\ NextLine /\ phase' = "ready" /\ CloseFile
    /\ UNCHANGED <<file, found, word, num, asked, joueur, nextId, counter, lookups>>

\* The next separator, or the end of the file.
LastScore ==
    /\ phase = "scores"
    /\ IF More THEN file[pos + 1].sep /\ NextLine ELSE UNCHANGED <<pos, line>>
    /\ phase' = "ready" /\ CloseFile
    /\ UNCHANGED <<file, found, word, num, asked, joueur, nextId, counter, lookups>>

-----------------------------------------------------------------------------
(* count_records(), with for_each_record() and increment() *)

\* A file that cannot be opened is read all the same.
StartCount ==
    /\ phase = "ready"
    /\ counter' = 0 /\ joueur' = Pending
    /\ \/ OpenFile /\ phase' = "count"
       \/ CannotOpen /\ phase' = "crashed"
    /\ UNCHANGED <<file, locals, asked, nextId, lookups>>

CountLine ==
    /\ phase = "count" /\ More
    /\ pos' = pos + 1
    /\ counter' = IF file[pos + 1].sep THEN counter + 1 ELSE counter
    /\ UNCHANGED <<file, phase, fp, streams, locals, asked, joueur, nextId, lookups>>

EndCount ==
    /\ phase = "count" /\ ~More
    /\ phase' = "ready" /\ CloseFile
    /\ UNCHANGED <<file, pos, locals, asked, joueur, nextId, counter, lookups>>

-----------------------------------------------------------------------------
Scan ==
    \/ Seek \/ NameLine \/ NotFound
    \/ \E w \in Words : Pass(w) \/ \E n \in Words : Extract(w, n)
    \/ \E s \in Score : ReadScore(s)
    \/ LongName \/ LastScore \/ CountLine \/ EndCount

Next ==
    \/ Construct \/ Delete \/ StartCount \/ Scan
    \/ \E n \in Names : Lookup(n)

\* The loops go on; nothing makes anybody call.
Spec == Init /\ [][Next]_vars /\ WF_vars(Scan)

-----------------------------------------------------------------------------
(* What a file means (the header of record_file.txt) *)

\* The lines a separator introduces, and the lines of scores below line i.
Heads(f) == {i \in 2..Len(f) : f[i - 1].sep}
Below(f, i) == {j \in (i + 1)..Len(f) : \A k \in (i + 1)..j : ~f[k].sep}

IsPlayerLine(l) == ~l.sep /\ l.word # <<>>
IsScoreLine(l) == l.colon /\ Len(l.nums) \in {2, 3} /\ l.key \notin LongGames

\* Each separator is followed by the line of a player and those of his games;
\* what stands before the first separator is a header.
WellFormed(f) ==
    /\ Len(f) > 0 => ~f[Len(f)].sep
    /\ \A i \in Heads(f) : IsPlayerLine(f[i]) /\ \A j \in Below(f, i) : IsScoreLine(f[j])

\* The first line of a player named n.
HeadOf(f, n) ==
    {i \in Heads(f) : f[i].word = n /\ \A j \in Heads(f) : f[j].word = n => i <= j}

\* A score says what a line has: victories, defeats, and draws if they are there.
Says(l, s) ==
    /\ s.win = l.nums[1] /\ s.lost = l.nums[2]
    /\ Len(l.nums) = 3 => s.draw = l.nums[3]

\* The lines below i, up to line p, about game g, and the last of them.
About(f, i, p, g) == {j \in Below(f, i) : j <= p /\ f[j].key = g}

\* A map has exactly the games of the lines i+1..p, each as its last line says.
ScoresOf(f, i, p, map) ==
    /\ KeysUnique(map)
    /\ \A g \in GameNames :
        IF About(f, i, p, g) = {} THEN Slots(map, g) = {}
        ELSE \E j \in About(f, i, p, g) :
                /\ \A k \in About(f, i, p, g) : k <= j
                /\ \E slot \in Slots(map, g) : Says(f[j], map[slot].score)

FlagOf(l, k) == k <= Len(l.flags) /\ l.flags[k]

\* A joueur is what a well-formed file has under a name.
Fits(f, n, j) ==
    WellFormed(f) =>
        IF HeadOf(f, n) = {} THEN ~j.valid
        ELSE \A i \in HeadOf(f, n) :
                /\ j.valid /\ j.name = n
                /\ j.daltonien = FlagOf(f[i], 1) /\ j.admin = FlagOf(f[i], 2)
                /\ ScoresOf(f, i, Len(f), j.scores)

\* A number is that of the players of a well-formed file.
IsTotal(f, n) == WellFormed(f) => n = Cardinality(Heads(f))

-----------------------------------------------------------------------------
(* Properties *)

\* Every variable has its type.
TypeOK ==
    /\ file \in Files
    /\ phase \in {"new", "ready", "seek", "name", "scores", "count",
                  "aborted", "crashed", "exited", "deleted"}
    /\ fp \in {"null", "open", "closed"} /\ streams \in Nat /\ pos \in 0..Len(file)
    /\ line \in Line \cup {Undefined} /\ found \in BOOLEAN
    /\ word \in Words \cup {Undefined} /\ num \in Score \cup {Undefined}
    /\ asked \in Names /\ joueur \in Joueur \cup {Pending}
    /\ nextId \in Nat \ {0} /\ counter \in Nat /\ lookups \in 0..MaxLookups

\* In a file that has the documented form, a lookup returns the player of that
\* very name, not one whose name it starts, with his flags and the scores of
\* his lines alone, and an invalid player only when the file could not be read
\* or does not name him (file_record.c:175-307).
AnswerIsWritten ==
    phase = "ready" /\ joueur # Pending =>
        \/ joueur = NoJoueur /\ fp = "null"
        \/ Fits(file, asked, joueur)

\* A stream is open during a call, never between two of them, whichever way the
\* call before ended, and what is read is always open (file_record.c:111-171).
OneStream ==
    /\ phase \in {"seek", "name", "scores", "count"} => fp = "open" /\ streams = 1
    /\ phase \in {"new", "ready", "deleted", "exited", "crashed"} =>
           fp # "open" /\ streams = 0

\* Every lookup and every count that began returns, or an assertion fails, at
\* the end of the file at the latest, whatever the file holds
\* (file_record.c:250-293).
CallsReturn == phase \in {"seek", "name", "scores", "count"} ~> phase \in {"ready", "aborted"}

\* The header of the file calls the number of draws optional: a line without
\* it gives no draws (record_file.txt:4).  This is NOT what the code does: the
\* counter keeps what the line before, or nothing, left in it.
DrawsOptional ==
    phase = "ready" /\ joueur # Pending /\ joueur.valid /\ WellFormed(file) =>
        \A i \in HeadOf(file, asked), slot \in DOMAIN joueur.scores :
            (\A j \in About(file, i, Len(file), joueur.scores[slot].name) : Len(file[j].nums) = 2)
                => joueur.scores[slot].score.draw = 0

-----------------------------------------------------------------------------
(* The record as an index of players *)

Status ==
    CASE phase \in {"new", "deleted"} -> "closed"
      [] phase = "ready" -> "idle"
      [] phase \in {"seek", "name", "scores"} -> "busy"
      [] phase = "count" -> "counting"
      [] OTHER -> "halted"

Reply == IF phase = "ready" THEN joueur ELSE Pending

\* The greatest id that was given with an answer.
LastId == IF phase \in {"scores", "aborted"} THEN nextId - 2 ELSE nextId - 1

Total == IF phase = "count" THEN 0 ELSE counter

Open == streams > 0

Promise == INSTANCE RecordSpec WITH
    Contents <- Files, Nobody <- NoJoueur, content <- file, status <- Status,
    reply <- Reply, lastId <- LastId, total <- Total, open <- Open

\* The scan implements the record: one question, one answer that fits what is
\* written, with an id of its own, and the file is open in between only.
ImplementsRecord == Promise!Spec
=============================================================================
