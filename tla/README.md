# JMMjouer, specified in TLA+

JMMjouer is a text arcade written in C: a player gives his name, chooses games
in a menu (two are compiled in, others are shared libraries found in a
directory), plays them, and the results are added to his scores.  This
directory holds TLA+ models of it, the TLC configurations that check them, and
proofs that TLAPS checks.

The program is sequential: no threads, no signals.  What is hard in it is
order and failure: any sequence of input lines, too long lines and the end of
the file among them, any order of the files of a directory, libraries that
fail at some stage, allocations that fail, addresses that are recycled,
sequences of calls of a container that nobody tested together, and counters at
their limits.

## The system

| Component | Source | State | Operations | What makes it correct | Module |
|---|---|---|---|---|---|
| main program | `executables/main.c` | options, the objects it makes | parse options, construct, run, release | everything is released once and in the right order | `GameLoader` |
| game loader, map of functions | `jmmjouer/game_loader/game_loader.c`, `map_game_ptrf.c`, `utils_file.c`, `games/default_games.c` | list of (name, function) | `load_all`, `get_names`, `get_ptr_game`, `free` | the menu has every good game and nothing else | `GameLoader` |
| plugin manager | `game_loader/plugin_manager.c` | singleton, directory, table of handles | `get_instance`, `set_directory`, `load_shared_library`, `get_names`, `get_game_ptrf`, `clear`, `free` | handles stay open as long as they are used, and are all closed | `GameLoader` |
| arcade session | `jmmjouer/arcade.c` | the player, the prompts' buffers | identification, menu, `run_game` | each result counts once, for its game and its player | `Arcade` |
| map of scores | `joueur/map_game_score.c`, `score_game.c` | list of (game, score) | `insert`, `get_from_name`, `copy` | it is a map | `MapGameScore`, `ScoreLedger`; the copy in `Players` |
| joueur, user | `joueur/joueur.c`, `user.c` | name, id, flags, map | `init`, `default_init`, `delete` | nothing is leaked or freed twice | `Arcade`, `FileRecord`, `Players` |
| generic list | `ccontainer/clist_generic.c`, `value.c` | nodes on the heap | push, pop, find, remove, copy, free | it is a sequence; memory safety | `CList`, `ListSpec` |
| Mastermind | `games/game_mastermind.c` | secret, guess, attempts, scores | guess, replay | right answers; a party ends | `Mastermind`, `Game` |
| Pendu | `games/game_pendu.c` | word, letters found, turns | letter, word, quit | the word shown is what was found; a party ends | `Pendu`, `Game` |
| Morpion | `src_plugins/game_morpion.c` | board, turn | the player's and the program's turns | the score is that of the board; a party ends | `Morpion` |
| terminal input | `jmmjouer/utils.c` | none | yes/no question, `clean_stdin` | | in `Arcade`, `Mastermind` |
| players' record | `record/file_record.c`, `irecord.c` | file, position, next id | `get_joueur_from_name`, `count_records`, construction, release | the player found is the one asked for, whole; the file is closed | `FileRecord`, `RecordSpec` |
| vectors | `ccontainer/cvector_generic.c`, `cvector_cstring.c` | array, length, capacity | push, get, copy, swap, sort, grow, clear | no value is lost or owned twice; a sort is a stable sort | `CVector`, `VectorSpec` |
| lists of strings, arrays of strings | `clist_cstring.c`, `value_cstring.c`, `ccontainer_utils.c` | values of a list, array of the caller | push, pop, `get_array`, transfer to a vector | each string has one owner | `CVector`, `VectorSpec` |
| lists and vectors of players | `joueur/list_joueur.c`, `vector_joueur.c`, `adapter_ccontainer_joueur.c` | serialised players, a length | push, pop, get, convert | deep copies; what fails loses little | `Players`, `PlayersSpec` |
| logger, `getopt` | `clogger.c`, `getopt.c` | | | | not modelled |

How they interact: `main()` sets the directory of the plugin manager, has the
loader read it, opens the record, gives both to the arcade and calls
`arcade_run()`.  The arcade asks the record for the player by name, the loader
for the names of the menu and for the function of the game chosen, calls that
function with a copy of the user, and adds the score it returns to the map of
the player.  Loader and map are both lists of the generic container.  Nothing
is written back to the record: scores live as long as the session.  Vectors,
lists of strings and the containers of players are libraries of the repository:
their tests use them, and `main()` does not yet.

## The modules

**`MapGameScore`** has the operators on a player's scores.  A map is the
sequence of its pairs, so that a duplicated key can exist; counters are kept
modulo `CounterMod`, 2^32 in the program.

**`Arcade`** is `arcade_run()`.  `phase` is the place in the code: the
identification prompt, the yes/no question, the menu, a game running.  Input is
modelled line by line.  `ReadName`, `ReadChar` and `ReadChoice` are `fgets`,
`scanf("%c")` and `scanf("%d")`, each followed by what it leaves in the stream:
`residue` is the rest of a name too long for its buffer, which the next
question reads; at end of file (`eof`) a variable keeps what it held, and is
undefined as long as nothing was read into it.  `heap` counts the live name
buffers and maps; `origin`, `consent`, `refused`, `parties` and `played` are
history variables.  The record is external: a constant map, of names and
scores.  The games are functions that return one of their `Outcomes`.  The
model is the debug build: in it a plugin's name of 20 characters or more fails
an assertion of the map.  `MCArcade` is the small instance.

**`ScoreLedger`** is what the arcade promises: a ledger is opened for one
player, each party credits one line with victories and defeats that a game can
return (`Returned`), and nothing else changes a line.  `Arcade` implements it
through `LedgerOf(scores)`.

**`CList`** is the generic list over an explicit heap: `node` maps the
allocated addresses to (value, prev, next), `malloc` fails or returns any free
address, so that a stale pointer may point at a new node, and `undefined` turns
true when a call dereferences an address that is not allocated.  A behaviour
uses one `Profile` of operations: `push_front` and `pop_front` leave
`prev_node` wrong, which only `remove_node` reads, and no code uses them
together.  **`ListSpec`** is the abstract sequence, with the error codes.

**`Game`** is what the arcade expects of a start function: one party or more,
each counted once.  **`Mastermind`**, **`Pendu`** and **`Morpion`** are the
three games, one action per kind of input line; the first two implement `Game`.
`Morpion` does not: a wasted turn can end a party without a result.  A stray
write of `maj_plateau()` may do nothing that matters or anything
(`phase = "undefined"`).

**`GameLoader`** is the life of the games from `main()`'s options to its exit:
the options, the compiled games, the scan of the directory with the libraries
that fail to open, to name themselves, to name their function or to export it,
the calls of the arcade, and the release.  `debug` tells the build that has
assertions from the one that has none.

**`FileRecord`** is the record as a text file.  A file is the sequence of what
`fgets` returns, and a line is what the code can tell of it: `+` or not, its
first word, the flags, the name before a colon and the numbers after.
`__get_joueur_from_name()` is a loop of `next_record()`, so that `Seek`,
`NameLine`, `Pass`, `Extract`, `ReadScore` and `LastScore` are one turn of a
loop each; a scan may fail to open its file, and a variable no read has reached
is any value (`Undefined`).  A map with a name that is too long aborts, as in
`Arcade`.  `Fits` and `WellFormed` translate the header of
`src/record_file.txt`, which documents the format; they are used by properties
only.  **`RecordSpec`** is the record without a file: asked for a name it answers
with what its content has, under an id no other answer had, and it is open only
between a question and its answer.

**`CVector`** has the vectors, the list of strings and the array of the caller
over one heap of values.  A place is a block or the NULL that a failed copy
left; `malloc` fails, or returns a block that is free (which one does not
matter: no pointer outlives its block, which is what `OneOwner` says, so that
the choice is fixed).  Calls are one step, except `cvector_bubble_sort()`, which
is one comparison a step with its locals in `job`.  What an assertion stops in
one build and undefined behaviour follows in the other is `fate`, and `debug`
tells the build.  **`VectorSpec`** has sequences of values that keep their
identity: growth is not seen, a sort is one step and stable, a copy is whole or
a prefix.

**`Players`** is the list and the vector of players over the serialisation of
`adapter_ccontainer_joueur.c`.  Each conversion copies a name and a map and may
fail at any allocation; `mem` counts the names, the maps and the data that are
allocated, `faults` the allocations that failed.  The conversion of a list to a
vector is one player a step (`ConvertOne`).  **`PlayersSpec`** is a queue and a
vector of players that hold whole copies as long as no allocation failed, and
afterwards a subsequence of them.

Operators whose comment says *faulty variant* belong to no specification: each
is a plausible mistake in one definition, and substituting it makes the run
that has the property fail.  They show that the properties can fail.

## The runs

| Run | Module, configuration | What it shows | Bounds |
|---|---|---|---|
| `arcade` | `MCArcade`, `MCArcade.cfg` | scores, identity and heap of a session | 2 recorded players, 1 new one, 1 overlong line, 5 menus, 3 parties, 2 refusals, counters modulo 3 so that they wrap |
| `clist` | `MCCList`, `MCCList.cfg` | the list is a sequence, and memory safe | 4 addresses, 2 lists, 3 values with 2 keys |
| `mastermind` | `Mastermind`, `MCMastermind.cfg` | answers, end of the party, count | 3 pieces, 3 colours, 2 attempts, 2 parties |
| `pendu` | `MCPendu`, `MCPendu.cfg` | letters, turns, result | words of 3 and 4 letters, 12 lines, 3 turns, 1 turn of overdraft |
| `morpion` | `Morpion`, `MCMorpion.cfg` | alternation, result | none: the whole board |
| `loader` | `MCGameLoader`, `MCGameLoader.cfg` | menu, handles, release | every subset of 6 libraries in every order, a table of 4 handles, 2 options, 2 calls |
| `record` | `MCFileRecord`, `MCFileRecord.cfg` | the answer of a lookup, streams, ids | every file of up to 3 lines out of 7, and 4 longer ones; 4 names, 2 lookups |
| `vector` | `MCCVector`, `MCCVector.cfg` | owners of the values, the sort | 2 vectors, 3 blocks, 2 keys, capacity 3, a list of 2 |
| `players` | `MCPlayers`, `MCPlayers.cfg` | deep copies, failed allocations | 2 players with 0 and 2 games, 3 values, 2 failures |

Why these bounds are enough.  In `arcade` three parties let a game be played
twice with another between, the menus have each kind of odd plugin, and the
counters wrap.  In `clist` four addresses give a list of three nodes and a copy
that fails, or a list of two and its copy, and every stale address is
recycled.  In `mastermind` three pieces of three colours have every pattern of
repetition that the modulo search can meet between neighbours and around the
end.  In `loader` the table is smaller than the set of libraries that open, so
that both builds overflow it.  In `record` three lines have every pair of
neighbours (two separators, a separator at the end, a blank line after one), and
the longer files have what needs more: a header, a name that starts another
one, a player and a game that come twice, two lookups that share no line.  In
`vector` three values of two keys are the least with equal ones out of order in
both directions, and three blocks let a copy succeed, fail in the middle or find
nothing.  In `players` two failures cover a failure in the error path of the
first.

`vector` splits the operations into four `Profiles`, each with construction,
clearing and destruction: a sort shares a behaviour with pushes and copies,
growth with copies and swaps, arrays with growth, and the list is alone with
transfers.  The proofs (below) have no such restriction.

`clist` hides the last reply from the fingerprint (`VIEW`), which no operation
reads, and uses the symmetry of addresses and of lists; its only temporal
property is a safety one, for which both are sound.

Three runs end in a violation, each of one property that states what a comment
or a message of the program says:

| Run | Property | The program |
|---|---|---|
| `arcade_draws` | `DrawsCounted` | the draws of a result are not added to the player's scores (`arcade.c:181`) |
| `mastermind_attempts` | `AtMostMaxTentative` | an eleventh guess of ten (`game_mastermind.c:180`) |
| `record_draws` | `DrawsOptional` | a line without its optional draws takes those of the line before (`file_record.c:266`) |

Some hazards end a behaviour of the models and have no property, because
nothing in the repository says what should happen instead: a plugin without its function is
called (`arcade.c:154`), a game name of 20 characters aborts the debug build
after the party (`map_game_score.c:57`), Mastermind asks for ever at the end of the input
(`game_mastermind.c:159`, which `PartyEnds` excepts).  The stale `prev_node` of `pop_front` and
`push_front` is read by `remove_node` only, and `ProfileAssumption` states that
the program does not use them together.

Other oddities of the code are in the models as they are, without a run of
their own: `push_front` does not link the old first node back
(`clist_generic.c:148`); a wrong word takes the turns of Pendu below zero
(`game_pendu.c:131`); a symbol typed as a square uses a turn of Morpion
(`game_morpion.c:222`); a debug build aborts on the library after the last place
of the table (`plugin_manager.c:199`); a failed `opendir()` is read
(`utils_file.c:84`); a vector whose array cannot be allocated is used with
members nobody set (`cvector_generic.c:24`); `cvector_cstring_get_array()`
returns OK with a NULL array (`cvector_cstring.c:114`), and writes each string
without looking at its allocation; `duplicater_value_cstring()` sets an error
and never OK (`value_cstring.c:48`); the generic conversion of an empty list of
players writes through NULL (`adapter_ccontainer_joueur.c:158`); a pop whose
conversion fails removes a player and leaves `len` (`list_joueur.c:74`);
`list_joueur_new()` looks at its pointer after it was used (`list_joueur.c:14`).

Fairness.  `Mastermind` assumes that valid codes keep coming between rejected
lines, and concludes that the party ends or the input does.  `Pendu` assumes
only that some line, or the end of the file, comes: at end of file the buffer
is played again, and the party still ends, unless the words of the last line
overdraw it.  `Morpion` assumes that the player types a free square in the end
and that `rand()` draws one.  `FileRecord` and `CVector` assume weak fairness of
the loops that a call is in (`Scan`, `Sorting`): the program is sequential, and
a loop whose turn is enabled takes it.  Nothing makes anybody call.  The other
specifications have no fairness: their loops wait for a person.

`CHECK_DEADLOCK FALSE` is set where a party or a behaviour has an end.

## The proofs

`ArcadeProofs` proves, for every set of games, players and records, every menu,
every width of the counters and any bounds, that a session of the arcade has
all the invariants its run checks, and implements `ScoreLedger`.  It uses
`CounterAssumption` and `SessionAssumption` only, which TLC evaluates on the
small instance.

The argument.  `ScoreConservation` is not inductive: a step of `GameReturns`
inserts into a list, and what a lookup returns after it depends on the list
having one pair per game.  `IInv` therefore has the types, the uniqueness of
the keys, the agreement of `phase` with the player (who he is, what he owns)
and with the game being played (it has a function), and conservation itself.
Its lemmas are about the operators: a search in a list without duplicates finds
the only pair there is (`FindOnly`), what insertion
returns for the key inserted and for the others, and that unsigned addition is
associative also when it wraps, which is what makes adding results one by one
the same as adding their sum.  Each action then preserves each part of `IInv`.
The refinement follows from `IInv` step by step: a game that returns is one
`Credit`, and everything else is `Open`, `Close` or a stutter.

`GameLoaderProofs` proves the five invariants of the loader's run for every set
of libraries, every content and order of the directory, every length of the
table of handles, any number of `-d` options, and both builds.  It uses
`LoaderAssumption`, of which the finiteness of `Files` is needed to count the
names that are lost.  Its `IInv` adds to the invariants the stages of `main()`
(`Life`), that a library in the table is not read again (`HandlesWereRead`,
without which the table could repeat a handle), the allocations of every stage
(`Allocated`), and the menu in the middle of the scan (`MenuSoFar`): the
compiled games, then a bijection between the other entries and the plugins
read so far, which each `LoadGame` extends by one.  `MenuIsComplete` is
`MenuSoFar` once nothing is left to read, and says of each choice that it calls the
first entry of its name (`ChoicesFound`), a compiled game where there is one.

`FileRecordProofs` proves that the record of any file, of any length, answers
rightly (`AnswersWritten`), closes its stream (`StreamsClosed`) and implements
`RecordSpec` (`RecordImplemented`).  `AnswerIsWritten` speaks of the end of a
call, so that it is not inductive; `Progress` says where a scan is: no player
above the position has the name asked for, the line under the position is a
player's when the phase is `"name"`, and in the phase `"scores"` the map has
exactly the games of the lines read so far, each as its last line says.
Only `RecordAssumption` and
`CounterAssumption` are used.

`PartyProofs` and `MastermindProofs` prove that a party is decided rightly and
that Pendu and Mastermind implement `Game`, for any words, lines, sizes and
numbers of turns.  Pendu's invariants are inductive together: that
the counter is the cardinality of the positions found needs that they are
finitely many, and the result needs both.  Mastermind's invariant adds `Attempts`,
which relates the attempts and the victory to the phase.

`PartyProofs` also has Morpion, as the instance `M`.  Morpion has no constants, and its run
visits every state there is; its theorems say why the properties hold instead.
`TurnsAlternate` and `ScoreMatchesBoard` are inductive with `GoesOn`: while a party
goes on there is no line, no result and a free square.  The squares are counted by
symbol, and a turn adds one to the count of one symbol, from which the alternation
follows.  `SquareLeft` is why the loop that draws squares with `rand()` has one to
meet.  `WellPlayed` says how far Morpion is a game as the arcade expects one: a
party in which no turn was wasted implements `Game`.  Without that hypothesis it does
not, since a wasted turn can leave a party without a result.

`MastermindProofs` also proves that `mm_algo_mastermind()` gives the answer of
the rules, for codes of any length over any finite set of colours
(`AnswersRight`).  The invariant of its second loop (`Sound`) says of each
colour that the places taken of it are no more than the pieces of the guess
dealt with, and as many unless all its places are taken (`Matched`).  A turn
keeps it because the distances 1 to `NbPIECE - 1` reach every other place
(`Around`), so that a piece that finds no place means that none is free.  At the
end the places taken of a colour are what the two codes share of it
(`TakenOfColour`), and adding up the colours gives the sum by which
`AnswerIsRight` is stated (`TakenInAll`).

`CListProofs` proves, for any numbers of addresses, lists and values, that the
generic list never touches a freed node (`NeverFreedMemory`), loses none
(`NodesAccounted`), is linked back where that is read (`BackLinked`), and
implements `ListSpec` (`ListImplemented`).  The invariant `Layout` says of each list
that it is a chain, a sequence of addresses without repetition from
`first_node` to NULL, that two chains share nothing, and that together they are
all the allocated nodes.  What the run checks is stated by `Walk`, which follows
a fixed number of links; that a walk along a chain finds the chain
(`WalkAlong`, `ChainIs`) is where the disjointness is needed, since a walk that
entered another list, or a node freed and allocated again, would find something
else.  Every call then appends to, prepends to, beheads or shortens one chain
(`AppendChain`, `PrependChain`, `DropChain`) and leaves the others where they
were (`LocalChange`).  Two assumptions are on the constants: `ListAssumption`, and
`ProfileAssumption`, that `remove_node` is not used with the operations that
leave `prev_node` wrong.  `ListImplemented` has the hypothesis `Debug`: without
assertions `clist_gen_copy()` can lose a value and answer OK, which is no copy.

Induction.  The theorems of the library that have an operator for parameter
cannot be used by the provers, so `Lowest` and `Induction` (a set that holds zero
and the successor of each of its numbers has them all) are proved from the
well-foundedness of the natural numbers, and each induction names its set.  A
recursive function is a `CHOOSE`: it is first shown that a function satisfies
the equations, one value after the other.

`PlayersProofs` proves the balance of the heap of players.  The bound of what
failures lose is inductive with the types and with `Converts` (a conversion has a
list and a vector); the lemmas say how much each outcome of a copy allocates for
how many failures.  `PlayersImplemented` proves that the list and the vector
of players are the abstract queue of `PlayersSpec`.  It needs one invariant more,
`Told`: as long as nothing failed, the length a caller is told is the number of
players.  A conversion is not seen until it ends: the queue is what the vector
got followed by what the list still has (`Queue`), and its end makes the first
part of it the vector.  A player who could not be copied whole on the way is a
failed call, after which all remain in the same order, or all the others
(`AllRemain`, `OthersRemain`).

`CVectorProofs` proves `OneOwner` for any number of vectors, blocks and places,
and any sequence of calls and failures, between two comparisons of a sort as well.
Its
`IInv` looks at all the owners as one function from seats to sequences of places
(`Seated`) and says, without counting, that each block in use is in one place
(`Sole`).  What each call does to it is one of six things that are lemmas about
any such function: a seat is emptied, filled, appended to, beheaded, permuted, or
moved to another one.  `VectorAssumption` says that the blocks are finitely many,
which is needed to find fresh ones, and that the model values which stand for no
vector and no sort are none of the others.

`VectorImplemented` proves, from `IInv` and `SortInv`, that all of this is the
sequences of values of `VectorSpec`.  `SortInv` is what `cvector_bubble_sort()` has done between two
comparisons: the places hold the values they held at first, equal ones in
the order they had (`EqualKept`), those after `size` are no smaller than any
before them (`LastOnes`), the value at `i` is the biggest of those before it
(`Carried`), and a pass that swapped nothing so far met them in order
(`InOrder`).  It says also why the counters do not wrap: a pass that swapped
had at least two values (`Progress`), so that `size - 1` is not below zero; and why
the end of a sort met no NULL (`Scanned`).  A comparison is a stutter; the
last pass is one stable sort of what there was when the sort started.  That
`EqualKept` survives a swap is where the comparaters have to be strict.

Measures.  That a loop ends is liveness, which TLC checks on small instances
under the fairness above.  The other half of the argument is safety, and is
proved for any constants: each step leaves less of something that cannot shrink
for ever.

| Theorem | What shrinks |
|---|---|
| `PartiesShorten` (Pendu) | `LinesLeft`: the turns left and the places still to find, unless a wrong word overdraws the turns |
| `ScansShorten` (record) | `ScanLeft`: three turns of the loops for each line of the file left to read |
| `SortShortens` (vectors) | the size of the pass, then the places of it still to compare; nothing but the sort happens meanwhile |

What joins the components.  `Arcade` takes its record and its menus as constants,
and assumes things of them (`SessionAssumption`).  The components that provide
them are proved to do so:

| Theorem | What it provides |
|---|---|
| `MapsForArcade` (record) | every map a lookup returns has one pair per game, and no name that would fail an assertion when copied, whatever the file holds |
| `AnswersAgree` (record) | the record is a function of the name: two lookups of one name in one run return the same player, whatever happened before and in between |
| `MenuForArcade` (loader) | the menu is a list of at least the compiled games; no library stands for a compiled game, and an entry whose name no earlier one has is the one called |
| `CallsLanded` (loader) | a choice in the menu never calls into a closed library |

`AnswersAgree` is about any file that is `WellFormed`, lines without draws
included: the two answers have the same name, flags, victories and defeats.  They
have the same draws too in each game whose last line has them (`DrawsWritten`);
where they are not written they are those of another line, which is what the run
`record_draws` shows.  It rests on `AnswerIsWritten`: each answer fits the file
(`IInv`), nothing writes the file (`FileStays`), and what fits one file under one
name is one player (`FitsAgree`).  What `MenuForArcade` says of a choice is part of
`MenuIsComplete`, which the run checks; the other operators are in the proof modules.

Model-checked only: liveness (`PartyEnds`, `CallsReturn`, `SortEnds`), which is
out of the prover's reach.

## Not modelled

Allocation failures outside of the containers and the record, the Windows
branches, everything that is only printed, `clist_gen_find_all` and the
deprecated array of names, which nothing but tests call.  `getopt.c` is
third-party code, compiled on Windows only; the logger writes and is never read.
The release build's behaviour after an assertion that would have failed is
modelled for the table of handles, the vectors and the players only.  The record
is never written: the save that the README of the program announces is not
there, so that nothing survives a session and there is no crash to recover from.
Values of vectors are strings in `CVector`; that a vector of players frees
names and maps is in `Players`.  A session takes the record and the menus as
constants: `FileRecord` and `GameLoader` say what they are, and the three are not
composed in one module, since they share no state once `main()` has started the
arcade except that lookup; what each supposes of the other is a theorem instead
(*What joins the components*, above).

## Plan

Open: `Session`, the lookup of `FileRecord` inside `Arcade` in place of the
constant record, and the menus of `GameLoader` in place of `GameLists`.  The
theorems above are its proof obligations; one module would state them in one place.
