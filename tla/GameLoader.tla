----------------------------- MODULE GameLoader -----------------------------
(***************************************************************************)
(* The life of the games in one run of the program: executables/main.c     *)
(* sets the plugins' directory, the loader enters the compiled games and   *)
(* then those of the shared libraries it finds, in whatever order the      *)
(* directory lists them, the arcade calls them, and main() gives all of it *)
(* back.  The plugin manager (plugin_manager.c) is a singleton that holds  *)
(* the handles of the libraries.                                           *)
(***************************************************************************)
EXTENDS Naturals, Sequences, FiniteSets, Functions

CONSTANTS
    Files,       \* the entries a directory may have
    Libraries,   \* those with the extension of a shared library
    Loadable,    \* the libraries dlopen() accepts
    WithName,    \* those that define name_game_plugin
    WithStart,   \* those that define name_start_fct
    WithFunction,\* those that export the function it names
    GameName,    \* the name each library gives
    DefaultNames,\* default_game_name
    Dirs, DefaultPluginsDir,
    Disks,       \* what the directories may hold
    Absent,      \* the content of a directory that is not there
    NoDir,       \* a NULL directory_path
    Static,      \* the function of a compiled game
    NullFunction,\* a NULL ptr_game_t
    MAX_NB_SHARED_LIB,
    MaxOptions, MaxParties   \* bounds of the model

ASSUME LoaderAssumption ==
    /\ IsFiniteSet(Files) /\ Libraries \subseteq Files /\ Loadable \subseteq Libraries
    /\ WithName \cup WithStart \cup WithFunction \subseteq Files
    /\ DOMAIN GameName = Files
    /\ DefaultNames \in Seq(Range(DefaultNames)) /\ Len(DefaultNames) = 2
    /\ DefaultPluginsDir \in Dirs /\ NoDir \notin Dirs
    /\ Absent \notin SUBSET Files
    /\ Disks \subseteq [Dirs -> (SUBSET Files) \cup {Absent}]
    /\ {Static, NullFunction} \cap Files = {} /\ Static # NullFunction
    /\ MAX_NB_SHARED_LIB \in Nat \ {0}
    /\ MaxOptions \in Nat /\ MaxParties \in Nat

VARIABLES
    debug,      \* the build: asserts are compiled in
    disk,       \* the content of each directory
    phase,      \* where main() is
    plg_dir,    \* options.plg_dir: a directory, on the heap or not
    directory,  \* singleton->directory_path, NoDir when there is no singleton
    handle_dll, \* the used part of the table of handles
    opened,     \* the libraries the dynamic linker holds open
    unread,     \* the files readdir() has still to return
    map_game,   \* the entries of the map: name and function
    heap,       \* live copies of directories, and of names of the loading
    options, parties   \* -d options given, games called       (history)

arguments == <<plg_dir, options>>
manager == <<directory, handle_dll, opened>>
vars == <<debug, disk, phase, arguments, manager, unread, map_game, heap, parties>>

Entry(n, fn) == [name |-> n, fn |-> fn]

Init ==
    /\ debug \in BOOLEAN /\ disk \in Disks
    /\ phase = "options"
    /\ plg_dir = [path |-> DefaultPluginsDir, onHeap |-> FALSE]
    /\ directory = NoDir /\ handle_dll = <<>> /\ opened = {}
    /\ unread = {} /\ map_game = <<>>
    /\ heap = [dirs |-> 0, names |-> 0]
    /\ options = 0 /\ parties = 0

-----------------------------------------------------------------------------
(* main(): options, then the directory of the singleton *)

\* -d: a copy of the argument; the copy of an earlier -d is lost.
OptionDirectory(d) ==
    /\ phase = "options" /\ options < MaxOptions
    /\ options' = options + 1
    /\ plg_dir' = [path |-> d, onHeap |-> TRUE]
    /\ heap' = [heap EXCEPT !.dirs = @ + 1]
    /\ UNCHANGED <<debug, disk, phase, manager, unread, map_game, parties>>

\* -h, or an option getopt() rejects: usage() exits.
OptionHelp ==
    /\ phase = "options"
    /\ phase' = "usage"
    /\ UNCHANGED <<debug, disk, arguments, manager, unread, map_game, heap, parties>>

\* plugin_manager_set_directory(): a copy of the directory; that of a new
\* singleton, ".", is freed.
SetDirectory ==
    /\ directory' = plg_dir.path
    /\ heap' = [heap EXCEPT !.dirs = @ + 1]

\* load_static_game()
StaticGames == [i \in DOMAIN DefaultNames |-> Entry(DefaultNames[i], Static)]

\* plugin_manager_get_instance() makes the singleton; the loader is made and
\* enters the compiled games.
LoadStatic ==
    /\ phase = "options"
    /\ phase' = "shared"
    /\ SetDirectory
    /\ map_game' = StaticGames
    /\ UNCHANGED <<debug, disk, arguments, handle_dll, opened, unread, parties>>

-----------------------------------------------------------------------------
(* load_shared_game(): for_files_with_extension() and load_game_dll() *)

\* A directory that opendir() refuses is logged, and read all the same.
OpenDirectory ==
    /\ phase = "shared"
    /\ IF disk[directory] = Absent
       THEN phase' = "undefined" /\ UNCHANGED unread
       ELSE phase' = "scan" /\ unread' = disk[directory]
    /\ UNCHANGED <<debug, disk, arguments, manager, map_game, heap, parties>>

\* A faulty variant: the loop ends at the first library that fails.
StopAtFailure(f) ==
    IF f \in Loadable \cap WithName \cap WithStart THEN unread \ {f} ELSE {}

\* An error of the callback is logged, and the loop goes on.
GoOn(f) == unread \ {f}

\* Another extension, or a library dlopen() refuses.
SkipFile(f) ==
    /\ phase = "scan" /\ f \in unread \ Loadable
    /\ unread' = GoOn(f)
    /\ UNCHANGED <<debug, disk, phase, arguments, manager, map_game, heap, parties>>

\* A faulty variant: the table is one longer than it is.
TableFullLate == Len(handle_dll) > MAX_NB_SHARED_LIB

\* plugin_manager_load_shared_library() asserts that one slot is left after
\* this one; without asserts the table can be filled.
TableFull ==
    Len(handle_dll) >= IF debug THEN MAX_NB_SHARED_LIB - 1 ELSE MAX_NB_SHARED_LIB

\* The library is open and its handle has no place: the assertion fails, or
\* the handle is written after the end of the table.
Overflow(f) ==
    /\ phase = "scan" /\ f \in unread \cap Loadable /\ TableFull
    /\ phase' = IF debug THEN "aborted" ELSE "undefined"
    /\ opened' = opened \cup {f}
    /\ UNCHANGED <<debug, disk, arguments, directory, handle_dll, unread, map_game, heap, parties>>

\* The handle of f is the last of the table, where the two functions that read
\* the library look for it.
Store(f) == handle_dll' = Append(handle_dll, f) /\ opened' = opened \cup {f}

\* plugin_manager_get_names() misses one of its two variables: the library
\* stays open, and the copy of its name, when it had one, is lost.
NoNames(f) ==
    /\ phase = "scan" /\ f \in unread \cap Loadable /\ ~TableFull
    /\ f \notin WithName \cap WithStart
    /\ Store(f) /\ unread' = GoOn(f)
    /\ heap' = [heap EXCEPT !.names = IF f \in WithName THEN @ + 1 ELSE @]
    /\ UNCHANGED <<debug, disk, phase, arguments, directory, map_game, parties>>

\* plugin_manager_get_game_ptrf()
GamePtrf(f) == IF f \in WithFunction THEN f ELSE NullFunction

\* game_ptrf_insert(), whether the function was found or not, and without a
\* search for the name.
InsertGame(f) == Append(map_game, Entry(GameName[f], GamePtrf(f)))

LoadGame(f) ==
    /\ phase = "scan" /\ f \in unread \cap Loadable /\ ~TableFull
    /\ f \in WithName \cap WithStart
    /\ Store(f) /\ unread' = GoOn(f)
    /\ map_game' = InsertGame(f)
    /\ UNCHANGED <<debug, disk, phase, arguments, directory, heap, parties>>

\* A faulty variant: plg_dir is never freed.
DirKept(h) == h

\* free(options.plg_dir), unless it is the default.
DirFreed(h) == IF plg_dir.onHeap THEN [h EXCEPT !.dirs = @ - 1] ELSE h

\* readdir() has no more entries: load_all() returns 0, and main() starts the
\* arcade.
Loaded ==
    /\ phase = "scan" /\ unread = {}
    /\ phase' = "session"
    /\ heap' = DirFreed(heap)
    /\ UNCHANGED <<debug, disk, arguments, manager, unread, map_game, parties>>

-----------------------------------------------------------------------------
(* The arcade, and the end of main() *)

\* game_loader_get_ptr_game(): the first entry of that name.
PtrGame(n) == map_game[CHOOSE i \in DOMAIN map_game :
                 /\ map_game[i].name = n
                 /\ \A j \in DOMAIN map_game : map_game[j].name = n => i <= j].fn

\* run_game() calls the function it gets, NULL or not.
Call(i) ==
    /\ phase = "session" /\ parties < MaxParties
    /\ parties' = parties + 1
    /\ LET fn == PtrGame(map_game[i].name)
       IN  phase' = IF fn = NullFunction THEN "crashed"
                    ELSE IF fn = Static \/ fn \in opened THEN "session"
                    ELSE "undefined"
    /\ UNCHANGED <<debug, disk, arguments, manager, unread, map_game, heap>>

ArcadeReturns ==
    /\ phase = "session"
    /\ phase' = "freeing"
    /\ UNCHANGED <<debug, disk, arguments, manager, unread, map_game, heap, parties>>

FreeLoader ==
    /\ phase = "freeing"
    /\ phase' = "unloading"
    /\ map_game' = <<>>
    /\ UNCHANGED <<debug, disk, arguments, manager, unread, heap, parties>>

\* A faulty variant: the loop of plugin_manager_clear() misses the last handle.
ClosedButLast == {handle_dll[i] : i \in 1..(Len(handle_dll) - 1)}

\* The libraries plugin_manager_clear() closes.
Closed == Range(handle_dll)

\* A faulty variant: the libraries are closed before the map is freed.
FreePluginsFirst ==
    /\ phase = "freeing" /\ directory # NoDir
    /\ directory' = NoDir /\ handle_dll' = <<>> /\ opened' = opened \ Closed
    /\ heap' = [heap EXCEPT !.dirs = @ - 1]
    /\ UNCHANGED <<debug, disk, phase, arguments, unread, map_game, parties>>

\* plugin_manager_free(), close_clogger(), exit().
FreePlugins ==
    /\ phase = "unloading"
    /\ phase' = "exited"
    /\ directory' = NoDir /\ handle_dll' = <<>> /\ opened' = opened \ Closed
    /\ heap' = [heap EXCEPT !.dirs = @ - 1]
    /\ UNCHANGED <<debug, disk, arguments, unread, map_game, parties>>

Final == {"usage", "exited", "aborted", "crashed", "undefined"}

Ended == phase \in Final /\ UNCHANGED vars

Next ==
    \/ \E d \in Dirs : OptionDirectory(d)
    \/ OptionHelp \/ LoadStatic \/ OpenDirectory
    \/ \E f \in Files : SkipFile(f) \/ Overflow(f) \/ NoNames(f) \/ LoadGame(f)
    \/ Loaded
    \/ \E i \in DOMAIN map_game : Call(i)
    \/ ArcadeReturns \/ FreeLoader \/ FreePlugins
    \/ Ended

Spec == Init /\ [][Next]_vars

-----------------------------------------------------------------------------
(* Properties *)

Phases == {"options", "shared", "scan", "session", "freeing", "unloading"} \cup Final

\* Every variable has its type; the table of handles is never longer than it
\* was allocated.
TypeOK ==
    /\ debug \in BOOLEAN /\ disk \in Disks /\ phase \in Phases
    /\ plg_dir \in [path: Dirs, onHeap: BOOLEAN]
    /\ directory \in Dirs \cup {NoDir}
    /\ handle_dll \in Seq(Loadable) /\ Len(handle_dll) <= MAX_NB_SHARED_LIB
    /\ opened \subseteq Loadable /\ unread \subseteq Files
    /\ map_game \in Seq([name: Range(GameName) \cup Range(DefaultNames),
                         fn: Files \cup {Static, NullFunction}])
    /\ heap \in [dirs: Nat, names: Nat]
    /\ options \in 0..MaxOptions /\ parties \in 0..MaxParties

Plugins == {f \in disk[directory] : f \in Loadable \cap WithName \cap WithStart}

\* The entries a choice calls: those whose name no earlier one has, the compiled
\* games among them.
ChosenIsCalled ==
    /\ \A i \in DOMAIN DefaultNames : PtrGame(DefaultNames[i]) = Static
    /\ \A i \in DOMAIN map_game :
        (\A j \in DOMAIN map_game : map_game[j].name = map_game[i].name => i <= j)
            => PtrGame(map_game[i].name) = map_game[i].fn

\* The menu has the compiled games first and then one entry for each plugin of
\* the directory that says its name and its function, in whatever order the
\* directory is read and whatever the other files do: a library that fails
\* neither stops the scan nor takes a good one's place, nor does the function
\* of a game come from another library than its name, which are both read from
\* "the last inserted" handle; and a choice calls the game of its entry unless an
\* earlier one has the name, which no library is to a compiled game
\* (game_loader.c:92-98, 146-178, utils_file.c:88-108).
MenuIsComplete ==
    phase = "session" =>
        LET k == Len(DefaultNames)
            shared == [i \in 1..(Len(map_game) - k) |-> map_game[i + k]]
        IN  /\ \A i \in 1..k : map_game[i] = Entry(DefaultNames[i], Static)
            /\ \E from \in Bijection(DOMAIN shared, Plugins) :
                 \A i \in DOMAIN shared :
                   /\ shared[i].name = GameName[from[i]]
                   /\ shared[i].fn = IF from[i] \in WithFunction THEN from[i] ELSE NullFunction
            /\ ChosenIsCalled

\* No entry of the map points into a library that was closed, "the handles
\* must stay opened all the time" (plugin_manager.h): the map is freed before
\* the libraries are (main.c:194-203).
PluginsStayOpen ==
    \A i \in DOMAIN map_game : map_game[i].fn \in opened \cup {Static, NullFunction}

\* The table of handles is what the dynamic linker holds open, each library
\* once, so that every library is closed once when the program exits; only the
\* library that found the table full is not in it
\* (plugin_manager.c:89-108, 187-201).
HandlesAreOpen ==
    /\ phase \notin {"aborted", "undefined"} => opened = Range(handle_dll)
    /\ IsInjective(handle_dll)
    /\ phase \in {"exited", "usage"} => opened = {}

\* What a run leaves allocated when it exits: the copies of the directories of
\* all -d options but the last, and the name of every library that gave one and
\* no function name (main.c:112-115, 159-165, game_loader.c:163-166).
HeapAtExit ==
    phase = "exited" =>
        /\ heap.dirs = IF options = 0 THEN 0 ELSE options - 1
        /\ heap.names = Cardinality((disk[plg_dir.path] \cap Loadable \cap WithName) \ WithStart)
=============================================================================
