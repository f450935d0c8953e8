-------------------------- MODULE GameLoaderProofs --------------------------
(***************************************************************************)
(* Proofs about the loading of the games, for every set of libraries, in   *)
(* every order, for every length of the table of handles, and both builds. *)
(***************************************************************************)
EXTENDS GameLoader, FiniteSetTheorems, TLAPS

-----------------------------------------------------------------------------
(* The inductive invariant *)

\* What main() has made so far, and what it has given back.
Life ==
    /\ phase \in {"options", "usage"} => directory = NoDir /\ map_game = <<>>
    /\ phase \in {"options", "usage", "shared"} =>
          handle_dll = <<>> /\ opened = {} /\ unread = {}
    /\ phase = "shared" => map_game = StaticGames
    /\ phase \in {"shared", "scan", "session", "freeing", "unloading"} =>
          directory = plg_dir.path
    /\ phase \in {"scan", "session", "freeing", "unloading", "exited"} =>
          disk[plg_dir.path] \in SUBSET Files
    /\ phase = "scan" => unread \subseteq disk[plg_dir.path]
    /\ phase \in {"session", "freeing", "unloading", "exited"} => unread = {}
    /\ phase \in {"unloading", "exited"} => map_game = <<>>

\* A library in the table of handles was read from the directory.
HandlesWereRead == phase = "scan" => \A i \in DOMAIN handle_dll : handle_dll[i] \notin unread

\* The libraries whose name was copied and never freed.
Nameless == ((disk[plg_dir.path] \ unread) \cap Loadable \cap WithName) \ WithStart

Superseded == IF options = 0 THEN 0 ELSE options - 1

\* What is allocated at each stage.
Allocated ==
    /\ plg_dir.onHeap <=> options # 0
    /\ phase = "options" => heap.dirs = options
    /\ phase \in {"shared", "scan"} => heap.dirs = options + 1
    /\ phase \in {"session", "freeing", "unloading"} => heap.dirs = Superseded + 1
    /\ phase = "exited" => heap.dirs = Superseded
    /\ phase \in {"options", "shared"} => heap.names = 0
    /\ phase \in {"scan", "session", "freeing", "unloading", "exited"} =>
          heap.names = Cardinality(Nameless)

\* The entry of the map that a plugin gives.
EntryOf(f) == Entry(GameName[f], GamePtrf(f))

\* The menu in the middle of the scan: the compiled games, then one entry for
\* each plugin read.
MenuSoFar ==
    phase \in {"scan", "session"} =>
        /\ Len(map_game) >= 2
        /\ \A i \in 1..2 : map_game[i] = StaticGames[i]
        /\ \E from \in Bijection(1..(Len(map_game) - 2), Plugins \ unread) :
              \A i \in 1..(Len(map_game) - 2) : map_game[i + 2] = EntryOf(from[i])

IInv ==
    /\ TypeOK /\ Life /\ HandlesWereRead /\ HandlesAreOpen /\ PluginsStayOpen
    /\ Allocated /\ MenuSoFar

-----------------------------------------------------------------------------
(* Lemmas about the operators *)

\* The type of one entry of the map.
MapEntry == [name: Range(GameName) \cup Range(DefaultNames),
             fn: Files \cup {Static, NullFunction}]

\* A handle put in the table is its last element; the others stay.
LEMMA StoreTable ==
    ASSUME NEW f, NEW S, handle_dll \in Seq(S), f \in S, Store(f)
    PROVE  /\ handle_dll' \in Seq(S) /\ Len(handle_dll') = Len(handle_dll) + 1
           /\ DOMAIN handle_dll = 1..Len(handle_dll)
           /\ DOMAIN handle_dll' = 1..(Len(handle_dll) + 1)
           /\ \A i \in 1..Len(handle_dll) : handle_dll'[i] = handle_dll[i]
           /\ handle_dll'[Len(handle_dll) + 1] = f
           /\ Range(handle_dll') = Range(handle_dll) \cup {f}
<1>1. handle_dll' = Append(handle_dll, f)
  BY DEF Store
<1>2. /\ handle_dll' \in Seq(S) /\ Len(handle_dll') = Len(handle_dll) + 1
      /\ DOMAIN handle_dll = 1..Len(handle_dll)
      /\ DOMAIN handle_dll' = 1..(Len(handle_dll) + 1)
      /\ \A i \in 1..Len(handle_dll) : handle_dll'[i] = handle_dll[i]
      /\ handle_dll'[Len(handle_dll) + 1] = f
  BY <1>1
<1>3. Len(handle_dll) \in Nat
  OBVIOUS
<1>4. Range(handle_dll') = Range(handle_dll) \cup {f}
  BY <1>2, <1>3 DEF Range
<1> QED
  BY <1>2, <1>4

\* The compiled games are entries of the map.
LEMMA StaticType ==
    /\ StaticGames \in Seq(MapEntry) /\ Len(StaticGames) = 2
    /\ \A i \in 1..2 : StaticGames[i].fn = Static
<1>1. DOMAIN DefaultNames = 1..2
  BY LoaderAssumption
<1>2. \A i \in 1..2 : DefaultNames[i] \in Range(DefaultNames)
  BY <1>1 DEF Range
<1>3. StaticGames = [i \in 1..2 |-> Entry(DefaultNames[i], Static)]
  BY <1>1 DEF StaticGames
<1>4. \A i \in 1..2 : Entry(DefaultNames[i], Static) \in MapEntry
  BY <1>2 DEF Entry, MapEntry
<1> QED
  BY <1>3, <1>4 DEF Entry

\* So is what a plugin gives.
LEMMA EntryType ==
    ASSUME NEW f \in Files
    PROVE  /\ EntryOf(f) \in MapEntry
           /\ EntryOf(f).fn \in {f, NullFunction}
<1>1. GameName[f] \in Range(GameName)
  BY LoaderAssumption DEF Range
<1> QED
  BY <1>1 DEF EntryOf, Entry, GamePtrf, MapEntry

\* The program starts in the invariant.
LEMMA InitIInv == Init => IInv
<1> SUFFICES ASSUME Init PROVE IInv
  OBVIOUS
<1>1. TypeOK
  BY LoaderAssumption DEF Init, TypeOK, Phases, Final
<1>2. Life /\ HandlesWereRead /\ PluginsStayOpen /\ Allocated /\ MenuSoFar
  BY DEF Init, Life, HandlesWereRead, PluginsStayOpen, Allocated, MenuSoFar
<1>3. HandlesAreOpen
  BY DEF Init, HandlesAreOpen, IsInjective, Range
<1> QED
  BY <1>1, <1>2, <1>3 DEF IInv

\* No step breaks the types, nor overfills the table of handles.
LEMMA TypeStep == IInv /\ [Next]_vars => TypeOK'
<1> SUFFICES ASSUME IInv, [Next]_vars PROVE TypeOK'
  OBVIOUS
<1> USE DEF IInv, TypeOK, Phases, Final, arguments, manager
<1>1. ASSUME NEW d \in Dirs, OptionDirectory(d) PROVE TypeOK'
  <2>1. options + 1 \in 0..MaxOptions /\ heap' \in [dirs: Nat, names: Nat]
    BY <1>1, LoaderAssumption, SMTT(20) DEF OptionDirectory
  <2> QED
    BY <1>1, <2>1 DEF OptionDirectory
<1>2. CASE OptionHelp
  BY <1>2 DEF OptionHelp
<1>3. CASE LoadStatic
  BY <1>3, StaticType, SMTT(20) DEF LoadStatic, SetDirectory, MapEntry
<1>4. CASE OpenDirectory
  <2>1. directory \in Dirs
    BY <1>4 DEF OpenDirectory, Life
  <2>2. disk[directory] \in (SUBSET Files) \cup {Absent}
    BY <2>1, LoaderAssumption
  <2>3. unread' \in SUBSET Files
    BY <1>4, <2>2 DEF OpenDirectory
  <2> QED
    BY <1>4, <2>3 DEF OpenDirectory
<1>5. ASSUME NEW f \in Files, SkipFile(f) PROVE TypeOK'
  BY <1>5 DEF SkipFile, GoOn
<1>6. ASSUME NEW f \in Files, Overflow(f) PROVE TypeOK'
  BY <1>6 DEF Overflow
<1>7. ASSUME NEW f \in Files, f \in Loadable, ~TableFull, Store(f)
      PROVE  /\ handle_dll' \in Seq(Loadable) /\ Len(handle_dll') <= MAX_NB_SHARED_LIB
             /\ opened' \subseteq Loadable
  <2>1. Len(handle_dll) + 1 <= MAX_NB_SHARED_LIB
    BY <1>7, LoaderAssumption DEF TableFull
  <2> QED
    BY <1>7, <2>1, StoreTable DEF Store
<1>8. ASSUME NEW f \in Files, NoNames(f) PROVE TypeOK'
  <2>1. heap' \in [dirs: Nat, names: Nat]
    BY <1>8 DEF NoNames
  <2> QED
    BY <1>7, <1>8, <2>1 DEF NoNames, GoOn
<1>9. ASSUME NEW f \in Files, LoadGame(f) PROVE TypeOK'
  <2>1. map_game' = Append(map_game, EntryOf(f))
    BY <1>9 DEF LoadGame, InsertGame, EntryOf
  <2>2. map_game' \in Seq(MapEntry)
    BY <2>1, EntryType DEF MapEntry
  <2> QED
    BY <1>7, <1>9, <2>2 DEF LoadGame, GoOn, MapEntry
<1>10. CASE Loaded
  <2>1. heap' \in [dirs: Nat, names: Nat]
    BY <1>10 DEF Loaded, DirFreed, Allocated
  <2> QED
    BY <1>10, <2>1 DEF Loaded
<1>11. ASSUME NEW i \in DOMAIN map_game, Call(i) PROVE TypeOK'
  BY <1>11, LoaderAssumption DEF Call
<1>12. CASE ArcadeReturns
  BY <1>12 DEF ArcadeReturns
<1>13. CASE FreeLoader
  BY <1>13 DEF FreeLoader
<1>14. CASE FreePlugins
  <2>1. heap' \in [dirs: Nat, names: Nat]
    BY <1>14 DEF FreePlugins, Allocated, Superseded
  <2> QED
    BY <1>14, <2>1, LoaderAssumption DEF FreePlugins
<1>15. CASE UNCHANGED vars
  BY <1>15 DEF vars
<1> QED
  BY <1>1, <1>2, <1>3, <1>4, <1>5, <1>6, <1>8, <1>9, <1>10, <1>11, <1>12, <1>13,
     <1>14, <1>15 DEF Next, Ended

\* No step breaks the order in which main() makes and releases things.
LEMMA LifeStep == IInv /\ [Next]_vars => Life'
<1> SUFFICES ASSUME IInv, [Next]_vars PROVE Life'
  OBVIOUS
<1> USE DEF IInv, Life, Phases, Final, arguments, manager
<1>1. ASSUME NEW d \in Dirs, OptionDirectory(d) PROVE Life'
  BY <1>1 DEF OptionDirectory
<1>2. CASE OptionHelp
  BY <1>2 DEF OptionHelp
<1>3. CASE LoadStatic
  BY <1>3 DEF LoadStatic, SetDirectory, StaticGames
<1>4. CASE OpenDirectory
  <2>1. directory \in Dirs
    BY <1>4, LoaderAssumption DEF OpenDirectory, TypeOK
  <2>2. disk[directory] \in (SUBSET Files) \cup {Absent}
    BY <2>1, LoaderAssumption DEF TypeOK
  <2> QED
    BY <1>4, <2>2 DEF OpenDirectory
<1>5. ASSUME NEW f \in Files, SkipFile(f) PROVE Life'
  BY <1>5 DEF SkipFile, GoOn
<1>6. ASSUME NEW f \in Files, Overflow(f) PROVE Life'
  BY <1>6 DEF Overflow
<1>7. ASSUME NEW f \in Files, NoNames(f) PROVE Life'
  BY <1>7 DEF NoNames, GoOn
<1>8. ASSUME NEW f \in Files, LoadGame(f) PROVE Life'
  BY <1>8 DEF LoadGame, GoOn
<1>9. CASE Loaded
  BY <1>9 DEF Loaded
<1>10. ASSUME NEW i \in DOMAIN map_game, Call(i) PROVE Life'
  BY <1>10 DEF Call
<1>11. CASE ArcadeReturns
  BY <1>11 DEF ArcadeReturns
<1>12. CASE FreeLoader
  BY <1>12 DEF FreeLoader
<1>13. CASE FreePlugins
  BY <1>13 DEF FreePlugins
<1>14. CASE UNCHANGED vars
  BY <1>14 DEF vars, StaticGames
<1> QED
  BY <1>1, <1>2, <1>3, <1>4, <1>5, <1>6, <1>7, <1>8, <1>9, <1>10, <1>11, <1>12,
     <1>13, <1>14 DEF Next, Ended

\* A library put in the table is open, is there once, and is not read again.
LEMMA StoreHandle ==
    ASSUME IInv, NEW f \in unread, f \in Loadable, phase = "scan",
           Store(f), unread' = GoOn(f), phase' = "scan"
    PROVE  (HandlesWereRead /\ HandlesAreOpen)'
<1> USE DEF IInv, TypeOK
<1>1. /\ DOMAIN handle_dll = 1..Len(handle_dll)
      /\ DOMAIN handle_dll' = 1..(Len(handle_dll) + 1)
      /\ \A i \in 1..Len(handle_dll) : handle_dll'[i] = handle_dll[i]
      /\ handle_dll'[Len(handle_dll) + 1] = f
      /\ Range(handle_dll') = Range(handle_dll) \cup {f}
  BY StoreTable
<1>2. Len(handle_dll) \in Nat
  OBVIOUS
<1>3. \A i \in 1..Len(handle_dll) : handle_dll[i] \notin unread
  BY <1>1 DEF HandlesWereRead
<1>4. HandlesWereRead'
  BY <1>1, <1>2, <1>3 DEF HandlesWereRead, GoOn
<1>5. IsInjective(handle_dll')
  BY <1>1, <1>2, <1>3 DEF HandlesAreOpen, IsInjective
<1>6. opened' = Range(handle_dll')
  BY <1>1 DEF HandlesAreOpen, Store
<1> QED
  BY <1>4, <1>5, <1>6 DEF HandlesAreOpen

\* No step parts the table of handles from what is open.
LEMMA HandleStep == IInv /\ [Next]_vars => (HandlesWereRead /\ HandlesAreOpen)'
<1> SUFFICES ASSUME IInv, [Next]_vars PROVE (HandlesWereRead /\ HandlesAreOpen)'
  OBVIOUS
<1> USE DEF IInv, arguments, manager
<1>1. ASSUME handle_dll' = handle_dll, opened' = opened, unread' \subseteq unread,
             phase' = "scan" => phase = "scan",
             phase \in {"aborted", "undefined"} => phase' = phase,
             phase' \in {"exited", "usage"} => opened = {}
      PROVE  (HandlesWereRead /\ HandlesAreOpen)'
  BY <1>1 DEF HandlesWereRead, HandlesAreOpen
<1>2. ASSUME NEW d \in Dirs, OptionDirectory(d)
      PROVE  (HandlesWereRead /\ HandlesAreOpen)'
  BY <1>1, <1>2 DEF OptionDirectory
<1>3. CASE OptionHelp
  BY <1>1, <1>3 DEF OptionHelp, Life
<1>4. CASE LoadStatic
  BY <1>1, <1>4 DEF LoadStatic, SetDirectory
<1>5. CASE OpenDirectory
  BY <1>5 DEF OpenDirectory, Life, HandlesWereRead, HandlesAreOpen
<1>6. ASSUME NEW f \in Files, SkipFile(f)
      PROVE  (HandlesWereRead /\ HandlesAreOpen)'
  BY <1>1, <1>6 DEF SkipFile, GoOn
<1>7. ASSUME NEW f \in Files, Overflow(f)
      PROVE  (HandlesWereRead /\ HandlesAreOpen)'
  BY <1>7 DEF Overflow, HandlesWereRead, HandlesAreOpen
<1>8. ASSUME NEW f \in Files, NoNames(f) \/ LoadGame(f)
      PROVE  (HandlesWereRead /\ HandlesAreOpen)'
  BY <1>8, StoreHandle DEF NoNames, LoadGame
<1>9. CASE Loaded
  BY <1>1, <1>9 DEF Loaded
<1>10. ASSUME NEW i \in DOMAIN map_game, Call(i)
       PROVE  (HandlesWereRead /\ HandlesAreOpen)'
  BY <1>10 DEF Call, HandlesWereRead, HandlesAreOpen
<1>11. CASE ArcadeReturns \/ FreeLoader
  BY <1>1, <1>11 DEF ArcadeReturns, FreeLoader
<1>12. CASE FreePlugins
  <2>1. handle_dll' = <<>> /\ opened' = {} /\ phase' = "exited"
    BY <1>12 DEF FreePlugins, Closed, HandlesAreOpen
  <2> QED
    BY <2>1 DEF HandlesWereRead, HandlesAreOpen, IsInjective, Range
<1>13. CASE UNCHANGED vars
  BY <1>13 DEF vars, HandlesWereRead, HandlesAreOpen
<1> QED
  BY <1>2, <1>3, <1>4, <1>5, <1>6, <1>7, <1>8, <1>9, <1>10, <1>11, <1>12, <1>13
     DEF Next, Ended

\* No step closes a library that an entry of the map points into.
LEMMA PluginStep == IInv /\ [Next]_vars => PluginsStayOpen'
<1> SUFFICES ASSUME IInv, [Next]_vars PROVE PluginsStayOpen'
  OBVIOUS
<1> USE DEF IInv, PluginsStayOpen, arguments, manager
<1>1. ASSUME map_game' = map_game, opened \subseteq opened' PROVE PluginsStayOpen'
  BY <1>1
<1>2. CASE \/ \E d \in Dirs : OptionDirectory(d)
           \/ OptionHelp \/ OpenDirectory \/ Loaded \/ ArcadeReturns
           \/ \E i \in DOMAIN map_game : Call(i)
           \/ \E f \in Files : SkipFile(f)
           \/ UNCHANGED vars
  BY <1>1, <1>2 DEF OptionDirectory, OptionHelp, OpenDirectory, Loaded, ArcadeReturns,
                    Call, SkipFile, vars
<1>3. CASE LoadStatic
  <2>1. DOMAIN StaticGames = 1..2
    BY StaticType
  <2> QED
    BY <1>3, <2>1, StaticType DEF LoadStatic
<1>4. CASE \E f \in Files : Overflow(f) \/ NoNames(f)
  BY <1>1, <1>4 DEF Overflow, NoNames, Store
<1>5. ASSUME NEW f \in Files, LoadGame(f) PROVE PluginsStayOpen'
  <2>1. map_game' = Append(map_game, EntryOf(f)) /\ opened' = opened \cup {f}
    BY <1>5 DEF LoadGame, InsertGame, EntryOf, Store
  <2>2. map_game \in Seq(MapEntry) /\ Len(map_game) \in Nat
    BY DEF TypeOK, MapEntry
  <2>3. /\ DOMAIN map_game = 1..Len(map_game)
        /\ DOMAIN map_game' = 1..(Len(map_game) + 1)
        /\ \A i \in 1..Len(map_game) : map_game'[i] = map_game[i]
        /\ map_game'[Len(map_game) + 1] = EntryOf(f)
    BY <2>1, <2>2
  <2> QED
    BY <2>1, <2>2, <2>3, EntryType
<1>6. CASE FreeLoader \/ FreePlugins
  BY <1>6 DEF FreeLoader, FreePlugins, Life
<1> QED
  BY <1>2, <1>3, <1>4, <1>5, <1>6 DEF Next, Ended

-----------------------------------------------------------------------------
(* What is allocated *)

\* Reading one library that names itself but not its function loses one name.
LEMMA OneMoreName ==
    ASSUME IInv, NEW f \in unread, phase = "scan",
           unread' = GoOn(f), UNCHANGED <<disk, plg_dir>>
    PROVE  Cardinality(Nameless') =
              Cardinality(Nameless) +
                (IF f \in (Loadable \cap WithName) \ WithStart THEN 1 ELSE 0)
<1> USE DEF IInv
<1>1. f \in disk[plg_dir.path] /\ disk[plg_dir.path] \in SUBSET Files
  BY DEF Life
<1>2. Nameless \in SUBSET Files
  BY <1>1 DEF Nameless
<1>3. IsFiniteSet(Nameless)
  BY <1>2, FS_Subset, LoaderAssumption
<1>4. f \notin Nameless
  BY DEF Nameless
<1>5. CASE f \in (Loadable \cap WithName) \ WithStart
  <2>1. Nameless' = Nameless \cup {f}
    BY <1>1, <1>5 DEF Nameless, GoOn
  <2>2. Cardinality(Nameless \cup {f}) = Cardinality(Nameless) + 1
    BY <1>3, <1>4, FS_AddElement
  <2> QED
    BY <1>5, <2>1, <2>2
<1>6. CASE f \notin (Loadable \cap WithName) \ WithStart
  <2>1. Nameless' = Nameless
    BY <1>6 DEF Nameless, GoOn
  <2>2. Cardinality(Nameless) \in Nat
    BY <1>3, FS_CardinalityType
  <2> QED
    BY <1>6, <2>1, <2>2
<1> QED
  BY <1>5, <1>6

\* The number of -d options that replaced an earlier one.
LEMMA SupersededType == TypeOK => Superseded \in Nat
  BY LoaderAssumption DEF TypeOK, Superseded

\* No step loses count of what is allocated.
LEMMA AllocatedStep == IInv /\ [Next]_vars => Allocated'
<1> SUFFICES ASSUME IInv, [Next]_vars PROVE Allocated'
  OBVIOUS
<1> USE DEF IInv, arguments, manager
<1>0. /\ heap \in [dirs: Nat, names: Nat] /\ options \in Nat
      /\ plg_dir \in [path: Dirs, onHeap: BOOLEAN]
  BY LoaderAssumption DEF TypeOK
<1>1. ASSUME UNCHANGED <<heap, disk, plg_dir, options, unread>>,
             \/ phase' = phase
             \/ phase' \in {"aborted", "crashed", "undefined", "usage"}
             \/ {phase, phase'} \subseteq {"session", "freeing", "unloading"}
      PROVE  Allocated'
  <2>1. Nameless' = Nameless /\ Superseded' = Superseded
    BY <1>1 DEF Nameless, Superseded
  <2> QED
    BY <1>1, <2>1 DEF Allocated
<1>2. ASSUME NEW d \in Dirs, OptionDirectory(d) PROVE Allocated'
  <2>1. /\ phase' = "options" /\ options' = options + 1 /\ plg_dir'.onHeap = TRUE
        /\ heap'.dirs = heap.dirs + 1 /\ heap'.names = heap.names
    BY <1>0, <1>2 DEF OptionDirectory
  <2> QED
    BY <1>0, <1>2, <2>1 DEF Allocated, OptionDirectory
<1>3. CASE OptionHelp \/ ArcadeReturns \/ FreeLoader
  BY <1>1, <1>3 DEF OptionHelp, ArcadeReturns, FreeLoader
<1>4. CASE LoadStatic
  <2>1. heap'.dirs = heap.dirs + 1 /\ heap'.names = heap.names /\ phase' = "shared"
    BY <1>0, <1>4 DEF LoadStatic, SetDirectory
  <2> QED
    BY <1>4, <2>1 DEF LoadStatic, Allocated
<1>5. CASE OpenDirectory
  <2>1. CASE phase' = "undefined"
    BY <1>5, <2>1 DEF OpenDirectory, Allocated
  <2>2. CASE phase' = "scan" /\ unread' = disk[directory]
    <3>1. Nameless' = {}
      BY <1>5, <2>2 DEF OpenDirectory, Nameless, Life
    <3>2. Cardinality(Nameless') = 0
      BY <3>1, FS_EmptySet
    <3> QED
      BY <1>5, <2>2, <3>2 DEF OpenDirectory, Allocated
  <2> QED
    BY <1>5, <2>1, <2>2 DEF OpenDirectory
<1>6. ASSUME NEW f \in Files, SkipFile(f) PROVE Allocated'
  <2>1. Cardinality(Nameless') = Cardinality(Nameless) + 0
    BY <1>6, OneMoreName DEF SkipFile
  <2>2. heap.names + 0 = heap.names
    BY <1>0
  <2> QED
    BY <1>6, <2>1, <2>2 DEF SkipFile, Allocated
<1>7. ASSUME NEW f \in Files, Overflow(f) PROVE Allocated'
  BY <1>1, <1>7 DEF Overflow
<1>8. ASSUME NEW f \in Files, NoNames(f) PROVE Allocated'
  <2>1. Cardinality(Nameless') =
          Cardinality(Nameless) + (IF f \in WithName THEN 1 ELSE 0)
    BY <1>8, OneMoreName DEF NoNames
  <2>2. /\ heap'.dirs = heap.dirs
        /\ heap'.names = heap.names + (IF f \in WithName THEN 1 ELSE 0)
    BY <1>0, <1>8 DEF NoNames
  <2> QED
    BY <1>8, <2>1, <2>2 DEF NoNames, Allocated
<1>9. ASSUME NEW f \in Files, LoadGame(f) PROVE Allocated'
  <2>1. Cardinality(Nameless') = Cardinality(Nameless) + 0
    BY <1>9, OneMoreName DEF LoadGame
  <2>2. heap.names + 0 = heap.names
    BY <1>0
  <2> QED
    BY <1>9, <2>1, <2>2 DEF LoadGame, Allocated
<1>10. CASE Loaded
  <2>1. heap'.names = heap.names /\ Nameless' = Nameless /\ Superseded' = Superseded
    BY <1>0, <1>10 DEF Loaded, DirFreed, Nameless, Superseded
  <2>2. heap'.dirs = Superseded + 1
    BY <1>0, <1>10 DEF Loaded, DirFreed, Superseded, Allocated
  <2> QED
    BY <1>10, <2>1, <2>2 DEF Loaded, Allocated
<1>11. ASSUME NEW i \in DOMAIN map_game, Call(i) PROVE Allocated'
  BY <1>1, <1>11 DEF Call
<1>12. CASE FreePlugins
  <2>1. heap'.names = heap.names /\ Nameless' = Nameless /\ Superseded' = Superseded
    BY <1>0, <1>12 DEF FreePlugins, Nameless, Superseded
  <2>2. heap'.dirs = Superseded
    BY <1>0, <1>12, SupersededType DEF FreePlugins, Allocated
  <2> QED
    BY <1>12, <2>1, <2>2 DEF FreePlugins, Allocated
<1>13. CASE UNCHANGED vars
  BY <1>1, <1>13 DEF vars
<1> QED
  BY <1>2, <1>3, <1>4, <1>5, <1>6, <1>7, <1>8, <1>9, <1>10, <1>11, <1>12, <1>13
     DEF Next, Ended

-----------------------------------------------------------------------------
(* The menu *)

\* A plugin read in the scan becomes the last entry of the menu, of itself.
LEMMA PluginEntered ==
    ASSUME IInv, NEW f \in Files, LoadGame(f) PROVE MenuSoFar'
<1> DEFINE n == Len(map_game) - 2
<1> USE DEF IInv
<1>1. map_game' = Append(map_game, EntryOf(f)) /\ phase = "scan" /\ phase' = "scan"
  BY DEF LoadGame, InsertGame, EntryOf
<1>2. map_game \in Seq(MapEntry) /\ Len(map_game) \in Nat /\ Len(map_game) >= 2
  BY <1>1 DEF TypeOK, MapEntry, MenuSoFar
<1>3. /\ Len(map_game') = Len(map_game) + 1
      /\ \A i \in 1..Len(map_game) : map_game'[i] = map_game[i]
      /\ map_game'[Len(map_game) + 1] = EntryOf(f)
  BY <1>1, <1>2
<1>4. n \in Nat /\ Len(map_game') - 2 = n + 1
  BY <1>2, <1>3
<1>5. PICK from \in Bijection(1..n, Plugins \ unread) :
         \A i \in 1..n : map_game[i + 2] = EntryOf(from[i])
  BY <1>1 DEF MenuSoFar
<1>6. /\ from \in [1..n -> Plugins \ unread]
      /\ \A i, j \in 1..n : from[i] = from[j] => i = j
      /\ \A g \in Plugins \ unread : \E i \in 1..n : from[i] = g
  BY <1>5 DEF Bijection, Injection, Surjection, IsInjective
<1>7. f \in Plugins /\ f \in unread
  BY DEF LoadGame, Plugins, Life
<1>8. (Plugins \ unread)' = (Plugins \ unread) \cup {f}
  BY <1>7 DEF LoadGame, GoOn, Plugins, manager
<1> DEFINE from2 == [i \in 1..(n + 1) |-> IF i = n + 1 THEN f ELSE from[i]]
<1>9. /\ \A i \in 1..n : i \in 1..(n + 1) /\ from2[i] = from[i]
      /\ n + 1 \in 1..(n + 1) /\ from2[n + 1] = f
      /\ \A i \in 1..(n + 1) : i = n + 1 \/ i \in 1..n
  BY <1>4
<1>10. from2 \in Bijection(1..(n + 1), (Plugins \ unread)')
  <2>1. from2 \in [1..(n + 1) -> (Plugins \ unread)']
    BY <1>6, <1>8, <1>9
  <2>2. ASSUME NEW i \in 1..(n + 1), NEW j \in 1..(n + 1), from2[i] = from2[j] PROVE i = j
    <3>1. \A k \in 1..n : from[k] \in Plugins \ unread
      BY <1>6
    <3>2. \A k \in 1..n : from2[k] # f
      BY <3>1, <1>7, <1>9
    <3> QED
      BY <1>6, <1>9, <2>2, <3>2
  <2>3. \A g \in (Plugins \ unread)' : \E i \in 1..(n + 1) : from2[i] = g
    BY <1>6, <1>8, <1>9
  <2> QED
    BY <2>1, <2>2, <2>3 DEF Bijection, Injection, Surjection, IsInjective
<1>11. \A i \in 1..(n + 1) : map_game'[i + 2] = EntryOf(from2[i])
  <2>1. \A i \in 1..n : i + 2 \in 1..Len(map_game)
    BY <1>2
  <2>2. (n + 1) + 2 = Len(map_game) + 1
    BY <1>2
  <2> QED
    BY <1>3, <1>5, <1>9, <2>1, <2>2
<1>12. \A i \in 1..2 : map_game'[i] = StaticGames[i]
  BY <1>1, <1>2, <1>3 DEF MenuSoFar
<1>13. Len(map_game') >= 2
  BY <1>2, <1>3
<1>14. \E m \in Bijection(1..(Len(map_game') - 2), (Plugins \ unread)') :
          \A i \in 1..(Len(map_game') - 2) : map_game'[i + 2] = EntryOf(m[i])
  BY <1>4, <1>10, <1>11
<1> QED
  BY <1>1, <1>12, <1>13, <1>14 DEF MenuSoFar, EntryOf, Entry, GamePtrf, StaticGames

\* No step takes a game out of the menu or puts one in that is not a plugin's.
LEMMA MenuStep == IInv /\ [Next]_vars => MenuSoFar'
<1> SUFFICES ASSUME IInv, [Next]_vars PROVE MenuSoFar'
  OBVIOUS
<1> USE DEF IInv, arguments, manager
<1>1. ASSUME phase' \notin {"scan", "session"} PROVE MenuSoFar'
  BY <1>1 DEF MenuSoFar
<1>2. ASSUME phase \in {"scan", "session"}, map_game' = map_game,
             (Plugins \ unread)' = Plugins \ unread
      PROVE  MenuSoFar'
  BY <1>2 DEF MenuSoFar, EntryOf, StaticGames
<1>3. CASE \/ \E d \in Dirs : OptionDirectory(d)
           \/ OptionHelp \/ LoadStatic
           \/ \E f \in Files : Overflow(f)
           \/ ArcadeReturns \/ FreeLoader \/ FreePlugins
  BY <1>1, <1>3 DEF OptionDirectory, OptionHelp, LoadStatic, Overflow, ArcadeReturns,
                    FreeLoader, FreePlugins
<1>4. CASE OpenDirectory
  <2>1. CASE phase' = "undefined"
    BY <1>1, <2>1
  <2>2. CASE phase' = "scan" /\ unread' = disk[directory]
    <3>1. map_game' = StaticGames /\ Len(map_game') = 2
      BY <1>4, StaticType DEF OpenDirectory, Life
    <3>2. (Plugins \ unread)' = {}
      BY <1>4, <2>2 DEF OpenDirectory, Plugins
    <3>3. <<>> \in Bijection(1..0, {})
      BY DEF Bijection, Injection, Surjection, IsInjective
    <3>4. 1..(Len(map_game') - 2) = 1..0 /\ 1..0 = {} /\ Len(map_game') >= 2
      BY <3>1
    <3>5. \E m \in Bijection(1..(Len(map_game') - 2), (Plugins \ unread)') :
             \A i \in 1..(Len(map_game') - 2) : map_game'[i + 2] = EntryOf(m[i])
      BY <3>2, <3>3, <3>4
    <3> QED
      BY <2>2, <3>1, <3>4, <3>5 DEF MenuSoFar, EntryOf, StaticGames
  <2> QED
    BY <1>4, <2>1, <2>2 DEF OpenDirectory
<1>5. ASSUME NEW f \in Files, SkipFile(f) PROVE MenuSoFar'
  BY <1>2, <1>5 DEF SkipFile, GoOn, Plugins
<1>6. ASSUME NEW f \in Files, NoNames(f) PROVE MenuSoFar'
  BY <1>2, <1>6 DEF NoNames, GoOn, Plugins
<1>7. ASSUME NEW f \in Files, LoadGame(f) PROVE MenuSoFar'
  BY <1>7, PluginEntered
<1>8. CASE Loaded
  BY <1>2, <1>8 DEF Loaded, Plugins
<1>9. ASSUME NEW i \in DOMAIN map_game, Call(i) PROVE MenuSoFar'
  BY <1>2, <1>9 DEF Call, Plugins
<1>10. CASE UNCHANGED vars
  BY <1>1, <1>2, <1>10 DEF vars, Plugins
<1> QED
  BY <1>3, <1>4, <1>5, <1>6, <1>7, <1>8, <1>9, <1>10 DEF Next, Ended

-----------------------------------------------------------------------------
(* The theorems *)

\* Every reachable state satisfies the inductive invariant.
THEOREM Invariance == Spec => []IInv
<1>1. IInv /\ [Next]_vars => IInv'
  BY TypeStep, LifeStep, HandleStep, PluginStep, AllocatedStep, MenuStep DEF IInv
<1> QED
  BY InitIInv, <1>1, PTL DEF Spec

\* Type correctness; the table of handles is never written past its end while
\* the program is defined.
THEOREM TypeCorrect == Spec => []TypeOK
<1>1. IInv => TypeOK
  BY DEF IInv
<1> QED
  BY Invariance, <1>1, PTL

\* A set of natural numbers that is not empty has a least element.
LEMMA Lowest ==
    ASSUME NEW T \in SUBSET Nat, T # {}
    PROVE  \E x \in T : \A y \in T : x <= y
<1> DEFINE R == {p \in Nat \X Nat : p[1] < p[2]}
<1>1. IsWellFoundedOn(R, Nat)
  BY NatLessThanWellFounded DEF OpToRel
<1>2. \A x, y \in Nat : y < x => <<y, x>> \in R
  OBVIOUS
<1> HIDE DEF R
<1>3. PICK x \in T : \A y \in T : ~ (<<y, x>> \in R)
  BY <1>1, WFMin
<1>4. ASSUME NEW y \in T PROVE x <= y
  <2>1. x \in Nat /\ y \in Nat /\ ~(y < x)
    BY <1>2, <1>3
  <2> QED
    BY <2>1
<1> QED
  BY <1>4

\* A search by name finds the first entry that has it.
LEMMA FirstEntry ==
    ASSUME NEW S, map_game \in Seq(S), NEW i \in DOMAIN map_game
    PROVE  \E k \in DOMAIN map_game :
              /\ map_game[k].name = map_game[i].name /\ k <= i
              /\ PtrGame(map_game[i].name) = map_game[k].fn
<1> DEFINE n == map_game[i].name
           T == {k \in DOMAIN map_game : map_game[k].name = n}
           First(k) == /\ map_game[k].name = n
                       /\ \A j \in DOMAIN map_game : map_game[j].name = n => k <= j
           found == CHOOSE k \in DOMAIN map_game : First(k)
<1>1. DOMAIN map_game \subseteq Nat /\ i \in T /\ T \in SUBSET Nat
  OBVIOUS
<1>2. PICK x \in T : \A y \in T : x <= y
  <2> HIDE DEF T
  <2> QED
    BY <1>1, Lowest
<1>3. x \in DOMAIN map_game /\ First(x)
  BY <1>2
<1>4. found \in DOMAIN map_game /\ First(found)
  BY <1>3
<1>5. PtrGame(n) = map_game[found].fn
  BY DEF PtrGame
<1> QED
  BY <1>4, <1>5

\* Once the compiled games are the first entries, each choice finds its game.
LEMMA ChoicesFound ==
    ASSUME IInv, phase = "session" PROVE ChosenIsCalled
<1>1. map_game \in Seq(MapEntry) /\ Len(map_game) >= 2
  BY DEF IInv, TypeOK, MapEntry, MenuSoFar
<1>2. ASSUME NEW i \in DOMAIN DefaultNames PROVE PtrGame(DefaultNames[i]) = Static
  <2>1. i \in 1..2 /\ i \in DOMAIN map_game
    BY <1>1, LoaderAssumption
  <2>2. map_game[i].name = DefaultNames[i]
    BY <2>1, LoaderAssumption DEF IInv, MenuSoFar, StaticGames, Entry
  <2>3. PICK k \in DOMAIN map_game : k <= i /\ PtrGame(map_game[i].name) = map_game[k].fn
    BY <1>1, <2>1, FirstEntry
  <2>4. k \in 1..2
    BY <1>1, <2>1, <2>3
  <2>5. map_game[k].fn = Static
    BY <2>4, LoaderAssumption DEF IInv, MenuSoFar, StaticGames, Entry
  <2> QED
    BY <2>2, <2>3, <2>5
<1>3. ASSUME NEW i \in DOMAIN map_game,
             \A j \in DOMAIN map_game : map_game[j].name = map_game[i].name => i <= j
      PROVE  PtrGame(map_game[i].name) = map_game[i].fn
  <2>1. PICK k \in DOMAIN map_game :
          /\ map_game[k].name = map_game[i].name /\ k <= i
          /\ PtrGame(map_game[i].name) = map_game[k].fn
    BY <1>1, FirstEntry
  <2>2. i <= k /\ i \in Nat /\ k \in Nat
    BY <1>1, <1>3, <2>1
  <2>3. i = k
    BY <2>1, <2>2
  <2> QED
    BY <2>1, <2>3
<1> QED
  BY <1>2, <1>3 DEF ChosenIsCalled

\* Whatever the libraries and the order they are read in, the menu has the
\* compiled games and one entry for each plugin, which is its own.
THEOREM MenuCompleted == Spec => []MenuIsComplete
<1>1. IInv => MenuIsComplete
  <2> SUFFICES ASSUME IInv, phase = "session" PROVE MenuIsComplete
    BY DEF MenuIsComplete
  <2> USE DEF IInv
  <2>1. unread = {}
    BY DEF Life
  <2>2. Len(DefaultNames) = 2 /\ DOMAIN DefaultNames = 1..2
    BY LoaderAssumption
  <2>3. map_game \in Seq(MapEntry) /\ Len(map_game) \in Nat /\ Len(map_game) >= 2
    BY DEF TypeOK, MapEntry, MenuSoFar
  <2> DEFINE k == Len(DefaultNames)
             shared == [i \in 1..(Len(map_game) - k) |-> map_game[i + k]]
  <2>4. \A i \in 1..k : map_game[i] = Entry(DefaultNames[i], Static)
    BY <2>2 DEF MenuSoFar, StaticGames
  <2>5. PICK from \in Bijection(1..(Len(map_game) - 2), Plugins) :
           \A i \in 1..(Len(map_game) - 2) : map_game[i + 2] = EntryOf(from[i])
    BY <2>1 DEF MenuSoFar
  <2>6. /\ DOMAIN shared = 1..(Len(map_game) - 2)
        /\ \A i \in DOMAIN shared : shared[i] = map_game[i + 2]
    BY <2>2
  <2> HIDE DEF k, shared
  <2>7. \A i \in DOMAIN shared :
           /\ shared[i].name = GameName[from[i]]
           /\ shared[i].fn = IF from[i] \in WithFunction THEN from[i] ELSE NullFunction
    <3> SUFFICES ASSUME NEW i \in DOMAIN shared
                 PROVE  /\ shared[i].name = GameName[from[i]]
                        /\ shared[i].fn = IF from[i] \in WithFunction
                                          THEN from[i] ELSE NullFunction
      OBVIOUS
    <3>1. shared[i] = EntryOf(from[i])
      BY <2>5, <2>6
    <3> QED
      BY <3>1 DEF EntryOf, Entry, GamePtrf
  <2>8. from \in Bijection(DOMAIN shared, Plugins)
    BY <2>5, <2>6
  <2>9. \E m \in Bijection(DOMAIN shared, Plugins) :
           \A i \in DOMAIN shared :
              /\ shared[i].name = GameName[m[i]]
              /\ shared[i].fn = IF m[i] \in WithFunction THEN m[i] ELSE NullFunction
    BY <2>7, <2>8
  <2>10. ChosenIsCalled
    BY ChoicesFound
  <2> QED
    BY <2>4, <2>9, <2>10 DEF MenuIsComplete, k, shared
<1> QED
  BY Invariance, <1>1, PTL

\* No function of the map is ever one of a closed library.
THEOREM PluginsOpen == Spec => []PluginsStayOpen
<1>1. IInv => PluginsStayOpen
  BY DEF IInv
<1> QED
  BY Invariance, <1>1, PTL

\* The table of handles is the list of the open libraries, without repetition,
\* and none is open when the program exits.
THEOREM HandlesOpen == Spec => []HandlesAreOpen
<1>1. IInv => HandlesAreOpen
  BY DEF IInv
<1> QED
  BY Invariance, <1>1, PTL

\* What a run leaves allocated, for any directory and any number of options.
THEOREM HeapLeft == Spec => []HeapAtExit
<1>1. IInv => HeapAtExit
  BY DEF IInv, HeapAtExit, Allocated, Life, Nameless, Superseded
<1> QED
  BY Invariance, <1>1, PTL

-----------------------------------------------------------------------------
(* What the arcade calls *)

\* What the arcade is given is a menu such as it supposes (SessionAssumption of Arcade): a list
\* of names and functions, not shorter than the compiled games.
MenuIsList == phase = "session" => map_game \in Seq(MapEntry) /\ Len(map_game) >= 2

\* The arcade is given such a menu, and a choice in it calls the game of the entry,
\* unless its name is that of an earlier one; no library, whatever it is called, stands
\* for a compiled game (game_loader.c:92-98, map_game_ptrf.c:142-168).
THEOREM MenuForArcade == Spec => [](MenuIsList /\ (phase = "session" => ChosenIsCalled))
<1>1. IInv => MenuIsList
  BY DEF IInv, TypeOK, MapEntry, MenuSoFar, MenuIsList
<1>2. MenuIsComplete => (phase = "session" => ChosenIsCalled)
  BY DEF MenuIsComplete
<1> QED
  BY <1>1, <1>2, Invariance, MenuCompleted, PTL

\* A party is never one of a closed library: what is called is a compiled game, the
\* function of an open library, or NULL.
CallsLand == phase = "session" => phase' # "undefined"

\* Whatever is chosen in the menu, and as often as it is, the arcade never runs into
\* a library that was closed (plugin_manager.h, main.c:194-203).
THEOREM CallsLanded == Spec => [][CallsLand]_vars
<1>1. IInv /\ [Next]_vars => [CallsLand]_vars
  <2> SUFFICES ASSUME IInv, Next, phase = "session" PROVE phase' # "undefined"
    BY DEF CallsLand
  <2>1. ASSUME NEW i \in DOMAIN map_game, Call(i) PROVE phase' # "undefined"
    <3>1. PICK k \in DOMAIN map_game : PtrGame(map_game[i].name) = map_game[k].fn
      BY FirstEntry DEF IInv, TypeOK
    <3>2. PtrGame(map_game[i].name) \in opened \cup {Static, NullFunction}
      BY <3>1 DEF IInv, PluginsStayOpen
    <3> QED
      BY <2>1, <3>2 DEF Call
  <2>2. CASE ArcadeReturns
    BY <2>2 DEF ArcadeReturns
  <2>3. \A d \in Dirs : ~OptionDirectory(d)
    BY DEF OptionDirectory
  <2>4. \A f \in Files : ~SkipFile(f) /\ ~Overflow(f) /\ ~NoNames(f) /\ ~LoadGame(f)
    BY DEF SkipFile, Overflow, NoNames, LoadGame
  <2>5. ~OptionHelp /\ ~LoadStatic /\ ~OpenDirectory /\ ~Loaded /\ ~FreeLoader /\ ~FreePlugins /\ ~Ended
    BY DEF OptionHelp, LoadStatic, OpenDirectory, Loaded, FreeLoader, FreePlugins, Ended, Final
  <2> QED
    BY <2>1, <2>2, <2>3, <2>4, <2>5 DEF Next
<1> QED
  BY <1>1, Invariance, PTL DEF Spec
=============================================================================
