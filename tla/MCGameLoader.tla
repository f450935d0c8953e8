---------------------------- MODULE MCGameLoader ----------------------------
(***************************************************************************)
(* Directories with up to six files: two plugins, one of them with the     *)
(* name of a compiled game, a library without the exported function, one   *)
(* without the name of the function, one with no variable at all, and one  *)
(* that cannot be opened; a text file lies in the other directory.         *)
(***************************************************************************)
EXTENDS GameLoader

CONSTANTS morpion, pendu2, noFunction, noStart, noName, broken, readme,
          plugins, other

MCFiles == {morpion, pendu2, noFunction, noStart, noName, broken, readme}
MCLibraries == MCFiles \ {readme}
MCLoadable == MCLibraries \ {broken}
MCWithName == {morpion, pendu2, noFunction, noStart}
MCWithStart == {morpion, pendu2, noFunction}
MCWithFunction == {morpion, pendu2}
MCGameName == [f \in MCFiles |-> IF f = pendu2 THEN "Pendu" ELSE "Morpion"]
MCDefaultNames == <<"Mastermind", "Pendu">>

MCDirs == {plugins, other}
MCDisks ==
    {[d \in MCDirs |-> IF d = plugins THEN c ELSE {readme, morpion}] :
        c \in (SUBSET MCLibraries) \cup {Absent}}

\* Five plugins in one directory, as many as there are handles.
FullDisks == {[d \in MCDirs |-> IF d = plugins THEN MCLoadable ELSE Absent]}
=============================================================================
