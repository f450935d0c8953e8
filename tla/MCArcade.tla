------------------------------ MODULE MCArcade ------------------------------
(***************************************************************************)
(* A small arcade: two players on record, a new one, one whose line is too *)
(* long; the two built-in games and plugins that are well formed, export   *)
(* no function, repeat the name of a built-in game or have a long name.    *)
(***************************************************************************)
EXTENDS Arcade

S(w, l, d) == [win |-> w, lost |-> l, draw |-> d]
P(n, s) == [name |-> n, score |-> s]
E(n, f) == [name |-> n, ptr |-> f]

MCGameNames == {"Mastermind", "Pendu", "Morpion", "a_very_long_plugin_name"}
MCFunctions == {"mastermind", "pendu", "morpion"}
MCUserNames == {"kevin", "jasmine", "titi", "too_long", "anonymous"}

MCRecord ==
    [n \in {"kevin", "jasmine"} |->
        IF n = "kevin" THEN <<>>
        ELSE << P("Pendu", S(1, 1, 0)), P("Morpion", S(2, 0, 1)) >>]

\* A session of Mastermind returns any number of victories and defeats.
MCOutcomes ==
    [f \in MCFunctions |->
        CASE f = "mastermind" -> {S(1, 0, 0), S(0, 1, 0), S(1, 1, 0)}
          [] f = "pendu"      -> {S(1, 0, 0), S(0, 1, 0)}
          [] f = "morpion"    -> {S(1, 0, 0), S(0, 1, 0), S(0, 0, 1), S(0, 0, 0)}]

BuiltIn == << E("Mastermind", "mastermind"), E("Pendu", "pendu") >>

MCGameLists ==
    { BuiltIn,
      BuiltIn \o << E("Morpion", "morpion") >>,
      BuiltIn \o << E("Morpion", "none") >>,
      BuiltIn \o << E("Pendu", "morpion") >>,
      BuiltIn \o << E("a_very_long_plugin_name", "morpion") >> }
=============================================================================
