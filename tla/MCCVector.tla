----------------------------- MODULE MCCVector -----------------------------
(***************************************************************************)
(* Two vectors, a list and an array over three addresses, and two keys, so *)
(* that a vector of three has equal values to keep in order.  A behaviour  *)
(* uses some operations together, and all of them with construction,       *)
(* clearing and destruction.                                               *)
(***************************************************************************)
EXTENDS CVector

MCBlocks == 1..3
MCKeys == 1..2
MCProfiles == {{"push", "copy", "sort"}, {"push", "grow", "copy", "swap"},
               {"push", "grow", "array"}, {"list"}}
=============================================================================
