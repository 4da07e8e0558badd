--------------------------- MODULE MCBrewCommands ---------------------------
(***************************************************************************)
(* BrewCommands for TLC: two callers and a family with two overrides.      *)
(***************************************************************************)
EXTENDS BrewCommands
=============================================================================
