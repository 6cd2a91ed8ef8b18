---------------------------- MODULE MCStateFile ----------------------------
(***************************************************************************)
(* A small instance of StateFile for TLC: a relay started with a key, with *)
(* none, or with the wrong one.                                            *)
(***************************************************************************)
EXTENDS StateFile

MCKeys == {"unset", "secret"}

=============================================================================
