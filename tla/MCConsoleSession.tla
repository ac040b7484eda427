------------------------- MODULE MCConsoleSession --------------------------
(* A small instance of ConsoleSession for TLC. *)
EXTENDS ConsoleSession, TLC

Symmetries == Permutations(Consoles)
=============================================================================
