-------------------------- MODULE MCKeeperBackends --------------------------
(***************************************************************************)
(* The three backends with a limit of two bytes, and secrets below, at and *)
(* above it.                                                               *)
(***************************************************************************)
EXTENDS KeeperBackends

MCSizes == {0, 1, 2, 3, 4}
=============================================================================
