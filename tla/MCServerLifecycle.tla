------------------------- MODULE MCServerLifecycle -------------------------
(***************************************************************************)
(* Both programs, the keeper with and without a health server, and up to   *)
(* MaxActive requests in flight on each server.                            *)
(***************************************************************************)
EXTENDS ServerLifecycle
=============================================================================
