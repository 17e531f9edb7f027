--------------------------- MODULE MCKeeperServer ---------------------------
(***************************************************************************)
(* Two tokens, as many connections, and three clients, so that one has to  *)
(* wait at the listener; one of them speaks HTTP/2 and has two requests.   *)
(* Up to three requests want a token at the same time: over a shared       *)
(* connection, or when one of them outlives its own.                       *)
(***************************************************************************)
EXTENDS KeeperServer

CONSTANTS r1, r2, r3, r4, c1, c2, c3

MCRequests == {r1, r2, r3, r4}
MCFrom     == [r \in MCRequests |-> CASE r \in {r1, r2} -> c1 [] r = r3 -> c2 [] r = r4 -> c3]

Mix(a, b, c, d) == [r \in MCRequests |-> CASE r = r1 -> a [] r = r2 -> b [] r = r3 -> c [] r = r4 -> d]
MCMixes == {Mix("badMethod", "good", "good", "badRef"),     \* two calls of the backend
            Mix("garbled", "badRef", "badRef", "badPath")}  \* two tokens over one connection
=============================================================================
