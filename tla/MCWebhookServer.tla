--------------------------- MODULE MCWebhookServer ---------------------------
(***************************************************************************)
(* Three requests for two tokens, two of them on the API server's HTTP/2   *)
(* connection.  Every kind of request is there, two of them the same in    *)
(* some of the mixes.                                                      *)
(***************************************************************************)
EXTENDS WebhookServer

CONSTANTS r1, r2, r3

MCRequests == {r1, r2, r3}
MCHttp2    == {r1, r2}
MCMixes    == {k \in [MCRequests -> AllKinds] :
                 /\ k[r1] \in {"garbled", "invalid", "patched"}
                 /\ k[r2] \in {"badMethod", "patched"}
                 /\ k[r3] \in {"malformed", "dryRun", "ignored"}}
=============================================================================
