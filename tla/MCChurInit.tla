----------------------------- MODULE MCChurInit -----------------------------
(***************************************************************************)
(* A small instance of ChurInit: two values of the secret, times in half   *)
(* seconds with the delays and the deadline of the code, and one pod for   *)
(* each way the environment can be right or wrong.                         *)
(***************************************************************************)
EXTENDS ChurInit, TLC

CONSTANTS small, large    \* values of the secret

MCSecrets == {small, large}
MCSize    == (small :> 2) @@ (large :> 5)

Pod(p, len, nested, max, client) ==
  [provider |-> p, refLen |-> len, refNested |-> nested, mountOK |-> TRUE,
   maxSize |-> max, clientMax |-> client, usable |-> TRUE]

Good     == {Pod("keeper", 8, FALSE, 8, 0), Pod("env", 8, FALSE, 8, 0),
             Pod("local", 8, FALSE, 8, 0)}
Nested   == Pod("keeper", 8, TRUE, 8, 0)
LongName == Pod("local", 252, FALSE, 8, 0)
Bad      == {Pod("local", 8, TRUE, 8, 0),                 \* invalid reference
             Pod("k8s", 8, FALSE, 8, 0),                  \* not in the binary
             Pod("keeper", 8, FALSE, 3, 4),               \* large is too large
             Pod("env", 8, FALSE, Malformed, 0),          \* size does not parse
             Pod("keeper", 8, FALSE, 8, Malformed),
             [Pod("keeper", 8, FALSE, 8, 0) EXCEPT !.usable = FALSE],
             [Pod("local", 8, FALSE, 8, 0) EXCEPT !.mountOK = FALSE]}

AllEnvs      == Good \cup Bad \cup {Nested, LongName}
NestedEnvs   == {Nested}
LongNameEnvs == {LongName}

Calls   == {1, 60}
Prompt  == {0}
MCJitter == {0, 1}
=============================================================================
