---------------------------- MODULE BackendCall ----------------------------
(***************************************************************************)
(* What one call of a keeper backend promises its caller, handleGetSecret: *)
(* it returns once, with an error or with all of the secret that the       *)
(* source offers, and never with one longer than the limit.                *)
(***************************************************************************)
EXTENDS Integers

CONSTANTS Limit,    \* the most bytes a secret may have
          None      \* no offer, no result yet

VARIABLES offer,    \* the length of the secret, once the source has it whole
          result    \* None, or [ok, len] of what the caller got

vars == <<offer, result>>

Error    == [ok |-> FALSE, len |-> 0]
Value(n) == [ok |-> TRUE, len |-> n]

Init == offer \in Nat \cup {None} /\ result = None

\* The source comes to have the secret.
Offer == offer = None /\ offer' \in Nat /\ UNCHANGED result

Return == /\ result = None
          /\ \/ result' = Error
             \/ offer # None /\ offer <= Limit /\ result' = Value(offer)
          /\ UNCHANGED offer

Next == Offer \/ Return

Spec == Init /\ [][Next]_vars
=============================================================================
