--------------------------- MODULE SecretDelivery ---------------------------
(***************************************************************************)
(* What chur promises to the containers of one pod, without saying how:    *)
(* they are held back until a file with a complete secret, one the source  *)
(* really held since the current delivery began, stands at the agreed path *)
(* and can be read by the pod's group.  Whatever is at the path, at any    *)
(* moment, is a complete secret: there is no state of a half written one.  *)
(***************************************************************************)
CONSTANTS Secrets,   \* the values the secret takes over time
          NoFile     \* nothing stands at the path

VARIABLES source,    \* the value the secret has now
          fresh,     \* the values it had since this delivery began
          file,      \* what stands at the path
          app        \* are the pod's containers "blocked" or "running"?

vars == <<source, fresh, file, app>>

TypeOK == /\ source \in Secrets
          /\ fresh \in SUBSET Secrets
          /\ file \in [data : Secrets, shared : BOOLEAN] \cup {NoFile}
          /\ app \in {"blocked", "running"}

Init == /\ source \in Secrets
        /\ fresh = {source}
        /\ file = NoFile
        /\ app = "blocked"

\* The owner of the secret replaces it.
Rotate == /\ source' \in Secrets
          /\ fresh' = fresh \cup {source'}
          /\ UNCHANGED <<file, app>>

\* A delivery starts, for the first time or again.
Begin == /\ app = "blocked"
         /\ fresh' = {source}
         /\ UNCHANGED <<source, file, app>>

\* The file appears, or replaces an older one, in one step.
Publish == /\ app = "blocked"
           /\ file' \in [data : fresh, shared : BOOLEAN]
           /\ UNCHANGED <<source, fresh, app>>

\* The pod's group is given access to it.
Share == /\ app = "blocked"
         /\ file # NoFile
         /\ file' = [data |-> file.data, shared |-> TRUE]
         /\ UNCHANGED <<source, fresh, app>>

\* The containers are started.
Release == /\ app = "blocked"
           /\ file \in [data : fresh, shared : {TRUE}]
           /\ app' = "running"
           /\ UNCHANGED <<source, fresh, file>>

\* The pod's sandbox is lost and all its containers with it.
Stop == /\ app = "running"
        /\ app' = "blocked"
        /\ UNCHANGED <<source, fresh, file>>

Next == Rotate \/ Begin \/ Publish \/ Share \/ Release \/ Stop

Spec == Init /\ [][Next]_vars
=============================================================================
