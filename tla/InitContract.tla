---------------------------- MODULE InitContract ----------------------------
(***************************************************************************)
(* The other side of what the mutator writes: what chur-init (cmd/init)    *)
(* and the factories of the providers ask of the environment and of the    *)
(* mounts of the init container before they call for the secret.  What     *)
(* they do then is the subject of ChurInit.                                *)
(***************************************************************************)
EXTENDS PodMutation

\* The keys of the Secret with the client certificate (external).
SecretFiles == {"tls.crt", "tls.key", "ca.crt"}

\* Reading a file of the keeper's TLS settings: the image of chur-init has nothing
\* but its binary (Dockerfile.init).
Readable(c, f) == /\ Mount(KeeperVolume, f.dir) \in ToSet(c.mounts)
                  /\ f.name \in SecretFiles

\* NewProvider: without the key the certificate is not looked at.
KeeperStarts(c) ==
  /\ ~(c.env.skipVerify /\ c.env.serverCA # Absent)
  /\ c.env.serverCA # Absent => Readable(c, c.env.serverCA)
  /\ c.env.cert # Absent /\ c.env.key # Absent
       => Readable(c, c.env.cert) /\ Readable(c, c.env.key)
  /\ c.env.limit # "bad"

\* The local provider opens its files below its base directory.
LocalStarts(c) == Mount(LocalVolume, c.env.base) \in ToSet(c.mounts)

\* main up to the factory, and the factory.  The registry has the providers the image
\* was built with; k8s is left out of the slim one.
Starts(c) == /\ c.provider \in c.image
             /\ c.env.ref \in Refs(c.provider)
             /\ c.provider = "keeper" => KeeperStarts(c)
             /\ c.provider = "local"  => LocalStarts(c)
=============================================================================
