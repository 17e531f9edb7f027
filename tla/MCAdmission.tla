---------------------------- MODULE MCAdmission ----------------------------
(***************************************************************************)
(* Small instances of Admission: pods with and without volumes, init       *)
(* containers, mounts and a security context, for each provider, and       *)
(* annotations that are right or wrong in one way each.                    *)
(***************************************************************************)
EXTENDS Admission

Ann(provider) == [provider |-> provider, ref |-> "flat", key |-> "ok", mount |-> "",
                  extra |-> "ok", skipVerify |-> FALSE]
Anns == {Absent} \cup {Ann(p) : p \in Providers}
        \cup {[Ann("keeper") EXCEPT !.ref = "nested"],
              [Ann("keeper") EXCEPT !.skipVerify = TRUE],
              [Ann("env") EXCEPT !.mount = "/data"],
              [Ann("env") EXCEPT !.ref = "nested"],
              [Ann("env") EXCEPT !.extra = "bad"],
              Ann("vault")}
SomeAnn == Ann("keeper")

\* What other webhooks may do to the annotations: another provider at another place, or none.
OtherAnns == {[Ann("keeper") EXCEPT !.mount = "/elsewhere"], Absent}

Pods == {[namespace |-> "apps", ann |-> a, group |-> g, volumes |-> v,
          inits |-> i, containers |-> c] :
           a \in Anns, g \in {NoContext, Absent, 7},
           v \in {<<>>, <<"data">>},
           i \in {<<>>, <<OtherInit>>},
           c \in {<< <<>> >>, << <<Mount("data", "/data")>>, <<>> >>}}
GoodPods == {p \in Pods : MountsResolve(p)}

TLSDir == "/etc/chur-keeper/client-tls"
Cfg(cert, skip) == [namespaces |-> {"apps"}, clientCert |-> cert, allowSkipVerify |-> skip,
                    certPath |-> IF cert THEN File(TLSDir, "tls.crt") ELSE Absent,
                    keyPath |-> IF cert THEN File(TLSDir, "tls.key") ELSE Absent,
                    serverCA |-> IF cert /\ ~skip THEN File(TLSDir, "ca.crt") ELSE Absent,
                    clientMax |-> IF cert THEN "ok" ELSE Absent,
                    fsGroup |-> 5, runAsGroup |-> Absent, localBase |-> "/local",
                    image |-> Providers, failurePolicy |-> "Fail"]
Open(c) == [c EXCEPT !.failurePolicy = "Ignore", !.runAsGroup = 9]
Slim(c) == [c EXCEPT !.image = Providers \ {"k8s"}]    \* initImage.slim

\* The settings of TestMutatePodKeeperEnvInjection: the annotation that skips the
\* verification is allowed, and there is a server CA (mutator_test.go:602-607).
SkipAndCA == [Cfg(TRUE, TRUE) EXCEPT !.serverCA = File(TLSDir, "ca.crt")]

\* Pods without volumes and a client certificate to mount are the subject of a run of
\* their own.  The last ones are copies of pods that were mutated before, of which only
\* the init container was kept.
AllRequests ==
  {r \in [pod : GoodPods, cfg : {Cfg(TRUE, TRUE), Slim(Cfg(FALSE, FALSE)), Open(Cfg(FALSE, TRUE))}, dryRun : BOOLEAN] :
     /\ r.cfg.clientCert => r.pod.volumes # <<>>
     /\ r.dryRun => r.pod.group = 7}
  \cup [pod : {p \in GoodPods : /\ p.ann \in {Ann("keeper"),
                                              [Ann("keeper") EXCEPT !.ref = "nested"],
                                              [Ann("keeper") EXCEPT !.skipVerify = TRUE]}
                               /\ p.volumes # <<>> /\ p.group = 7},
        cfg : {SkipAndCA,
               [Cfg(TRUE, FALSE) EXCEPT !.certPath = File("/client", "tls.crt"),
                                        !.keyPath = File("/client", "tls.key"),
                                        !.serverCA = File("/client", "ca.crt")],
               [Cfg(TRUE, FALSE) EXCEPT !.certPath = Absent, !.keyPath = Absent,
                                        !.serverCA = Absent],
               [Cfg(TRUE, FALSE) EXCEPT !.serverCA = File("/etc/chur-keeper/server-ca", "ca.crt")],
               [Cfg(FALSE, FALSE) EXCEPT !.clientMax = "bad"]},
        dryRun : {FALSE}]
  \cup [pod : {[CHOOSE p \in GoodPods : p.ann = SomeAnn EXCEPT !.namespace = "system"]},
        cfg : {Cfg(FALSE, TRUE)}, dryRun : {FALSE}]
  \cup {[pod |-> [p EXCEPT !.inits = <<InitContainer(p, c)>>], cfg |-> c, dryRun |-> FALSE] :
          p \in {q \in GoodPods : q.group = 7 /\ q.volumes # <<>> /\ q.ann \in {Ann("env"), Ann("keeper")}},
          c \in {Cfg(TRUE, TRUE), Cfg(FALSE, FALSE)}}

\* What the chart makes of keeper.mtls.enabled and a secretName, with its defaults
\* (charts/chur/templates/deployment.yaml:70-79, values.yaml:196-222).
ChartMTLS == [Cfg(TRUE, FALSE) EXCEPT !.serverCA = File("/etc/chur-keeper/server-ca", "ca.crt")]
MTLSRequests == [pod : {p \in GoodPods : p.volumes # <<>>}, cfg : {ChartMTLS}, dryRun : {FALSE}]

BareRequests == [pod : {p \in GoodPods : p.volumes = <<>> /\ p.ann = SomeAnn},
                 cfg : {Cfg(TRUE, FALSE)}, dryRun : {FALSE}]
AnyCfgRequests == [pod : {p \in GoodPods : p.volumes # <<>>},
                   cfg : {Cfg(TRUE, FALSE)}, dryRun : {FALSE}]
=============================================================================
