----------------------------- MODULE Admission -----------------------------
(***************************************************************************)
(* The creation of one pod: the API server calls chur-webhook              *)
(* (mutate in internal/webhook/server.go), other mutating webhooks change  *)
(* the pod before and after, the webhook is called once more when they did *)
(* (reinvocationPolicy IfNeeded), an answer may be lost or late, and the   *)
(* API server validates what came out of it.                               *)
(***************************************************************************)
EXTENDS InitContract

CONSTANTS
  Requests,       \* the requests: [pod, cfg, dryRun]
  UserAnns,       \* the chur annotations another webhook may give a pod, or Absent
  UserGroup,      \* the fsGroup another webhook may give it
  MaxOthers,      \* bound: changes by other webhooks
  MaxLost         \* bound: calls without answer

ASSUME RequestAssumption ==
  \A r \in Requests : /\ IsPod(r.pod) /\ r.dryRun \in BOOLEAN
                      /\ r.cfg.fsGroup \notin {NoContext, Absent}
ASSUME UserAssumption    == UserGroup \notin {NoContext, Absent}
ASSUME BoundAssumption   == MaxOthers \in Nat /\ MaxLost \in Nat

VARIABLES
  cfg, dryRun,    \* the webhook's configuration, with the failurePolicy that
                  \* says what a call without answer means; the kind of request
  pod,            \* the pod as it is now
  calls,          \* calls of the webhook for this pod
  dirty,          \* did another webhook change the pod since the last call?
  last,           \* the last call: the pod it got and the answer, or Absent
  phase,          \* "mutating", "admitted", "denied" (by the webhook or for
                  \* want of an answer) or "invalid"
  others, lost

vars == <<cfg, dryRun, pod, calls, dirty, last, phase, others, lost>>

Results == {"allowed", "mutated", "error"}

Init == /\ \E r \in Requests : cfg = r.cfg /\ dryRun = r.dryRun /\ pod = r.pod
        /\ calls = 0 /\ dirty = FALSE /\ last = Absent
        /\ phase = "mutating"
        /\ others = 0 /\ lost = 0

\* (Mutant of Due: the webhook is called after every change.)
DueWhenChanged == phase = "mutating" /\ (calls = 0 \/ dirty)

\* When the API server calls the webhook: once, and again if the pod changed.
Due == phase = "mutating" /\ (calls = 0 \/ (calls = 1 /\ dirty))

\* What mutate answers for a pod it could decode: the result label of the
\* metrics and the patches of the response.  A dry run gets no patches.
Answer(p, c, dry) == LET m == MutatePod(p, c) IN
  CASE m.kind = "nil"              -> [result |-> "allowed", patches |-> <<>>]
    [] m.kind = "error"            -> [result |-> "error", patches |-> <<>>]
    [] m.kind = "patch" /\ dry     -> [result |-> "allowed", patches |-> <<>>]
    [] m.kind = "patch" /\ ~dry    -> [result |-> "mutated", patches |-> m.patches]

\* A call and its answer, which the API server applies to the pod.
Review ==
  /\ Due
  /\ LET a == Answer(pod, cfg, dryRun) IN
       /\ last' = [seen |-> pod, result |-> a.result, patches |-> a.patches]
       /\ IF a.result # "error" /\ AllApplicable(pod, a.patches)
          THEN pod' = ApplyAll(pod, a.patches) /\ UNCHANGED phase
          ELSE phase' = "denied" /\ UNCHANGED pod
  /\ calls' = calls + 1
  /\ dirty' = FALSE
  /\ UNCHANGED <<cfg, dryRun, others, lost>>

\* A call whose answer does not arrive in time, worked on or not.
ReviewLost ==
  /\ Due
  /\ lost < MaxLost
  /\ lost' = lost + 1
  /\ phase' = IF cfg.failurePolicy = "Fail" THEN "denied" ELSE phase
  /\ calls' = calls + 1
  /\ dirty' = FALSE
  /\ UNCHANGED <<cfg, dryRun, pod, last, others>>

\* Another mutating webhook adds a volume with a container that mounts it, a container
\* without mounts or an init container, takes the last init container away, changes
\* the chur annotations or the fsGroup, or adds an empty security context.
OtherVolume == "other"
OtherInit   == [name |-> "other-init", image |-> Absent, provider |-> Absent, target |-> Absent,
                env |-> Absent, group |-> Absent, mounts |-> <<>>]
Changes(p) ==
  {[p EXCEPT !.containers = Append(@, <<>>)],
   [p EXCEPT !.inits = Append(@, OtherInit)],
   [p EXCEPT !.group = UserGroup]}
  \cup {[p EXCEPT !.ann = a] : a \in UserAnns}
  \cup (IF Contains(p.volumes, OtherVolume) THEN {}
        ELSE {[p EXCEPT !.volumes = Append(@, OtherVolume),
                        !.containers = Append(@, <<Mount(OtherVolume, "/other")>>)]})
  \cup (IF p.inits = <<>> THEN {} ELSE {[p EXCEPT !.inits = Front(@)]})
  \cup (IF p.group = NoContext THEN {[p EXCEPT !.group = Absent]} ELSE {})

OtherWebhook == /\ phase = "mutating"
                /\ others < MaxOthers
                /\ others' = others + 1
                /\ pod' \in Changes(pod) \ {pod}
                /\ dirty' = (calls > 0)
                /\ UNCHANGED <<cfg, dryRun, calls, last, phase, lost>>

\* What the API server's validation asks of volumes and mounts.
AllMounts(p) == ToSet(p.containers) \cup {c.mounts : c \in ToSet(p.inits)}
MountsResolve(p) ==
  \A ms \in AllMounts(p) : \A m \in ToSet(ms) : m.volume \in ToSet(p.volumes)
PathsUnique(p) ==
  \A ms \in AllMounts(p) : \A j, k \in DOMAIN ms : ms[j].at = ms[k].at => j = k
NamesUnique(p) ==
  /\ IsInjective(p.volumes)
  /\ \A j, k \in DOMAIN p.inits :
       p.inits[j].name = InitName /\ p.inits[k].name = InitName => j = k
Valid(p) == MountsResolve(p) /\ PathsUnique(p) /\ NamesUnique(p)

\* All webhooks were called: the pod is validated and stored.
Persist == /\ phase = "mutating" /\ calls > 0 /\ ~Due
           /\ phase' = IF Valid(pod) THEN "admitted" ELSE "invalid"
           /\ UNCHANGED <<cfg, dryRun, pod, calls, dirty, last, others, lost>>

Next == Review \/ ReviewLost \/ OtherWebhook \/ Persist

Spec == Init /\ [][Next]_vars

-----------------------------------------------------------------------------
(* What makes it correct.                                                  *)

TypeOK == /\ IsPod(pod)
          /\ calls \in 0..2 /\ dirty \in BOOLEAN
          /\ phase \in {"mutating", "admitted", "denied", "invalid"}
          /\ others \in 0..MaxOthers /\ lost \in 0..MaxLost
          /\ last # Absent => last.result \in Results

\* Every operation of an answer can be applied after those before it: no "/-"
\* on a list the pod does not have (mutator.go:252, 305, 319, 343, 469).
PatchesApply == last # Absent => AllApplicable(last.seen, last.patches)

\* A pod that left the webhook mutated is one it has nothing more to add to, also
\* after it was called before and others worked on the pod in between
\* (THREAT_MODEL.md:93-96).
Idempotent ==
  last # Absent /\ last.result = "mutated" /\ phase # "denied"
    => LET out == ApplyAll(last.seen, last.patches) IN Patches(out, cfg) = <<>>

\* No sequence of calls and changes duplicates what the webhook adds.
NothingTwice ==
  last # Absent /\ NamesUnique(last.seen)
    => NamesUnique(ApplyAll(last.seen, last.patches))

\* Nothing but the secret is mounted where the annotations want it, and the mounts
\* of the init container are at two places.
PathsFree(p, c) == p.ann # Absent =>
  /\ \A ms \in ToSet(p.containers) : \A m \in ToSet(ms) :
       m.at = MountPath(p.ann) => m = Mount(SecretVolume, m.at)
  /\ p.ann.provider = "local" => c.localBase # MountPath(p.ann)
  /\ NeedsKeeperVolume(p, c) => KeeperMountDir(c) # MountPath(p.ann)

\* The webhook does not make a pod invalid that the API server would have accepted:
\* every mount it adds is one of a volume that is there then, and no two mounts of a
\* container are at one place, however often it is called.
StaysValid ==
  last # Absent /\ Valid(last.seen) /\ PathsFree(last.seen, cfg)
    => Valid(ApplyAll(last.seen, last.patches))

\* All of `p` is still in `q`, at its place.
Extends(p, q) == /\ IsPrefix(p.volumes, q.volumes)
                 /\ IsPrefix(p.inits, q.inits)
                 /\ \A i \in DOMAIN p.containers :
                      i \in DOMAIN q.containers /\ IsPrefix(p.containers[i], q.containers[i])

\* Under a closed policy an annotated pod of an allowed namespace is not stored without
\* its init container, nor with a container, of those the webhook has seen, that does
\* not mount the volume the secret is written to where the annotations it saw want it.
\* That holds although answers are lost and others change annotations, group and lists
\* between the calls, unless one takes away what the last answer left.
StoredIsInjected ==
  /\ phase = "admitted" /\ cfg.failurePolicy = "Fail"
  /\ ~dryRun /\ ~Ignored(last.seen, cfg)
  /\ Extends(ApplyAll(last.seen, last.patches), pod)
  => /\ \E c \in ToSet(pod.inits) :
          c.name = InitName /\ Mount(SecretVolume, c.target) \in ToSet(c.mounts)
     /\ \A i \in DOMAIN last.seen.containers :
          Mount(SecretVolume, MountPath(last.seen.ann)) \in ToSet(pod.containers[i])

\* The settings of the webhook that the init container of a pod depends on, none of
\* which it checks (cmd/webhook/main.go:138-149, mutator.go:20-24).  The provider is
\* built into the image; for the keeper, the size limit for the client can be parsed,
\* a pod that skips the verification has no server CA, and the files that are read are
\* in the directory of the client certificate.
FilesRead(c) == {c.serverCA} \cup (IF c.keyPath = Absent \/ c.certPath = Absent THEN {}
                                  ELSE {c.certPath, c.keyPath})
CertDir(c)   == (IF c.certPath = Absent THEN DefaultCertPath ELSE c.certPath).dir
FitsKeeper(c, skipVerify) ==
  /\ c.clientMax # "bad"
  /\ skipVerify => c.serverCA = Absent
  /\ \A f \in FilesRead(c) \ {Absent} :
       c.clientCert /\ f.dir = CertDir(c) /\ f.name \in SecretFiles
Fits(x, c) == /\ x.provider \in c.image
              /\ x.provider = "keeper" => FitsKeeper(c, x.env.skipVerify)

\* The webhook and chur-init agree: of the init containers that were admitted exactly
\* those start, environment, mounts and provider being what chur-init accepts, whose
\* settings in the webhook's configuration fit.  Nothing else can be wrong with them,
\* whatever the annotations and whatever others changed since.
StartsIfItFits ==
  phase = "admitted"
    => \A x \in ToSet(pod.inits) : x.name = InitName => (Starts(x) <=> Fits(x, cfg))

\* What the user or another webhook put in the pod is there afterwards, in the
\* same order: the webhook only adds.
KeepsOthers ==
  [][Review => /\ Extends(pod, pod')
               /\ DOMAIN pod'.containers = DOMAIN pod.containers
               /\ pod.group \notin {NoContext, Absent} => pod'.group = pod.group]_vars

\* README.md:175 and :249: the webhook injects the tmpfs volume and mounts the
\* client certificate; every mount it adds is then one of a volume it added.
InjectedMountsResolve == last # Absent /\ MountsResolve(last.seen) => MountsResolve(pod)

\* README.md:245-249: "deploy keeper with keeper.mtls.enabled=true. The webhook
\* automatically injects" the paths, "no chur.io/provider-env annotation needed", and
\* "mounts the client certificate secret": the pods of such a deployment start.
MTLSStarts == phase = "admitted"
                => \A c \in ToSet(pod.inits) : c.name = InitName => Starts(c)

\* mutator.go:169-171: MutatePod returns nil when no mutation is required, so that an
\* answer that is reported as mutated, and counted as an injection (server.go:216),
\* changed the pod.
MutatedMeansChanged == [][Review /\ last'.result = "mutated" => pod' # pod]_vars
=============================================================================
