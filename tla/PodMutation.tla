---------------------------- MODULE PodMutation ----------------------------
(***************************************************************************)
(* MutatePod (internal/webhook/mutator.go) as a function from a pod and a  *)
(* configuration to an answer, and the JSON Patch operations it answers    *)
(* with as the API server applies them.                                    *)
(*                                                                         *)
(* A pod keeps what the mutator reads and writes: its namespace, its chur  *)
(* annotations, the group of its security context, its volumes (by name),  *)
(* its init containers and its containers, with their mounts.              *)
(***************************************************************************)
EXTENDS Integers, SequencesExt

CONSTANTS Absent,     \* no such annotation, field or answer
          NoContext   \* a pod without a security context

ASSUME FieldAssumption == Absent # NoContext

Providers == {"env", "local", "k8s", "keeper"}

IsSeq(s) == s \in Seq(ToSet(s))

IsPod(p) == /\ p = [namespace |-> p.namespace, ann |-> p.ann, group |-> p.group,
                    volumes |-> p.volumes, inits |-> p.inits, containers |-> p.containers]
            /\ IsSeq(p.volumes) /\ IsSeq(p.inits) /\ IsSeq(p.containers)
            /\ \A i \in DOMAIN p.containers : IsSeq(p.containers[i])

Mount(volume, at) == [volume |-> volume, at |-> at]

\* A path of the TLS settings: what is before its last "/" and what is after it.
File(dir, name) == [dir |-> dir, name |-> name]

\* A patch is an "add": to a field, or with "/-" to the end of a list.  `i` is
\* the index of the container in "/spec/containers/i/volumeMounts".
Patch(path, i, value) == [path |-> path, i |-> i, value |-> value]

-----------------------------------------------------------------------------
(* JSON Patch (external), as the API server applies it.  Empty lists are   *)
(* not in the JSON of a pod, so nothing can be added to the end of them.   *)

Applicable(p, op) ==
  CASE op.path = "securityContext/fsGroup" -> p.group # NoContext
    [] op.path = "volumes/-"               -> p.volumes # <<>>
    [] op.path = "initContainers/-"        -> p.inits # <<>>
    [] op.path = "volumeMounts"            -> op.i \in DOMAIN p.containers
    [] op.path = "volumeMounts/-"          -> p.containers[op.i] # <<>>
    [] OTHER                               -> TRUE

Apply(p, op) ==
  CASE op.path \in {"securityContext", "securityContext/fsGroup"}
                                    -> [p EXCEPT !.group = op.value]
    [] op.path = "volumes"          -> [p EXCEPT !.volumes = op.value]
    [] op.path = "volumes/-"        -> [p EXCEPT !.volumes = Append(@, op.value)]
    [] op.path = "initContainers"   -> [p EXCEPT !.inits = op.value]
    [] op.path = "initContainers/-" -> [p EXCEPT !.inits = Append(@, op.value)]
    [] op.path = "volumeMounts"     -> [p EXCEPT !.containers[op.i] = op.value]
    [] op.path = "volumeMounts/-"   -> [p EXCEPT !.containers[op.i] = Append(@, op.value)]

\* The pod before the first operation, and after each.
Applied(p, ops) ==
  LET after[k \in 0..Len(ops)] == IF k = 0 THEN p ELSE Apply(after[k - 1], ops[k])
  IN  after

ApplyAll(p, ops) == Applied(p, ops)[Len(ops)]

AllApplicable(p, ops) == \A k \in DOMAIN ops : Applicable(Applied(p, ops)[k - 1], ops[k])

-----------------------------------------------------------------------------
(* The mutator.                                                            *)

\* A pod the webhook lets pass: no annotation, or not one of its namespaces.
Ignored(p, cfg) == \/ p.ann = Absent
                   \/ cfg.namespaces # {} /\ p.namespace \notin cfg.namespaces

\* buildInitEnv refuses what the webhook does not allow and what it cannot parse.
EnvRefused(a, cfg) == \/ a.extra = "bad"
                      \/ a.provider = "keeper" /\ a.skipVerify /\ ~cfg.allowSkipVerify

\* Nested references are for the keeper only.
Refs(provider) == IF provider = "keeper" THEN {"flat", "nested"} ELSE {"flat"}

\* ErrValidation.  The order of the checks shows in the message only.
Invalid(p, cfg) == LET a == p.ann IN
  \/ a.provider \notin Providers
  \/ a.ref \notin Refs(a.provider)
  \/ a.key = "bad" \/ a.mount = "bad"
  \/ EnvRefused(a, cfg)

MountPath(a) == IF a.mount = "" THEN "/secrets" ELSE a.mount

FSGroup(p, cfg) == IF p.group \in {NoContext, Absent} THEN cfg.fsGroup ELSE p.group

\* (Mutant of SecurityContextPatch: an fsGroup that is set is set again.)
SecurityContextPatchAlways(p, cfg) ==
  IF p.group = NoContext THEN <<Patch("securityContext", 0, FSGroup(p, cfg))>>
  ELSE <<Patch("securityContext/fsGroup", 0, FSGroup(p, cfg))>>

SecurityContextPatch(p, cfg) ==
  CASE p.group = NoContext -> <<Patch("securityContext", 0, FSGroup(p, cfg))>>
    [] p.group = Absent    -> <<Patch("securityContext/fsGroup", 0, FSGroup(p, cfg))>>
    [] OTHER               -> <<>>

SecretVolume == "chur-secrets"
LocalVolume  == "chur-local-base"
KeeperVolume == "chur-keeper-client-tls"

NeedsKeeperVolume(p, cfg) == p.ann.provider = "keeper" /\ cfg.clientCert

\* A volume is added when there is none of its name: as the whole list when the
\* pod as it was received has none, at the end of the list otherwise.
AddVolume(p, name) ==
  IF Contains(p.volumes, name) THEN <<>>
  ELSE IF p.volumes = <<>> THEN <<Patch("volumes", 0, <<name>>)>>
  ELSE <<Patch("volumes/-", 0, name)>>

VolumePatches(p, cfg) ==
  AddVolume(p, SecretVolume)
  \o (IF p.ann.provider = "local" /\ ~Contains(p.volumes, LocalVolume)
      THEN <<Patch("volumes/-", 0, LocalVolume)>> ELSE <<>>)
  \o (IF NeedsKeeperVolume(p, cfg) THEN AddVolume(p, KeeperVolume) ELSE <<>>)

\* buildInitEnv: the provider's settings come from the webhook's configuration, as
\* they stand there.  (Provider, target and key are told by the annotations.)
InitEnv(p, cfg) == LET ofKeeper(x) == IF p.ann.provider = "keeper" THEN x ELSE Absent IN
  [ref        |-> p.ann.ref,
   base       |-> cfg.localBase,
   cert       |-> ofKeeper(cfg.certPath),
   key        |-> ofKeeper(cfg.keyPath),
   serverCA   |-> ofKeeper(cfg.serverCA),
   limit      |-> ofKeeper(cfg.clientMax),
   skipVerify |-> p.ann.provider = "keeper" /\ p.ann.skipVerify]

\* (Mutant of KeeperMountDir: the default directory whatever is configured.)
KeeperMountDirDefault(cfg) == "/etc/chur-keeper/client-tls"

\* Where the client certificate is mounted: the directory of the certificate's
\* path.  The default is a directory, and is cut like the path of a file.
DefaultCertPath == File("/etc/chur-keeper", "client-tls")
KeeperMountDir(cfg) == (IF cfg.certPath = Absent THEN DefaultCertPath ELSE cfg.certPath).dir

\* buildInitContainer.  An image is the set of the providers it was built with.
InitName == "chur-init"
InitContainer(p, cfg) ==
  [name     |-> InitName,
   image    |-> cfg.image,
   provider |-> p.ann.provider,
   target   |-> MountPath(p.ann),
   env      |-> InitEnv(p, cfg),
   group    |-> IF cfg.runAsGroup = Absent THEN FSGroup(p, cfg) ELSE cfg.runAsGroup,
   mounts   |-> <<Mount(SecretVolume, MountPath(p.ann))>>
                \o (IF p.ann.provider = "local"
                    THEN <<Mount(LocalVolume, cfg.localBase)>> ELSE <<>>)
                \o (IF NeedsKeeperVolume(p, cfg)
                    THEN <<Mount(KeeperVolume, KeeperMountDir(cfg))>> ELSE <<>>)]

HasInit(p) == \E k \in DOMAIN p.inits : p.inits[k].name = InitName

\* (Mutant of InitPatch: the container is added without looking for it.)
InitPatchAlways(p, cfg) ==
  IF p.inits = <<>> THEN <<Patch("initContainers", 0, <<InitContainer(p, cfg)>>)>>
  ELSE <<Patch("initContainers/-", 0, InitContainer(p, cfg))>>
\* (Mutant of InitPatch: the pod's own init containers are replaced.)
InitPatchReplacing(p, cfg) ==
  IF HasInit(p) THEN <<>>
  ELSE <<Patch("initContainers", 0, <<InitContainer(p, cfg)>>)>>
\* (Mutant of InitPatch: "/-" on a list that may not be there.)
InitPatchAtEnd(p, cfg) ==
  IF HasInit(p) THEN <<>> ELSE <<Patch("initContainers/-", 0, InitContainer(p, cfg))>>

InitPatch(p, cfg) ==
  IF HasInit(p) THEN <<>>
  ELSE IF p.inits = <<>> THEN <<Patch("initContainers", 0, <<InitContainer(p, cfg)>>)>>
  ELSE <<Patch("initContainers/-", 0, InitContainer(p, cfg))>>

\* (Mutant of MountPatch: the mount is added without looking for it.)
MountPatchAlways(p, i) == LET m == Mount(SecretVolume, MountPath(p.ann)) IN
  IF p.containers[i] = <<>> THEN <<Patch("volumeMounts", i, <<m>>)>>
  ELSE <<Patch("volumeMounts/-", i, m)>>

MountPatch(p, i) == LET m == Mount(SecretVolume, MountPath(p.ann)) IN
  IF Contains(p.containers[i], m) THEN <<>>
  ELSE IF p.containers[i] = <<>> THEN <<Patch("volumeMounts", i, <<m>>)>>
  ELSE <<Patch("volumeMounts/-", i, m)>>

\* (Mutant of MountPatches: once the init container is there, all is done.)
MountPatchesOnce(p) ==
  IF HasInit(p) THEN <<>>
  ELSE FlattenSeq([i \in DOMAIN p.containers |-> MountPatch(p, i)])

MountPatches(p) == FlattenSeq([i \in DOMAIN p.containers |-> MountPatch(p, i)])

Patches(p, cfg) == SecurityContextPatch(p, cfg) \o VolumePatches(p, cfg)
                   \o InitPatch(p, cfg) \o MountPatches(p)

\* The three results of MutatePod: nothing to do, an error, patches (perhaps none).
MutatePod(p, cfg) ==
  IF Ignored(p, cfg) THEN [kind |-> "nil", patches |-> <<>>]
  ELSE IF Invalid(p, cfg) THEN [kind |-> "error", patches |-> <<>>]
  ELSE [kind |-> "patch", patches |-> Patches(p, cfg)]
=============================================================================
