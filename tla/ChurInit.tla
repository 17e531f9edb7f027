------------------------------ MODULE ChurInit ------------------------------
(***************************************************************************)
(* chur-init (cmd/init/main.go) in one pod: a process that validates its   *)
(* environment, creates a provider, fetches one secret with retries under  *)
(* one 30 second context, and puts it in the pod's tmpfs through a         *)
(* temporary file, a rename and a chmod.  Around it stand the kubelet,     *)
(* which runs it again after a failure and starts the pod's containers     *)
(* after it succeeds, the tmpfs, which outlives it, and the source of the  *)
(* secret, which may be out of service and may change its value.           *)
(*                                                                         *)
(* Time is counted in ticks from the start of the process; file writes     *)
(* take none.  The process may be killed between any two steps.            *)
(***************************************************************************)
EXTENDS Integers

CONSTANTS
  Secrets,      \* the values the source may hold
  Size,         \* Size[s] is the length of the value s
  NoSecret,     \* no value: nothing was fetched yet
  NoFile,       \* no file
  Envs,         \* the environments the container may have been given
  Registered,   \* the providers the binary was built with
  DefaultMax,   \* the 1 MiB limit of the local and keeper providers
  VolumeLimit,  \* the sizeLimit of the tmpfs
  NameMax,      \* the longest file name the file system takes
  CreateMode,   \* "0640" as the umask of the process leaves it
  MaxRetries,   \* attempts per retry loop
  Second,       \* ticks per second
  Jitter,       \* what jitter may add to a delay, in ticks
  Deadline,     \* the timeout of the context, in ticks
  CallTimes,    \* how long a call to the provider may take
  PromptTimes,  \* how long it takes when the source is in service
  MaxCrashes,   \* bound: kills of the process and losses of the sandbox
  MaxIOErrors   \* bound: failing system calls

Malformed == -1     \* a size that does not parse
TmpSuffix == 4      \* the length of ".tmp"

Environment == [provider  : {"env", "local", "k8s", "keeper"},
                refLen    : Nat,       \* of the last element of the reference
                refNested : BOOLEAN,   \* does the reference have a '/'?
                mountOK   : BOOLEAN,   \* does ValidateMountPath accept the path?
                maxSize   : Nat \cup {Malformed},   \* CHUR_MAX_SECRET_SIZE
                clientMax : Nat \cup {Malformed},   \* CHUR_KEEPER_CLIENT_MAX_SECRET_SIZE
                usable    : BOOLEAN]   \* is the provider's own configuration right?

Modes == {"0640", "0600"}
File  == [data : Secrets, whole : BOOLEAN, mode : Modes]

ASSUME SecretAssumption == /\ NoSecret \notin Secrets
                           /\ NoFile \notin File
                           /\ NoFile \notin [data : Secrets, shared : BOOLEAN]
ASSUME SizeAssumption   == /\ Size \in [Secrets -> Nat]
                           /\ {DefaultMax, VolumeLimit, NameMax} \subseteq Nat
ASSUME EnvAssumption    == Envs \subseteq Environment
ASSUME ModeAssumption   == CreateMode \in Modes
ASSUME RetryAssumption  == MaxRetries \in Nat \ {0}
ASSUME TimeAssumption   == /\ Second \in Nat \ {0} /\ Deadline \in Nat
                           /\ Jitter \cup CallTimes \cup PromptTimes \subseteq Nat
                           /\ \A k \in 0..MaxRetries : 2 ^ k \in Nat \ {0}
ASSUME BoundAssumption  == MaxCrashes \in Nat /\ MaxIOErrors \in Nat

VARIABLES
  env,        \* the environment of the container, fixed by the pod
  source,     \* the value the source holds
  healthy,    \* is the source in service?
  offered,    \* history: the values the source held since the process started
  pc,         \* where main() is
  now,        \* ticks since the context was created
  attempt,    \* the loop variable of initProvider and of backoffFetch
  secret,     \* the value in memory
  tmp, path,  \* the files at path + ".tmp" and at path
  dir,        \* the directory of path: the "volume" itself, or one made "0700"
  app,        \* are the pod's containers "blocked" or "running"?
  crashes, ioErrors

vars    == <<env, source, healthy, offered, pc, now, attempt, secret,
             tmp, path, dir, app, crashes, ioErrors>>
world   == <<env, source, healthy, offered, app, crashes>>
memory  == <<now, attempt, secret>>
volume  == <<tmp, path, dir>>

Running == {"validate", "factory", "factoryWait", "fetch", "fetchWait", "check",
            "mkdir", "open", "write", "rename", "chmod"}

-----------------------------------------------------------------------------
(* What the providers check.                                               *)

ValidSecretRef(e) == e.refLen \in 1..255 /\ ~e.refNested
ValidKeeperRef(e) == e.refLen \in 1..4096
\* resolveValidator: only keeper references may have a '/'.
ValidRef(e) == IF e.provider = "keeper" THEN ValidKeeperRef(e) ELSE ValidSecretRef(e)

\* What a provider's factory checks is fixed by the environment, so that it
\* fails on every attempt or on none.
LocalFactory(e)  == e.usable /\ e.maxSize # Malformed
KeeperFactory(e) == e.usable /\ e.clientMax # Malformed
K8sFactory(e)    == e.usable
FactoryAccepts(e) == /\ e.provider = "local" => LocalFactory(e)
                     /\ e.provider = "keeper" => KeeperFactory(e)
                     /\ e.provider = "k8s" => K8sFactory(e)

\* env fails when the variable is not set, local and keeper when they read more
\* than their own limit, which a size of zero leaves at its default.
LimitOr(n)        == IF n > 0 THEN n ELSE DefaultMax
EnvReads(e)       == e.usable
LocalReads(e, s)  == Size[s] <= LimitOr(e.maxSize)
KeeperReads(e, s) == Size[s] <= LimitOr(e.clientMax)
Fetchable(e, s)   == /\ e.provider = "env" => EnvReads(e)
                     /\ e.provider = "local" => LocalReads(e, s)
                     /\ e.provider = "keeper" => KeeperReads(e, s)

\* k8s and keeper pass the context to a network call that ends with it; env
\* does not look at it, and local takes whichever of the two comes first.
CtxBound == {"k8s", "keeper"}

\* May a call that takes d ticks return a value, and may it fail?
InTime(d)    == env.provider \in CtxBound => now < Deadline /\ now + d <= Deadline
TimesOut(d)  == env.provider # "env" /\ now + d >= Deadline
Earliest(a, b) == IF a <= b THEN a ELSE b
Latest(a, b)   == IF a >= b THEN a ELSE b
CallEnd(d)   == IF env.provider \in CtxBound
                THEN Earliest(now + d, Latest(now, Deadline)) ELSE now + d
Durations    == IF healthy THEN PromptTimes ELSE CallTimes

-----------------------------------------------------------------------------
Init == /\ env \in Envs
        /\ source \in Secrets
        /\ healthy \in BOOLEAN
        /\ offered = {source}
        /\ pc = "idle" /\ now = 0 /\ attempt = 0 /\ secret = NoSecret
        /\ tmp = NoFile /\ path = NoFile /\ dir = "volume"
        /\ app = "blocked"
        /\ crashes = 0 /\ ioErrors = 0

\* The kubelet starts the container, or starts it again after a failure.
Begin == /\ pc \in {"idle", "failed"}
         /\ pc' = "validate"
         /\ now' = 0 /\ attempt' = 0 /\ secret' = NoSecret
         /\ offered' = {source}
         /\ UNCHANGED <<env, source, healthy, volume, app, crashes, ioErrors>>

Goto(from, to) == pc = from /\ pc' = to

\* main() up to the creation of the context and the lookup of the factory.
Validate == /\ \/ /\ Goto("validate", "factory")
                  /\ ValidRef(env) /\ env.provider \in Registered
               \/ /\ Goto("validate", "failed")
                  /\ ~(ValidRef(env) /\ env.provider \in Registered)
            /\ UNCHANGED <<world, memory, volume, ioErrors>>

\* (Mutants of Retry: one attempt too many, one too few.)
RetryOnceMore(wait) == \/ attempt < MaxRetries /\ attempt' = attempt + 1 /\ pc' = wait
                       \/ attempt >= MaxRetries /\ pc' = "failed" /\ UNCHANGED attempt
RetryOnceLess(wait) == \/ attempt + 2 < MaxRetries /\ attempt' = attempt + 1 /\ pc' = wait
                       \/ attempt + 2 >= MaxRetries /\ pc' = "failed" /\ UNCHANGED attempt

\* The end of a failed iteration of either retry loop.
Retry(wait) == \/ /\ attempt + 1 < MaxRetries
                  /\ attempt' = attempt + 1
                  /\ pc' = wait
               \/ /\ attempt + 1 >= MaxRetries
                  /\ pc' = "failed"
                  /\ UNCHANGED attempt

\* initProvider: one call of factory(ctx).
CallFactory ==
  /\ pc = "factory"
  /\ \E d \in Durations :
       \/ /\ FactoryAccepts(env)
          /\ now' = now + d
          /\ attempt' = 0
          /\ pc' = "fetch"
       \/ /\ \/ ~FactoryAccepts(env)
             \/ ~healthy /\ env.provider \in {"k8s", "keeper"}
             \/ env.provider = "k8s" /\ TimesOut(d)
          /\ now' = now + d
          /\ Retry("factoryWait")
  /\ UNCHANGED <<world, secret, volume, ioErrors>>

\* backoffFetch: one call of GetSecret.  Once it returns a value nothing looks at
\* the context or the loop again, and both are reset to keep the states few.
CallGetSecret ==
  /\ pc = "fetch"
  /\ \E d \in Durations :
       \/ /\ Fetchable(env, source) /\ InTime(d)
          /\ secret' = source
          /\ pc' = "check"
          /\ now' = 0 /\ attempt' = 0
       \/ /\ \/ ~Fetchable(env, source)
             \/ ~healthy /\ env.provider # "env"
             \/ TimesOut(d)
          /\ now' = CallEnd(d)
          /\ Retry("fetchWait")
          /\ UNCHANGED secret
  /\ UNCHANGED <<world, volume, ioErrors>>

Delay(k) == 2 ^ (k - 1) * Second

\* (Mutant of Backoff: a sleep that does not look at the context.)
BackoffAsleep(wait, call) ==
  /\ pc = wait /\ pc' = call
  /\ \E j \in Jitter : now' = now + Delay(attempt) + j
  /\ UNCHANGED <<world, attempt, secret, volume, ioErrors>>

\* The select between ctx.Done and the timer of the backoff, in either loop.
Backoff(wait, call) ==
  /\ pc = wait
  /\ \E j \in Jitter : LET fires == now + Delay(attempt) + j IN
       \/ /\ fires <= Deadline
          /\ now' = fires
          /\ pc' = call
       \/ /\ fires >= Deadline
          /\ now' = Latest(now, Deadline)
          /\ pc' = "failed"
  /\ UNCHANGED <<world, attempt, secret, volume, ioErrors>>

\* The size and the mount path are checked after the secret was fetched.
Acceptable(e, s) == e.maxSize # Malformed /\ Size[s] <= e.maxSize /\ e.mountOK

\* (Mutant of Check: a file that is there already will do.)
CheckUnlessThere ==
  /\ pc = "check"
  /\ pc' = IF path # NoFile THEN "chmod"
           ELSE IF Acceptable(env, secret) THEN "mkdir" ELSE "failed"
  /\ UNCHANGED <<world, memory, volume, ioErrors>>

Check == /\ \/ Goto("check", "mkdir") /\ Acceptable(env, secret)
            \/ Goto("check", "failed") /\ ~Acceptable(env, secret)
         /\ UNCHANGED <<world, memory, volume, ioErrors>>

\* A system call of the process fails.
IOError == ioErrors < MaxIOErrors /\ ioErrors' = ioErrors + 1

\* MkdirAll makes the directories of a nested reference; for a flat one the
\* directory is the root of the volume, which is there.
MakeDir ==
  /\ \/ /\ Goto("mkdir", "open")
        /\ dir' = IF env.refNested THEN "0700" ELSE dir
        /\ UNCHANGED ioErrors
     \/ Goto("mkdir", "failed") /\ IOError /\ UNCHANGED dir
  /\ UNCHANGED <<world, memory, tmp, path>>

NameFits == env.refLen + TmpSuffix <= NameMax

\* (Mutants of OpenTmp: the file is opened in place; the temporary file is
\* created with O_EXCL.)
OpenInPlace ==
  /\ Goto("open", "write")
  /\ tmp' = [data |-> secret, whole |-> FALSE, mode |-> CreateMode]
  /\ path' = tmp'
  /\ UNCHANGED <<world, memory, dir, ioErrors>>
OpenExclusive ==
  /\ pc = "open"
  /\ IF NameFits /\ tmp = NoFile
     THEN /\ pc' = "write"
          /\ tmp' = [data |-> secret, whole |-> FALSE, mode |-> CreateMode]
     ELSE pc' = "failed" /\ UNCHANGED tmp
  /\ UNCHANGED <<world, memory, path, dir, ioErrors>>

\* WriteFile creates or truncates the temporary file; an existing file keeps
\* its mode.
OpenTmp ==
  /\ \/ /\ Goto("open", "write")
        /\ NameFits
        /\ tmp' = [data |-> secret, whole |-> FALSE,
                   mode |-> IF tmp = NoFile THEN CreateMode ELSE tmp.mode]
        /\ UNCHANGED ioErrors
     \/ /\ Goto("open", "failed")
        /\ \/ ~NameFits /\ UNCHANGED ioErrors
           \/ NameFits /\ IOError
        /\ tmp' = NoFile
  /\ UNCHANGED <<world, memory, path, dir>>

\* WriteFile writes it.  Both files are in the volume at that moment.
Room == Size[secret] + (IF path = NoFile THEN 0 ELSE Size[path.data]) <= VolumeLimit
WriteTmp ==
  /\ \/ /\ Goto("write", "rename")
        /\ Room
        /\ tmp' = [tmp EXCEPT !.whole = TRUE]
        /\ UNCHANGED ioErrors
     \/ /\ Goto("write", "failed")
        /\ \/ ~Room /\ UNCHANGED ioErrors
           \/ Room /\ IOError
        /\ tmp' = NoFile
  /\ UNCHANGED <<world, memory, path, dir>>

\* (Mutant of Rename: the error path forgets the temporary file.)
RenameLeavingTmp ==
  /\ \/ Goto("rename", "chmod") /\ path' = tmp /\ tmp' = NoFile /\ UNCHANGED ioErrors
     \/ Goto("rename", "failed") /\ IOError /\ UNCHANGED <<path, tmp>>
  /\ UNCHANGED <<world, memory, dir>>

Rename == /\ \/ Goto("rename", "chmod") /\ path' = tmp /\ UNCHANGED ioErrors
             \/ Goto("rename", "failed") /\ IOError /\ UNCHANGED path
          /\ tmp' = NoFile
          /\ UNCHANGED <<world, memory, dir>>

\* (Mutant of Chmod: its error is ignored.)
ChmodUnchecked == /\ Goto("chmod", "done")
                  /\ \/ path' = [path EXCEPT !.mode = "0640"] /\ UNCHANGED ioErrors
                     \/ IOError /\ UNCHANGED path
                  /\ UNCHANGED <<world, memory, tmp, dir>>

Chmod == /\ \/ /\ Goto("chmod", "done")
               /\ path' = [path EXCEPT !.mode = "0640"]
               /\ UNCHANGED ioErrors
            \/ Goto("chmod", "failed") /\ IOError /\ UNCHANGED path
         /\ UNCHANGED <<world, memory, tmp, dir>>

-----------------------------------------------------------------------------
(* The world around the process.                                           *)

\* The process exited with 0, the kubelet starts the pod's containers.
StartApp == /\ pc = "done" /\ app = "blocked"
            /\ app' = "running"
            /\ UNCHANGED <<env, source, healthy, offered, pc, memory, volume,
                           crashes, ioErrors>>

\* The process is killed; what it held in memory is lost, the tmpfs is not.
Crash == /\ pc \in Running
         /\ crashes < MaxCrashes
         /\ crashes' = crashes + 1
         /\ pc' = "idle" /\ now' = 0 /\ attempt' = 0 /\ secret' = NoSecret
         /\ UNCHANGED <<env, source, healthy, offered, volume, app, ioErrors>>

\* The pod's sandbox is lost: every container stops, the init containers run
\* again, and the volume stays.
SandboxRestart == /\ pc = "done"
                  /\ crashes < MaxCrashes
                  /\ crashes' = crashes + 1
                  /\ pc' = "idle" /\ app' = "blocked" /\ secret' = NoSecret
                  /\ UNCHANGED <<env, source, healthy, offered, now, attempt,
                                 volume, ioErrors>>

\* The secret is replaced at its source.  The variables of a process do not
\* change, so this is not for the env provider.
Rotate == /\ env.provider # "env"
          /\ source' \in Secrets \ {source}
          /\ offered' = offered \cup {source'}
          /\ UNCHANGED <<env, healthy, pc, memory, volume, app, crashes, ioErrors>>

\* An outage of the source ends.
Recover == /\ ~healthy
           /\ healthy' = TRUE
           /\ UNCHANGED <<env, source, offered, pc, memory, volume, app,
                          crashes, ioErrors>>

Process == \/ Validate \/ CallFactory \/ Backoff("factoryWait", "factory")
           \/ CallGetSecret \/ Backoff("fetchWait", "fetch")
           \/ Check \/ MakeDir \/ OpenTmp \/ WriteTmp \/ Rename \/ Chmod
Kubelet == Begin \/ StartApp

Next == Process \/ Kubelet \/ Crash \/ SandboxRestart \/ Rotate \/ Recover

Spec == Init /\ [][Next]_vars

\* A process that can take a step takes it, the kubelet restarts containers and
\* starts the next ones, and an outage ends.  Nothing obliges the source to
\* rotate or the process to crash.
Fairness == WF_vars(Process) /\ WF_vars(Kubelet) /\ WF_vars(Recover)
FairSpec == Spec /\ Fairness
-----------------------------------------------------------------------------
(* What makes it correct.                                                  *)

\* Every variable has its type.
TypeOK == /\ env \in Envs
          /\ source \in Secrets /\ offered \in SUBSET Secrets
          /\ healthy \in BOOLEAN
          /\ pc \in Running \cup {"idle", "failed", "done"}
          /\ now \in Nat /\ attempt \in 0..(MaxRetries - 1)
          /\ secret \in Secrets \cup {NoSecret}
          /\ tmp \in File \cup {NoFile} /\ path \in File \cup {NoFile}
          /\ dir \in {"volume", "0700"}
          /\ app \in {"blocked", "running"}
          /\ crashes \in 0..MaxCrashes /\ ioErrors \in 0..MaxIOErrors

\* Whatever happens, kills in the middle of a write included, a file at path is
\* a complete secret that passed the checks of this environment: WriteFile works
\* on the temporary file only (main.go:97-103).
PathIsComplete ==
  path # NoFile => path.whole /\ Fetchable(env, path.data) /\ Acceptable(env, path.data)

\* The containers run only over a file the group can read, with a value the
\* source held during the very run of chur-init that let them start, never one
\* that an earlier, killed run left in the tmpfs.
AppSeesFreshSecret ==
  app = "running" => /\ path # NoFile
                     /\ path.whole /\ path.data \in offered
                     /\ path.mode = "0640"

\* A run that succeeds leaves no temporary copy of the secret, and one that
\* fails leaves none either unless an earlier run was killed: every error path
\* after the creation of the file removes it (main.go:99, 104).
NoLeftover == /\ pc = "done" => tmp = NoFile
              /\ pc = "failed" /\ crashes = 0 => tmp = NoFile

\* The process gives up on its provider only after all the attempts of a loop or
\* after the end of its context.
GivesUpLate ==
  [][(pc \in {"factory", "factoryWait", "fetch", "fetchWait"} /\ pc' = "failed")
       => (attempt = MaxRetries - 1 \/ now' >= Deadline)]_vars

\* Whatever is out of service, and however the attempts and the backoffs of both
\* loops add up on the context they share, the process is past its deadline by no
\* more than one call of the factory and, for a provider that does not pass the
\* context on, one of GetSecret (main.go:39-40, 121-126, 148-153).
EndsOnTime ==
  \E f, g \in CallTimes \cup PromptTimes \cup {0} :
    now <= Deadline + f + g /\ (env.provider \in CtxBound => g = 0)

\* Can the pod be served at all?  Its environment is accepted at every check,
\* with every value of the secret, and two versions fit in the volume.
Servable(e) == /\ ValidRef(e) /\ e.provider \in Registered
               /\ FactoryAccepts(e)
               /\ \A s \in Secrets : Fetchable(e, s) /\ Acceptable(e, s)
TwoVersionsFit == \A s, t \in Secrets : Size[s] + Size[t] <= VolumeLimit

\* A pod that can be served gets its secret and starts, through outages, kills
\* and failing system calls, and does so again when its sandbox is lost.
Delivered == Servable(env) /\ NameFits /\ TwoVersionsFit ~> app = "running"

\* ValidateSecretRef promises that the reference can be the name of the file
\* in the tmpfs mount (validate.go:10-12): then no pod it accepts is stuck.
AcceptedNameDelivered == Servable(env) /\ TwoVersionsFit ~> app = "running"

\* The file is shared with the pod's group: a container of the group can read
\* it, which takes its mode and that of its directory.
GroupCanRead == app = "running" => path.mode = "0640" /\ dir # "0700"

\* The file as the containers know it: a torn one would be no secret at all.
DeliveredFile == IF path = NoFile THEN NoFile
                 ELSE [data   |-> IF path.whole THEN path.data ELSE NoSecret,
                       shared |-> path.mode = "0640"]

Delivery == INSTANCE SecretDelivery WITH fresh <- offered, file <- DeliveredFile

\* chur-init implements the abstract delivery.
ImplementsDelivery == Delivery!Spec
=============================================================================
