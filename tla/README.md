# A verification development for chur

chur puts a secret into a pod's memory: a mutating admission webhook (chur-webhook) gives the
pod an init container, the init container (chur-init) fetches one secret and writes it to a
tmpfs, and a server (chur-keeper) can stand between chur-init and the place the secrets are
kept. This directory models these three programs in TLA+, model-checks them on small instances
with TLC and proves what matters most about them, for every instance, with TLAPS.

    tlc -workers 2 -config MCKeeperServer.cfg MCKeeperServer     # one run
    tlapm KeeperServer_proofs.tla                                # one module of proofs

`PROJECT.json` lists the runs, the mutants each property is tested with (a plausible bug in one
definition, under which TLC finds the property violated), the source lines of every definition,
the findings, the hazards and the theorems.

## 1. The system

| component | code | state it keeps | operations |
|---|---|---|---|
| chur-init | `cmd/init/main.go` | the loop counters and the 30 s context; the secret in memory; `path` and `path.tmp` in the tmpfs, which outlives the process | validate, create the provider, fetch, check, mkdir, write, rename, chmod |
| secret providers | `internal/provider`, `internal/providers/*` | a registry filled at start; nothing per call | factory, `GetSecret` |
| validation | `internal/validate`, `internal/bytesize` | none | reference, key, path and size checks |
| pod mutator | `internal/webhook/mutator.go` | none | `MutatePod`: pod and configuration to JSON Patch operations |
| admission review | `internal/webhook/server.go` | counters, a semaphore | `ServeHTTP`, `mutate` |
| keeper handler | `internal/keeper/server.go` | the semaphore channel, the gauge, the counters; a goroutine per request | `handleGetSecret` |
| keeper backends | `internal/keeper/{exec,http,filesystem}`, `internal/readutil` | a child process, a pipe, a reading goroutine, per call | `GetSecret` |
| server lifecycle | `run()` of `cmd/webhook/main.go`, `Serve` of `internal/keeper/server.go` | two serving goroutines, `errCh`, `firstErr` | serve, notify, shut down, wait, exit |
| TLS, configuration, health, metrics registry, log helpers, Helm chart | the rest | none that changes after the start | straight-line code |

How they interact. The API server calls the webhook, perhaps twice, and applies its patches;
other webhooks change the pod in between. The kubelet runs chur-init until it exits with 0 and
then starts the pod's containers, which read the file chur-init left. chur-init calls its
provider, the keeper provider calls the keeper's handler over TLS, the handler calls a backend,
which reads a file, runs a command or calls another server.
The pod, the tmpfs, the semaphore and the channel of errors are the shared state.

What is hard about it, and what makes it correct:

* chur-init can be killed between any two steps, and runs again over whatever the killed run
  left in the tmpfs; the secret can be rotated meanwhile; system calls fail one at a time; both
  retry loops share one deadline. Correct: the file is never torn, no container runs over an
  old or unreadable file, no copy stays behind, retries respect count and deadline, and a pod
  that can be served starts in the end.
* The mutator decides all patches on the pod as it was received, they are applied one after the
  other, and it is called again on its own output after others worked on it. Correct: the
  patches apply, undo nothing, add nothing twice, and what is stored is injected and consistent.
* The keeper's handler runs in as many goroutines as there are requests, takes its token and
  increments its gauge in two steps, and has many ways out, a panic among them; so does the
  webhook's. Correct: no token leaks, the gauge does not drift, the counters tell of what was
  answered, a request waits only for those that hold a token.
* A call of a backend waits for a file, a command with everything the command starts, or a
  server, beside goroutines of its own, under a deadline. Correct: it returns all of the secret
  or an error with a cause, leaves nothing behind, and ends if what it waits for does.
* What the webhook writes into a pod is read by another program, much later. Correct: an init
  container that was admitted is one chur-init accepts, if the webhook's settings fit together.
* The servers stop on a signal, on an error of either of their goroutines, or on both at once.
  Correct: the process always stops, its exit code tells of every failure, and it cuts off no
  request before the time of the shutdown is over.

`PROJECT.json` has the full list of hazards, each at its line.

## 2. The modules

| module | models | refines |
|---|---|---|
| `SecretDelivery` | the promise to the containers of a pod, abstractly | |
| `ChurInit` | chur-init, the kubelet, the tmpfs and the source | `SecretDelivery` |
| `PodMutation` | `MutatePod` and JSON Patch, as operators | |
| `InitContract` | what chur-init and its factories ask of the container `MutatePod` wrote; extends `PodMutation` | |
| `Admission` | the calls of the webhook for one pod, the API server and other webhooks; extends `InitContract` | |
| `Gate` | what a concurrency limit promises, abstractly: `Spec` for requests that come once, `EndlessSpec` for requests without end | |
| `WebhookServer` | `ServeHTTP`, `mutate` and `mutateWithMetrics` in every goroutine | `Gate` (`Spec`) |
| `KeeperServer` | `handleGetSecret` in every goroutine, and the connections of its clients | `Gate` (`EndlessSpec`) |
| `BackendCall` | what one call of a backend promises, abstractly | |
| `KeeperBackends` | `GetSecret` of the three backends, `ReadWithContext`, and os/exec as it is used | `BackendCall` |
| `ServerLifecycle` | the serving goroutines and main, of webhook and keeper | |
| `..._proofs` | the theorems about `ChurInit`, `PodMutation`, `Admission`, `WebhookServer`, `KeeperServer`, `KeeperBackends` and `ServerLifecycle`; `Admission_proofs` extends `PodMutation_proofs` | |
| `MC...` | the constants of the runs | |

Wherever a definition is followed or preceded by one called a mutant, the mutant is not part of
the model: it is the plausible bug one of the properties is tested with.

### ChurInit

One action per step of `main()`: `pc` is the place in the code, `attempt` the variable of the
loop it is in, `now` the time on the context. `Validate` is the part before the context;
`CallFactory` with `Backoff("factoryWait", "factory")` is `initProvider`, `CallGetSecret` with
`Backoff("fetchWait", "fetch")` is `backoffFetch`; `Retry` is the end of a failed iteration of
either. `Check` to `Chmod` are the rest. A file write is two steps, `OpenTmp` and `WriteTmp`, so
that a kill may leave a torn file. Failing system calls take the code's error paths, with the
removal of the temporary file in the same step.

What a provider checks is in `LocalFactory`, `KeeperFactory`, `K8sFactory`, `EnvReads`, `LocalReads`
and `KeeperReads`. A secret is a model value with a size; a reference is the length of its last element and whether
it has a '/'. A call takes any of `CallTimes`; k8s and keeper return at the end of the context,
local returns whichever comes first, env does not look at it, as in the code.

Around the process: `Begin` and `StartApp` (the kubelet), `Crash` (the process is killed),
`SandboxRestart` (the pod's sandbox is lost, init containers run again, the volume stays),
`Rotate` and `Recover` (the source). `offered` is a history variable, the values the source held
since the present run started. The umask is the constant `CreateMode`; the runs take the worst one.

The refinement mapping to `SecretDelivery` reads the file as the containers would: `DeliveredFile`
is no secret at all if it is torn, and is shared if its mode says so.

### PodMutation, InitContract and Admission

A pod is what the mutator reads and writes: namespace, annotations, fsGroup, volumes by name,
init containers and containers with their mounts. Annotations are members of small sets ("flat"
or "nested" for a reference, "ok" or "bad" for what only has to parse); a path of the TLS
settings is its directory and its last element, which is all `buildInitContainer` and the
provider tell apart. `Patches` is the sequence `MutatePod` returns, in its order; `Applicable`
and `Apply` are JSON Patch on a pod whose empty lists are not in its JSON, which is why "/-" on
them fails; `Applied` is the pod before the first operation and after each.

`InitEnv` is `buildInitEnv`, `KeeperMountDir` what becomes of the certificate's path, and `Starts`
the other side of them: `main()` up to the factory, `NewProvider` and the factories of keeper and
local, with the files that are mounted. The factories of env and k8s read nothing of the
container. A provider is there if the image was built with it: build tags may leave any of them out,
and the chart's slim image has no k8s (`mutator.go:20-24`, `values.yaml:22-24`), which the webhook does not know.

`Admission` adds one action per event: `Review` (a call and its answer), `ReviewLost` (its answer
is lost, worked on or not; failurePolicy decides), `OtherWebhook` (one change by someone else: lists grow, an init container is taken away, the chur
annotations are replaced or removed, the fsGroup is set or changed), `Persist` (validation). The counters are the
subject of `WebhookServer`.

### Gate, WebhookServer and KeeperServer

In both servers `pc[r]` says where the goroutine of request `r` is. `Route` is the part before the
select, `Acquire` and `Busy` its two cases, `IncGauge` the update after it, `Release` and
`DecGauge` the two statements of the deferred function. The listener's connection
limit equals the semaphore's capacity: only HTTP/2, where requests share a connection, can
make a request wait for a token. In `KeeperServer` the connections are in `open`: a client connects, sends one
request after the other over its connection or none at all, and the connection may be closed, also by the
keeper's timeouts, at any moment at which it carries no request (an HTTP/2 client may close it at
other moments too). A request that is done with is forgotten (`Forget`), with what it added to the
counters, and its client may send another, for ever. `ClientGone` cancels a context only where net/http would notice:
over HTTP/2, or once the body was read, after which the webhook never looks at its context, and
the keeper's backends see it as one of their errors. (chur-init's own client speaks HTTP/1.1.)

In `KeeperServer`, `Decode`, `Call` and `Answer` are the body of the handler, the metric being updated one
step before the reply is sent; a backend call is one step with
every outcome, a panic included, and need not happen. In `WebhookServer`, `Decode`, `Mutate`, `Record` and `Encode` are:
`mutate` counts a result, `mutateWithMetrics` counts the answer later, and other goroutines
run in between. What `MutatePod` does with a pod is a kind of the request there. Each refines
`Gate`, by mapping the requests that hold a token to those inside and those that once did to those
that left.

### BackendCall and KeeperBackends

One call, of a backend fixed by `backend`. A secret is its length, and a length an int64: `Wrap` is
the sum `maxSize + 1`. `written` is what the source has put out, `got` what was read of it.

* filesystem (and the local provider of chur-init): `reader` is the goroutine of
  `ReadWithContext`, `Cancel`, `Canceled` and `Receive` its select; a `Read` is two steps, `ReadFile`
  and `ReadReturns`, because closing the file does not end one that hangs in the kernel.
* exec: `child` is the command, a zombie until it is waited for; `kept` the pipes a process it
  started holds; `watcher` and `copier` are the goroutines os/exec starts with a context and with
  a `Stderr` that is no file. `CopyByte` and `CopyEnds` are `io.CopyN`; `Reap`, `StopWatcher` and `Waited`
  are the three things `cmd.Wait` waits for, in its order, without a limit, since the code sets no
  `WaitDelay`. `CopyStderr` is `limitedWriter`, which drops what is too long and never fails.
* http: `Respond` to `BodyBreaks` are the reading of a response, `Abort` the end of the client's timeout
  or the caller's context, which net/http looks at wherever the call waits.

`BackendCall` is what `handleGetSecret` may rely on: one return, of an error or of all of a secret
the source has whole and that fits. For a command, whole means that it exited with 0 and nobody
holds its stdout (`Whole`).

### ServerLifecycle

One module for both programs, which differ in whether the health server is optional and in what a
shutdown that was cut short does to the exit code (`ExitCode`). `routine[s]` is the goroutine of a
server: `Serve` is its start and its end by `ErrServerClosed`, `Fail` its error, and `Notify` is
`notifyErr` under its mutex, which cannot be taken when the channel is full. `pc` is main: `Woken` the
select, then a pair of actions per shutdown (the listener is closed, the requests are waited
for), the wait and the exit. `Request`, `Finish` and `Expire` are net/http and the clock.

## 3. The runs

| run | cfg | result | distinct states | what it shows |
|---|---|---|---|---|
| `churinit` | `MCChurInit.cfg` | pass | 235,180 | `TypeOK`, `PathIsComplete`, `AppSeesFreshSecret`, `NoLeftover`, `GivesUpLate`, `EndsOnTime`, `Delivered`, `ImplementsDelivery` |
| `churinit_nested` | `MCChurInitNested.cfg` | violation | | `GroupCanRead` fails: finding 1 |
| `churinit_longname` | `MCChurInitLongName.cfg` | violation | | `AcceptedNameDelivered` fails: finding 2 |
| `admission` | `MCAdmission.cfg` | pass | 216,612 | `TypeOK`, `PatchesApply`, `Idempotent`, `NothingTwice`, `StoredIsInjected`, `StartsIfItFits`, `StaysValid`, `KeepsOthers` |
| `admission_bare` | `MCAdmissionBare.cfg` | violation | | `InjectedMountsResolve` fails: finding 3 |
| `admission_again` | `MCAdmissionAgain.cfg` | violation | | `MutatedMeansChanged` fails: finding 4 |
| `admission_mtls` | `MCAdmissionMTLS.cfg` | violation | | `MTLSStarts` fails: finding 6 |
| `webhook` | `MCWebhookServer.cfg` | pass | 89,796 | `TypeOK`, `LimitExact`, `CountsReviews`, `Served`, `ImplementsGate` |
| `keeper` | `MCKeeperServer.cfg` | pass | 84,290 | `TypeOK`, `SlotsExact`, `GaugeExact`, `CountsReplies`, `Unqueued`, `ImplementsGate`, `Served` |
| `backends` | `MCKeeperBackends.cfg` | pass | 2,518 | `TypeOK`, `ErrorHasCause`, `NothingLeft`, `OverflowDetected`, `Ends`, `ImplementsBackendCall` |
| `exec_timeout` | `MCKeeperBackendsHeld.cfg` | violation | | `TimeoutHolds` fails: finding 5 |
| `lifecycle` | `MCServerLifecycle.cfg` | pass | 5,657 | `TypeOK`, `ExitTells`, `Graceful`, `Stops` |

Each property is stated in words above its definition.

### Bounds, and why they are enough

* `churinit`: twelve environments, one per provider and per way to be wrong; two values of the
  secret, one of them too large for one environment, so that rotation matters; the code's own 5
  attempts, delays of 1, 2, 4 and 8 s and deadline of 30 s in ticks of half a second, jitter 0 or
  one tick; calls that take 0.5 s or the whole 30 s during an outage, so that a loop can end by count,
  by deadline in a call, or by deadline in a backoff, and the second loop can start late. One
  kill or sandbox loss (`MaxCrashes`) and one failing system call (`MaxIOErrors`): every run starts
  from the tmpfs alone, so that the interesting state is what one broken run leaves for the next;
  the invariants are proved for any number.
* `admission`: pods with and without volumes, init containers (one of an earlier mutation among
  them), mounts and security context; one
  annotation per provider and one per kind of error; eleven configurations: no client
  certificate, or one whose files are where the chart puts them, elsewhere with a server CA, or not
  named at all; a server CA that nothing mounts, a limit that cannot be parsed, the slim image; either
  failurePolicy; skip-verify allowed or not, or beside a server CA; a foreign namespace;
  two changes by others (`MaxOthers`), of lists, of the fsGroup (`UserGroup`) and of the annotations (`UserAnns`:
  other ones, or none), and one lost answer (`MaxLost`). The API server calls a webhook at most
  twice, so that one change before each call and one after it are what there is.
* `keeper`: four requests at a time, each of which may come again and again, two tokens and as many
  connections, three clients, so that one has to wait at the listener. One speaks HTTP/2 and has two of the
  requests, so that a queue forms, a client may leave while it waits, and a token is handed on while its
  former holder still has the gauge to decrement; the others speak HTTP/1.1. Two mixes of what the
  requests are (`MCMixes`): two calls of the backend beside requests that are turned away before or after the
  semaphore, and errors only. The safety properties are proved for any number and any mixes.
* `webhook`: three requests, two of them of one HTTP/2 client, two tokens and connections, and kinds so chosen that every way
  through the handler meets every other one on a token. Proved for any number.
* `backends`: a limit of two bytes (`MaxSize`) and secrets of zero to four (`MCSizes`), commands that
  write up to four (`MaxWritten`): below, at, one above and far above the limit. One descendant of
  the command at a time, with any of its pipes. `MaxInt` = 7 stands for 2^63-1; nothing else
  depends on it. The safety properties are proved for any sizes.
* `lifecycle`: both programs, with and without health server, two requests per server
  (`MaxActive`). Proved for any number.

`CHECK_DEADLOCK FALSE` is there because each of these really stops: a pod that runs, a pod that is
stored or refused, requests that are answered, a call that returned, a process that exited.

### Fairness, and why the code justifies it

* ChurInit: weak fairness of the process (the code never waits for anything but a timer, or a
  call that ends), of the kubelet (it restarts init containers and starts the next ones), and of
  `Recover` (outages end; without it nothing could be promised). None for kills, losses, rotation.
  The restart of a failed init container is the kubelet's for every restartPolicy but Never; pods
  with that one are not promised anything by `Delivered`.
* WebhookServer: weak fairness of each goroutine, strong fairness of `Acquire`,
  because Go serves the senders blocked on a channel in the order they came. A panic and what a
  reply will be are free choices.
* KeeperServer: the same for every step of the handler but `Call`. Nothing makes a backend call end: the
  filesystem has no deadline, and finding 5 shows an exec call that outlives its own. No
  client is assumed to send, to leave or to close its connection, and nobody is promised one: `IdleTimeout`
  (`server.go:51`) closes connections without a request for 90 s only, so that clients that send now and then keep others out
  for as long as they like. `Served` is conditional (`CallsEnd`): the request's own call ends, and the calls of
  others do not hold all tokens for ever. Without either condition TLC finds it violated.
* KeeperBackends: weak fairness of the caller and of its goroutines (Go runs what can run), and of
  `ContextEnds` for exec and http, which have a deadline of their own. None for the commands, their
  descendants, the disk and the servers, nor for the context of a filesystem call. `Ends` is
  conditional on `[]<>~Held`: time and again no descendant holds a pipe and no read hangs.
* ServerLifecycle: weak fairness of main, of the goroutines and of the clock. No request has to
  end and no server has to fail.
* Admission has no liveness property and no fairness.

### Findings

1. `main.go:92` makes the directories of a nested keeper reference with mode 0700: containers of
   another user of the shared group cannot reach the 0640 file that README and THREAT_MODEL
   promise them.
2. A reference of 252 to 255 characters passes `ValidateSecretRef`, but `path + ".tmp"` is longer
   than a file name may be: the pod never starts, though the validation calls the reference
   filename-safe.
3. For a pod without volumes and with a client certificate to mount, `patchVolumes` answers "add
   /spec/volumes" twice; the second replaces the first, and the mounts of `chur-secrets` name a
   volume that is not there. The API server refuses the pod.
4. `MutatePod` returns an empty, non-nil list for a pod that needs nothing more, against its
   comment; a reinvocation is reported as another mutation (and counted, `server.go:216`).
5. The exec backend reads stdout to its end, and `cmd.Wait` the stderr, before it looks at its
   context, and the timeout kills the command alone: a process the command started keeps the call,
   and the keeper's token, past CHUR_KEEPER_EXEC_TIMEOUT ("Command execution timeout", README.md:283).
   `TestExecTimeout` has such a command, a shell that runs `sleep`, and does not look at the time.
6. With `keeper.mtls.enabled` the chart names a server CA that the webhook passes to chur-init and
   nobody mounts: only the directory of the client certificate is. Every pod of the keeper provider
   is admitted, and its init container fails, where README.md:245-249 says no further
   annotation is needed. (An annotation could not help: the key is reserved.)
## 4. What is proved

All of it for every value of the constants that the named assumptions allow, from those
assumptions alone.

**ChurInit_proofs.** The inductive invariant `IInv` adds to the types what is true at each point of
`main()`: a secret in memory came from the source during this run and passed the checks made so
far (`MemoryInv`); the temporary file is the secret in memory, whole when the rename is due, and
gone otherwise unless a run was killed (`TmpInv`); after the rename the path holds the secret in
memory, after the chmod it is readable (`PathInv`); the containers run only after a success
(`AppInv`). None of the properties is inductive alone: that the path is complete needs that the
temporary file is, which needs `pc`; that the containers see a fresh secret needs the whole chain.
Theorems: `TypeCorrect`, `NeverTorn` (`PathIsComplete`), `AppSafe` (`AppSeesFreshSecret`),
`NoCopyLeft` (`NoLeftover`), `RetriesExhausted` (`GivesUpLate`), and `Refinement`: every step of
chur-init is a step of `SecretDelivery` or a stutter. The assumption on powers of two in
`TimeAssumption` only says that 2^k is a positive number, which the provers do not know.

`NeverMuchTooLate` (`EndsOnTime`) bounds the time of a whole run. The loops look at the deadline
in their backoffs only, so that what may still go past it are the attempt under way and one of the next loop, whose first attempt comes before any look at the
context. The invariant `TimeInv` keeps, at every place in `main()`, which of them have happened.

**PodMutation_proofs.** What the patches of one answer do to a pod, for lists of any length. The
closed form `Mutated` says what the mutated pod is, without patches: its group, the old volumes and
the missing ones, the old init containers and `chur-init`, every container with its mount. `PatchesMutate`:
the patches all apply, one after the other, and make that pod, whatever the pod and the configuration,
finding 3's included, whose lost volume `Mutated` shows. `NothingMore`: a mutated pod
needs no patches, outside finding 3. The patches are taken apart as they are put together: applying
`s \o t` is applying `s`, then `t` (`ApplyParts`), and each part has a lemma on what it does
(`GroupEffect` and its like). The mounts, one per container, need inductions on the number of containers; they are
made with a set of numbers and the well-foundedness of `<` on it (`Induction`), since the library's
induction theorems take an operator. For the same reason `Applied` is a recursive function whose
definition is proved to be one (`AppliedDef`). Lemmas on the closed form say what it keeps
(`MutatedKeeps`), has (`MutatedHas`) and never has twice (`MutatedUnique`).

**Admission_proofs.** The creation of one pod, whatever the pods, configurations, changes of others
and lost answers are, and however many. `TypeOK` is inductive (`TypeCorrect`: a pod is
reviewed twice at most). What happens to the pod rests on an invariant
that ties the last answer to the pod it was for (`Right`): the answer is the mutator's, and either
nothing was to be done or the pod became `Mutated`. With the closed form follow, without any hypothesis,
`PatchesAlwaysApply` (`PatchesApply`), `NothingIsTwice` (`NothingTwice`) and `OthersAreKept` (`KeepsOthers`).

Two more invariants need to know something of the requests, and the theorems say so:

* `VolumesToGoOn`: a pod has a volume where the webhook may come to mount a client certificate: one is
  configured, the namespace is served, and the annotations, the pod's own or those another webhook
  may give it, ask for the keeper. That is the case of finding 3, where both properties are
  false. It holds of every later state of the pod (`Roomy`). Under it,
  `MutationIsIdempotent` (`Idempotent`) and `ValidStaysValid` (`StaysValid`).
* `NameIsOurs`: a container called `chur-init` in a request is one the webhook made, for that pod or another one
  under the same configuration. The mutator cannot know better (`mutator.go:251`), and with a container of that name by someone else
  the two properties may fail. It holds of every later state (`Ours`), though other webhooks change
  annotations, group and lists in between: whatever they do, the container is one that was made for some
  pod (`Made`), and mounts (`MadeMounts`) and starts (`ContainerStarts`) by the settings it was made with.
  Under it, `FittingAlwaysStarts` (`StartsIfItFits`) and, with what the last call left in the pod,
  `StoredIsAlwaysInjected` (`StoredIsInjected`).

The requests of `MCAdmission.cfg` satisfy both, pods that were mutated before among them. That the
webhook's fsGroup is set (`RequestAssumption`) is the type of its configuration: an `int64`
with a default (`mutator.go:83, 105`, `cmd/webhook/main.go:107`).

**KeeperServer_proofs.** `SlotsExact` and `GaugeExact`, with the types, are inductive; the lemmas `AtEnter`,
`AtLeave` and `AtStay` say what one goroutine's step does to the cardinality of a set of
goroutines. They give `TypeCorrect` (in particular 0 <= `sem` <= `MaxConcurrent`), `NoTokenLeaks`
and `GaugeNeverDrifts`. `NoReplyUncounted` (`CountsReplies`) needs `Unanswered`: a request that is
not yet at its release was sent no reply. `Refinement` (`ImplementsGate`) needs `Pending`: a
request in the handler has not been sent a reply that would make it look turned away.

`ForgetKeeps` is the step that makes all of them hold under requests without end (`Invariance`, of
their conjunction `All`): a request takes with it what it had added to the counters. `SeldomQueued`
(`Unqueued`) is a counting argument: over HTTP/1.1 every live request has its client's connection and shares it
with no other (`Connected`). If over HTTP/2 too none shares its connection or has outlived it, a request at the select
and as many as there are tokens inside need one connection more than the listener accepts (`TokensSuffice`).

**WebhookServer_proofs.** The same argument for `ServeHTTP`: `TypeCorrect`, `NothingLeaks`
(`LimitExact`), `NoReviewUncounted` (`CountsReviews`), `Refinement` (`ImplementsGate`). The counters
need the most: a review is in one set of requests per answer, in one per result, and moves between
them at different steps (`OneMore`, `Uncounted`), with `Unanswered` to tell a request under way
from one that was answered.

**KeeperBackends_proofs.** `IInv` says what belongs to each stage of a call: which goroutine, pipe,
file and command is there (`Shape`, `ExecShape`), and that everything that will become an error has its cause already
(`Causes`: the watcher fired because the context ended, a status failed because the command did, it was
killed by the watcher, or it wrote too much). Theorems: `TypeCorrect`, `ErrorsAreTold`
(`ErrorHasCause`), `CleansUp` (`NothingLeft`). Under the assumption MaxSize < MaxInt, and not without it,
`Enough` means too much (`EnoughIsTooMuch`), and with what is known about how far the source was
read (`Complete`) follow `NothingCutOff` (`OverflowDetected`) and `Refinement`
(`ImplementsBackendCall`). The interesting step is `Waited`: no error of `Wait` and nothing
too long means that the command exited with 0 and nobody can add to stdout, though it was read before.

**ServerLifecycle_proofs.** `IInv` follows the order of the shutdown: a goroutine that failed has told
main (`Told`), a server whose shutdown was begun is closed (`HealthClosed`, `MainClosed`), one that
was drained gets no request again (`HealthDrained`, `MainDrained`), and nothing happens after the
exit (`Over`). Theorems: `TypeCorrect` (one notice in the channel at most), `ExitIsTold`
(`ExitTells`), `ExitIsGraceful` (`Graceful`).

**Only model-checked.** The liveness properties `Delivered`, `Served` (of both servers),
`Ends` and `Stops`: liveness under fairness is out of this prover's reach, as is ENABLED. Every safety property of the passing runs is
also a theorem. No module uses a RECURSIVE operator.

`Delivered` is conditional: on an environment every check accepts (`Servable`), a name that fits
(`NameFits`, finding 2), and two versions of the secret fitting in the volume (`TwoVersionsFit`):
after a sandbox loss the old file and the new temporary one are there together, and the webhook only
checks that one fits.

`StartsIfItFits` says for which configurations of the webhook an admitted init container starts
(`Fits`): the provider is in the image; for the keeper, the limit of the client parses, a pod that skips the verification has no
server CA, and the files chur-init is told of are in the directory that is mounted, which is that of the
certificate's path. The webhook checks none of it (`cmd/webhook/main.go:138-149`). Everything
else, annotations, environment and mounts, is right whatever the pod and others' changes are, which is what the property shows, and
each of the four is needed, since it is an equivalence. Finding 6 is one of the cases. Another is skip-verify
allowed by a webhook that has a server CA: a pod that asks for it gets both, as `mutator_test.go:602-607` expects, and
`NewProvider` refuses the pair (`keeper.go:37`), so that the pod is admitted and never starts. With the
path of the certificate left out, its default is cut as if it named a file, and the
certificate is mounted one directory higher; nothing then reads it, and pods start without one.

`StoredIsInjected` is about pods from which nobody took away what the webhook's last answer left (`Extends`), and about the
annotations the webhook saw last: what is changed after its last call it cannot know.

No property says that the group of an init container and that of its pod are one: when another webhook changes
the fsGroup between two calls, the second keeps the container of the first (`mutator.go:234, 251`), with its
RunAsGroup. The volume has the group of the pod whoever writes to it, so that no promise of the documentation is broken.

`StaysValid` is conditional on a place for what the webhook mounts (`PathsFree`): that no container has another volume
where the annotations want the secret, and that the local provider's base directory, or that of the client
certificate, is not that place either. The webhook looks at neither; the API server refuses such a pod.

`OverflowDetected` and `ImplementsBackendCall` hold for limits below 2^63-1. For that one, which the keeper's
configuration accepts, `maxSize+1` overflows (`readutil/read.go:21`): the read stops before the first byte, and an empty
secret is returned as a success. With `MaxSize = 7` in `MCKeeperBackends.cfg` TLC shows it.

`Graceful` says no more than the shared time: a slow health request may use up that of the main server's requests,
and the webhook then exits with 0 (`cmd/webhook/main.go:315, 321`). Nothing in the repository promises otherwise.

## 5. What is not modelled

* Idle connections of the webhook, which count against its listener's limit
  (`cmd/webhook/main.go:165`) as the keeper's do: `WebhookServer` limits the connections that carry a request.
* chur-init's removal of its temporary file on an error (`main.go:99, 104`) is taken to succeed, as are reads of
  a command's stdout (`exec.go:107-109`).
* A request whose body never comes, which `ReadTimeout` ends: `Decode` is one step.
* The characters of names, paths, keys and URLs, and the multiplication by a size suffix: a
  reference is flat or nested, or a length; a limit is a number. `bytesize.Parse` refuses a product over 2^63-1.
* `KeeperServer` takes a backend call as one step, `ChurInit` a call of the keeper as one of its
  outcomes: the composition is by `BackendCall`, whose outcomes `KeeperServer.Call` allows, and by
  reading; there is no run of the three together, whose states would be a product.
* In `KeeperBackends`, a response says where its body ends (one that
  does not, and breaks off, looks complete to net/http), and the error of `Process.Kill` is ignored as in the code.
* The internal error of `mutate` (`json.Marshal` of patches fails), which no pod leads to.
* TLS, configuration parsing, health endpoints, logging, the Helm chart: straight-line code or
  templates without state. Of the chart, failurePolicy, reinvocation and the values of
  `keeper.mtls` are inputs; of the configuration, the limits a keeper starts with
  (`AcceptedLimits`) and the settings of the webhook. The product of a number of seconds and a
  second may overflow (`internal/keeper/config.go:113`); here a deadline is a moment that comes.

## 6. What could come next

1. Connections in `WebhookServer` as in `KeeperServer`, and in both a request whose body
   never comes, with `ReadTimeout`: it holds a token for that long.
2. `bytesize.Parse` at its width, beside a reference definition.
3. The composition of the keeper's handler with `BackendCall` in place of its one step, so that
   `Served` rests on `Ends` in a run and not by reading.
