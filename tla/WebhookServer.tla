---------------------------- MODULE WebhookServer ----------------------------
(***************************************************************************)
(* The request handler of chur-webhook (ServeHTTP, mutate and              *)
(* mutateWithMetrics in internal/webhook/server.go) with every goroutine   *)
(* that runs it: the semaphore and its gauge, the review, the counters it  *)
(* adds to on its way, and the answer.  What MutatePod does to a pod is    *)
(* the subject of PodMutation; here it is one of the kinds of a request.   *)
(***************************************************************************)
EXTENDS Integers, FiniteSets

CONSTANTS
  Requests,       \* the requests, one goroutine each
  MaxConcurrent,  \* CHUR_MAX_CONCURRENT
  Http2,          \* the requests that came over HTTP/2
  Mixes,          \* what the requests may be: functions from Requests to AllKinds
  NoReply         \* nothing was sent

\* Reviews are "malformed" without a request, of another kind than a pod, or with
\* a pod that cannot be decoded.  MutatePod has nothing to do for an "ignored"
\* pod, refuses an "invalid" one and patches the others.
Reviews  == {"malformed", "ignored", "invalid", "dryRun", "patched"}
AllKinds == {"badMethod", "garbled"} \cup Reviews

ASSUME RequestAssumption == IsFiniteSet(Requests) /\ Http2 \subseteq Requests
ASSUME LimitAssumption   == MaxConcurrent \in Nat \ {0}
ASSUME MixAssumption     == Mixes \subseteq [Requests -> AllKinds]
ASSUME ReplyAssumption   == NoReply \notin 100..599

VARIABLES
  pc,        \* where the goroutine of a request is
  kind,      \* what the request is
  ctxDone,   \* is the context of the request canceled, its client gone?
  reply,     \* the status code sent
  sem,       \* tokens in the channel
  gauge,     \* chur_webhook_concurrent_requests
  requests,  \* chur_webhook_admission_requests_total, by what was answered
  results,   \* chur_webhook_admission_results_total, by result
  errors     \* chur_webhook_admission_errors_total, by reason

vars    == <<pc, kind, ctxDone, reply, sem, gauge, requests, results, errors>>
client  == <<kind, ctxDone>>
metrics == <<requests, results, errors>>

Holding == {"enter", "decode", "mutate", "record", "encode", "release"}
Counted == {"decode", "mutate", "record", "encode", "release", "exit"}
PCs     == {"idle", "start", "select", "done"} \cup Holding \cup Counted

At(S) == {r \in Requests : pc[r] \in S}

\* The answer of a review: the labels "allowed" and "mutated" as one.
Answers   == {"denied", "allowed", "mutated"}
Answer(k) == CASE k \in {"ignored", "dryRun"} -> "allowed"
               [] k = "patched"               -> "mutated"
               [] OTHER                       -> "denied"

\* The result mutate counts it under; a malformed review has none.
Results   == {"allowed", "mutated", "error"}
Result(k) == CASE Answer(k) # "denied" -> Answer(k)
               [] k = "invalid"        -> "error"
               [] OTHER                -> "none"

Init == /\ pc = [r \in Requests |-> "idle"]
        /\ kind \in Mixes
        /\ ctxDone = [r \in Requests |-> FALSE]
        /\ reply = [r \in Requests |-> NoReply]
        /\ sem = 0 /\ gauge = 0
        /\ requests = [a \in Answers |-> 0]
        /\ results = [x \in Results |-> 0]
        /\ errors = [timeout |-> 0, validation |-> 0]

Goto(r, from, to) == pc[r] = from /\ pc' = [pc EXCEPT ![r] = to]
Send(r, code)     == reply' = [reply EXCEPT ![r] = code]

\* The listener accepts no more connections than the semaphore has tokens
\* (cmd/webhook/main.go:165), and the HTTP/2 requests share one.
Live        == At(PCs \ {"idle", "done"})
Connections == Cardinality(Live \ Http2) + (IF Live \cap Http2 = {} THEN 0 ELSE 1)
Connects(r) == \/ Connections < MaxConcurrent
               \/ r \in Http2 /\ Live \cap Http2 # {}

Arrive(r) == /\ Goto(r, "idle", "start")
             /\ Connects(r)
             /\ UNCHANGED <<client, reply, sem, gauge, metrics>>

Route(r) == /\ \/ Goto(r, "start", "select") /\ kind[r] # "badMethod" /\ UNCHANGED reply
               \/ Goto(r, "start", "done") /\ kind[r] = "badMethod" /\ Send(r, 405)
            /\ UNCHANGED <<client, sem, gauge, metrics>>

\* (Mutant of Acquire: the semaphore has room for one more.)
AcquireOneMore(r) == /\ Goto(r, "select", "enter")
                     /\ sem <= MaxConcurrent
                     /\ sem' = sem + 1
                     /\ UNCHANGED <<client, reply, gauge, metrics>>

\* The select: a token, or the end of the request's context, either if both.
Acquire(r) == /\ Goto(r, "select", "enter")
              /\ sem < MaxConcurrent
              /\ sem' = sem + 1
              /\ UNCHANGED <<client, reply, gauge, metrics>>

\* (Mutant of Busy: the deferred release runs for a request without a token.)
BusyReleasing(r) == /\ Goto(r, "select", "release")
                    /\ ctxDone[r]
                    /\ Send(r, 503)
                    /\ errors' = [errors EXCEPT !.timeout = @ + 1]
                    /\ UNCHANGED <<client, sem, gauge, requests, results>>

Busy(r) == /\ Goto(r, "select", "done")
           /\ ctxDone[r]
           /\ Send(r, 503)
           /\ errors' = [errors EXCEPT !.timeout = @ + 1]
           /\ UNCHANGED <<client, sem, gauge, requests, results>>

IncGauge(r) == /\ Goto(r, "enter", "decode")
               /\ gauge' = gauge + 1
               /\ UNCHANGED <<client, reply, sem, metrics>>

\* The body: one that cannot be decoded, or is too long, is no review.
Decode(r) == /\ \/ Goto(r, "decode", "mutate") /\ kind[r] # "garbled" /\ UNCHANGED reply
                \/ Goto(r, "decode", "release") /\ kind[r] = "garbled" /\ Send(r, 400)
             /\ UNCHANGED <<client, sem, gauge, metrics>>

\* (Mutant of Mutate: a refused pod is counted among the results only after the
\* metrics of the review, and so not at all when its answer is built.)
MutateUncounted(r) ==
  /\ Goto(r, "mutate", "record")
  /\ results' = IF Result(kind[r]) \in {"allowed", "mutated"}
                THEN [results EXCEPT ![Result(kind[r])] = @ + 1] ELSE results
  /\ errors' = IF kind[r] = "invalid" THEN [errors EXCEPT !.validation = @ + 1] ELSE errors
  /\ UNCHANGED <<client, reply, sem, gauge, requests>>

\* mutate counts its result, and the reason of an error.  (The injections by
\* provider go with "mutated" and are left out.)
Mutate(r) ==
  /\ Goto(r, "mutate", "record")
  /\ results' = IF Result(kind[r]) \in Results
                THEN [results EXCEPT ![Result(kind[r])] = @ + 1] ELSE results
  /\ errors' = IF kind[r] = "invalid" THEN [errors EXCEPT !.validation = @ + 1] ELSE errors
  /\ UNCHANGED <<client, reply, sem, gauge, requests>>

\* mutateWithMetrics counts the answer, later.
Record(r) == /\ Goto(r, "record", "encode")
             /\ requests' = [requests EXCEPT ![Answer(kind[r])] = @ + 1]
             /\ UNCHANGED <<client, reply, sem, gauge, results, errors>>

\* The answer is sent; an error of that is logged.
Encode(r) == /\ Goto(r, "encode", "release")
             /\ Send(r, 200)
             /\ UNCHANGED <<client, sem, gauge, metrics>>

\* The handler panics, before it counted anything; net/http recovers, after the
\* deferred function ran.
Panic(r) == /\ Goto(r, "mutate", "release")
            /\ UNCHANGED <<client, reply, sem, gauge, metrics>>

\* (Mutant of Release: the deferred function lowers the gauge and keeps the token.)
ReleaseKeeping(r) == /\ Goto(r, "release", "exit")
                     /\ UNCHANGED <<client, reply, sem, gauge, metrics>>

\* The deferred function: the token first, the gauge after it.
Release(r) == /\ Goto(r, "release", "exit")
              /\ sem' = sem - 1
              /\ UNCHANGED <<client, reply, gauge, metrics>>

DecGauge(r) == /\ Goto(r, "exit", "done")
               /\ gauge' = gauge - 1
               /\ UNCHANGED <<client, reply, sem, metrics>>

\* The API server gives up on a call, after its timeoutSeconds, and net/http
\* (external) cancels the context: over HTTP/2 at any time, over HTTP/1.1 not
\* before the body was read.  Nothing after the select looks at the context.
ClientGone(r) == /\ r \in Http2 /\ pc[r] \in {"start", "select"}
                 /\ ~ctxDone[r]
                 /\ ctxDone' = [ctxDone EXCEPT ![r] = TRUE]
                 /\ UNCHANGED <<pc, kind, reply, sem, gauge, metrics>>

Handler(r) == \/ Route(r) \/ Acquire(r) \/ Busy(r) \/ IncGauge(r) \/ Decode(r)
              \/ Mutate(r) \/ Panic(r) \/ Record(r) \/ Encode(r) \/ Release(r) \/ DecGauge(r)

Next == \E r \in Requests : Arrive(r) \/ Handler(r) \/ ClientGone(r)

Spec == Init /\ [][Next]_vars

\* A goroutine that can run does: the handler waits for nothing but the semaphore,
\* whose waiters are served in the order they came.
Fairness == \A r \in Requests : WF_vars(Handler(r)) /\ SF_vars(Acquire(r))
FairSpec == Spec /\ Fairness

-----------------------------------------------------------------------------
(* What makes it correct.                                                  *)

TypeOK == /\ pc \in [Requests -> PCs]
          /\ kind \in Mixes
          /\ ctxDone \in [Requests -> BOOLEAN]
          /\ reply \in [Requests -> {NoReply, 200, 400, 405, 503}]
          /\ sem \in 0..MaxConcurrent
          /\ gauge \in Int
          /\ requests \in [Answers -> Nat]
          /\ results \in [Results -> Nat]
          /\ errors \in [{"timeout", "validation"} -> Nat]

\* The tokens in the channel are those of the requests between the select and the
\* deferred function, and the gauge counts those between its two updates, by every
\* way out of the handler.
LimitExact == sem = Cardinality(At(Holding)) /\ gauge = Cardinality(At(Counted))

Reviewed(S) == {r \in Requests : pc[r] \in S \/ reply[r] = 200}
Answered(a) == {r \in Reviewed({"encode"}) : Answer(kind[r]) = a}
Resulted(x) == {r \in Reviewed({"record", "encode"}) : Result(kind[r]) = x}
TimedOut    == {r \in Requests : reply[r] = 503}

\* Every answer was counted once as what it says, and every result once, between the
\* two at most as many apart as there are requests between their updates: the
\* metrics never tell of a review that was not made or lose one that was answered.
CountsReviews == /\ \A a \in Answers : requests[a] = Cardinality(Answered(a))
                 /\ \A x \in Results : results[x] = Cardinality(Resulted(x))
                 /\ errors.validation = results["error"]
                 /\ errors.timeout = Cardinality(TimedOut)

\* Every request is done with: it is answered, turned away when its client has
\* gone, or ended by a panic, also while others fill the semaphore.
Served == \A r \in Requests : (pc[r] = "start") ~> (pc[r] = "done")

TurnedAway == {405, 503}
HadToken   == At({"exit"}) \cup {r \in At({"done"}) : reply[r] \notin TurnedAway}

G == INSTANCE Gate WITH inside <- At(Holding), left <- HadToken

\* The handler implements the gate.
ImplementsGate == G!Spec
=============================================================================
