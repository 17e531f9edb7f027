---------------------------- MODULE KeeperServer ----------------------------
(***************************************************************************)
(* The request handler of chur-keeper (handleGetSecret in                  *)
(* internal/keeper/server.go) with every goroutine that runs it: the       *)
(* semaphore, the gauge beside it, the checks, the call of the backend,    *)
(* the metrics and the reply, behind a listener with a limit of its own.   *)
(* Clients may leave at any moment, or keep a connection without a request *)
(* and send the next one over it, without end.                             *)
(***************************************************************************)
EXTENDS Integers, FiniteSets

CONSTANTS
  Requests,       \* the requests at one time, one goroutine each
  Clients,        \* the clients, with one connection at a time
  Http2,          \* those that speak HTTP/2
  From,           \* the client of a request
  MaxConcurrent,  \* the capacity of the semaphore, and of the listener
  Mixes,          \* what the requests may be: functions from Requests to AllKinds
  NoReply         \* nothing was sent

AllKinds == {"badMethod", "badPath", "garbled", "emptyRef", "badRef", "good"}

ASSUME RequestAssumption == IsFiniteSet(Requests) /\ From \in [Requests -> Clients]
ASSUME ClientAssumption  == IsFiniteSet(Clients) /\ Http2 \subseteq Clients
ASSUME LimitAssumption   == MaxConcurrent \in Nat \ {0}
ASSUME MixAssumption     == Mixes \subseteq [Requests -> AllKinds]
ASSUME ReplyAssumption   == NoReply \notin 100..599

VARIABLES
  pc,        \* where the goroutine of a request is
  kind,      \* what the request is
  ctxDone,   \* is the context of the request canceled, its client gone?
  open,      \* the clients that have a connection
  code,      \* the status that is about to be sent
  reply,     \* the status code sent
  sem,       \* tokens in the channel
  gauge,     \* chur_keeper_concurrent_requests
  count      \* chur_keeper_requests_total, by status

vars   == <<pc, kind, ctxDone, open, code, reply, sem, gauge, count>>
client == <<kind, ctxDone, open>>
answer == <<code, reply, count>>

\* "enter" has a token and has not incremented the gauge, "exit" has given its
\* token back and has not decremented it; "release" is the deferred function.
Holding == {"enter", "decode", "call", "answer", "release"}
Counted == {"decode", "call", "answer", "release", "exit"}
PCs     == {"idle", "start", "select", "done"} \cup Holding \cup Counted

At(S) == {r \in Requests : pc[r] \in S}

Init == /\ pc = [r \in Requests |-> "idle"]
        /\ kind \in Mixes
        /\ ctxDone = [r \in Requests |-> FALSE] /\ open = {}
        /\ code = [r \in Requests |-> NoReply] /\ reply = [r \in Requests |-> NoReply]
        /\ sem = 0 /\ gauge = 0
        /\ count = [ok |-> 0, error |-> 0]

Goto(r, from, to) == pc[r] = from /\ pc' = [pc EXCEPT ![r] = to]
Send(r, c)        == reply' = [reply EXCEPT ![r] = c]

\* The metric is updated before the reply is written, and says how it went.
Tell(r, status, c) == /\ count' = [count EXCEPT ![status] = @ + 1]
                      /\ code' = [code EXCEPT ![r] = c]
                      /\ UNCHANGED reply

Live     == At(PCs \ {"idle", "done"})
InUse(c) == \E r \in Live : From[r] = c

\* (Mutant of Connect: the listener accepts one more.)
ConnectOneMore(c) == /\ c \notin open
                     /\ Cardinality(open) <= MaxConcurrent
                     /\ open' = open \cup {c}
                     /\ UNCHANGED <<pc, kind, ctxDone, answer, sem, gauge>>

\* The listener accepts no more connections than the semaphore has tokens
\* (cmd/keeper/main.go:101), those without a request included.
Connect(c) == /\ c \notin open
              /\ Cardinality(open) < MaxConcurrent
              /\ open' = open \cup {c}
              /\ UNCHANGED <<pc, kind, ctxDone, answer, sem, gauge>>

\* A connection without a request ends: the client closes it, or it was without one for
\* as long as ReadHeaderTimeout or IdleTimeout.  One that carries a request is kept
\* until the handler is done; an HTTP/2 client can close it all the same, which cancels
\* the requests on it (what that does to those that do not wait, see Call).
Close(c) == /\ c \in open
            /\ InUse(c) => c \in Http2
            /\ open' = open \ {c}
            /\ ctxDone' = [r \in Requests |->
                             ctxDone[r] \/ (From[r] = c /\ pc[r] \in {"start", "select"})]
            /\ UNCHANGED <<pc, kind, answer, sem, gauge>>

\* A request arrives over the connection of its client, new or kept, and net/http
\* (external) starts a goroutine for it: over HTTP/1.1 when those before it are done.
Arrive(r) == /\ Goto(r, "idle", "start")
             /\ From[r] \in open
             /\ InUse(From[r]) => From[r] \in Http2
             /\ UNCHANGED <<client, answer, sem, gauge>>

\* The method and the path are checked before the semaphore.
Route(r) == /\ \/ /\ Goto(r, "start", "select")
                  /\ kind[r] \notin {"badMethod", "badPath"}
                  /\ UNCHANGED reply
               \/ Goto(r, "start", "done") /\ kind[r] = "badMethod" /\ Send(r, 405)
               \/ Goto(r, "start", "done") /\ kind[r] = "badPath" /\ Send(r, 404)
            /\ UNCHANGED <<client, code, sem, gauge, count>>

\* (Mutant of Acquire: a token is never refused.)
AcquireUnbounded(r) == /\ Goto(r, "select", "enter")
                       /\ sem' = sem + 1
                       /\ UNCHANGED <<client, answer, gauge>>

\* The select: a token, or the end of the request's context.  When both are
\* possible either may be chosen.
Acquire(r) == /\ Goto(r, "select", "enter")
              /\ sem < MaxConcurrent
              /\ sem' = sem + 1
              /\ UNCHANGED <<client, answer, gauge>>

Busy(r) == /\ Goto(r, "select", "done")
           /\ ctxDone[r]
           /\ Send(r, 503)
           /\ UNCHANGED <<client, code, sem, gauge, count>>

IncGauge(r) == /\ Goto(r, "enter", "decode")
               /\ gauge' = gauge + 1
               /\ UNCHANGED <<client, answer, sem>>

\* (Mutants of Decode: an error path that returns past the deferred function,
\* as with a release written at the end of the handler; and one that forgets
\* the metric.)
DecodeLeaking(r) == /\ \/ Goto(r, "decode", "call") /\ kind[r] = "good" /\ UNCHANGED answer
                       \/ Goto(r, "decode", "done") /\ kind[r] # "good" /\ Tell(r, "error", 400)
                    /\ UNCHANGED <<client, sem, gauge>>
DecodeUncounted(r) == /\ \/ Goto(r, "decode", "call") /\ kind[r] = "good" /\ UNCHANGED code
                         \/ /\ Goto(r, "decode", "answer") /\ kind[r] # "good"
                            /\ code' = [code EXCEPT ![r] = 400]
                      /\ UNCHANGED <<client, reply, count, sem, gauge>>

\* The body and the reference are checked.
Decode(r) == /\ \/ Goto(r, "decode", "call") /\ kind[r] = "good" /\ UNCHANGED answer
                \/ Goto(r, "decode", "answer") /\ kind[r] # "good" /\ Tell(r, "error", 400)
             /\ UNCHANGED <<client, sem, gauge>>

\* GetSecret of the backend returns a secret, one that is too long, or an error,
\* as it does when the context ends; or it panics, which net/http recovers from
\* after the deferred function ran.  It may also not return at all (KeeperBackends).
Call(r) == /\ \/ /\ Goto(r, "call", "answer")
                 /\ Tell(r, "ok", 200) \/ Tell(r, "error", 413) \/ Tell(r, "error", 500)
              \/ Goto(r, "call", "release") /\ UNCHANGED answer
           /\ UNCHANGED <<client, sem, gauge>>

\* The reply is written; that it cannot be is logged only.
Answer(r) == /\ Goto(r, "answer", "release")
             /\ Send(r, code[r])
             /\ code' = [code EXCEPT ![r] = NoReply]
             /\ UNCHANGED <<client, sem, gauge, count>>

\* (Mutant of Release: a deferred function that forgets the gauge.)
ReleaseForgettingGauge(r) == /\ Goto(r, "release", "done")
                             /\ sem' = sem - 1
                             /\ UNCHANGED <<client, answer, gauge>>

\* The deferred function: the token first, the gauge after it.
Release(r) == /\ Goto(r, "release", "exit")
              /\ sem' = sem - 1
              /\ UNCHANGED <<client, answer, gauge>>

DecGauge(r) == /\ Goto(r, "exit", "done")
               /\ gauge' = gauge - 1
               /\ UNCHANGED <<client, answer, sem>>

\* A client gives a request up while it waits, and net/http (external) cancels the
\* context of the request.  It notices over HTTP/2 only: over HTTP/1.1 it reads the
\* connection in the background once the body has been read, which the handler does
\* after the semaphore, unless there is no body.  Later than that, a client that leaves
\* is one of the reasons for the backend to return an error.
ClientGone(r) == /\ From[r] \in Http2 \/ kind[r] = "garbled"
                 /\ pc[r] \in {"start", "select"}
                 /\ ~ctxDone[r]
                 /\ ctxDone' = [ctxDone EXCEPT ![r] = TRUE]
                 /\ UNCHANGED <<pc, kind, open, answer, sem, gauge>>

\* All of the handler but the call of the backend.
Own(r)     == \/ Route(r) \/ Acquire(r) \/ Busy(r) \/ IncGauge(r) \/ Decode(r)
              \/ Answer(r) \/ Release(r) \/ DecGauge(r)
Handler(r) == Own(r) \/ Call(r)

\* A request that is done with is forgotten, with what it added to the counters, and
\* another one like it may come, over the same connection or a later one.
Forget(r) == /\ Goto(r, "done", "idle")
             /\ reply' = [reply EXCEPT ![r] = NoReply]
             /\ ctxDone' = [ctxDone EXCEPT ![r] = FALSE]
             /\ count' = [ok    |-> count.ok - (IF reply[r] = 200 THEN 1 ELSE 0),
                          error |-> count.error - (IF reply[r] \in {400, 413, 500} THEN 1 ELSE 0)]
             /\ UNCHANGED <<kind, open, code, sem, gauge>>

Step == \/ \E c \in Clients : Connect(c) \/ Close(c)
        \/ \E r \in Requests : Arrive(r) \/ Handler(r) \/ ClientGone(r)
Next == Step \/ \E r \in Requests : Forget(r)

Spec == Init /\ [][Next]_vars

\* A goroutine that can run does.  Senders blocked on a channel are served in the
\* order they came, so that a waiting request is not passed over for ever.  Nothing
\* makes a call of the backend end, nor a client send or leave.
Fairness == \A r \in Requests : WF_vars(Own(r)) /\ SF_vars(Acquire(r))
FairSpec == Spec /\ Fairness

-----------------------------------------------------------------------------
(* What makes it correct.                                                  *)

TypeOK == /\ pc \in [Requests -> PCs]
          /\ kind \in Mixes
          /\ ctxDone \in [Requests -> BOOLEAN] /\ open \subseteq Clients
          /\ code \in [Requests -> {NoReply, 200, 400, 413, 500}]
          /\ reply \in [Requests -> {NoReply, 200, 400, 404, 405, 413, 500, 503}]
          /\ sem \in 0..MaxConcurrent
          /\ gauge \in Int
          /\ count \in [{"ok", "error"} -> Nat]

\* The tokens in the channel are those of the requests inside: no return path of
\* the handler, a panic of the backend included, keeps or gives back one too many.
SlotsExact == sem = Cardinality(At(Holding))

\* The gauge counts the requests between its two updates; it may exceed the limit
\* for a moment, since a token is given back before the gauge is decremented,
\* but it does not drift and is zero when no request is there.
GaugeExact == gauge = Cardinality(At(Counted))

\* The requests that are or were told one of the codes.
Told(codes) == {r \in Requests : reply[r] \in codes \/ code[r] \in codes}

\* Every request that got a token is counted once, as what its reply says or is about
\* to say, unless the backend panicked; one that did not get one is not counted.
CountsReplies == /\ count.ok = Cardinality(Told({200}))
                 /\ count.error = Cardinality(Told({400, 413, 500}))

\* A request finds no token only if there are more requests than connections: one of
\* them shares its connection, or has outlived it, which is possible over HTTP/2 alone.
\* Else the listener's limit (cmd/keeper/main.go:101), which counts the connections that
\* are kept and new ones, holds clients up before the semaphore does.
Unqueued == sem = MaxConcurrent /\ At({"select"}) # {}
              => \E r \in Live : /\ From[r] \in Http2
                                /\ \/ From[r] \notin open
                                   \/ \E q \in Live \ {r} : From[q] = From[r]

\* The requests that had a token: those that are done and were not turned away
\* before they got one.
TurnedAway == {404, 405, 503}
HadToken   == At({"exit"}) \cup {r \in At({"done"}) : reply[r] \notin TurnedAway}

G == INSTANCE Gate WITH inside <- At(Holding), left <- HadToken

\* The handler implements the gate.
ImplementsGate == G!EndlessSpec

\* Every request that arrives is done with, whatever arrives besides, if its own call
\* of the backend ends and those of others do not hold all tokens for ever.  Neither is
\* certain: a call can outlive its timeout (see TimeoutHolds of KeeperBackends).
CallsEnd(r) == /\ []<>(pc[r] # "call")
               /\ []<>(Cardinality(At({"call"})) < MaxConcurrent)
Served == \A r \in Requests : CallsEnd(r) => ((pc[r] = "start") ~> (pc[r] = "done"))
=============================================================================
