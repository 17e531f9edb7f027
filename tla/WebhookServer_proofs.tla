------------------------ MODULE WebhookServer_proofs ------------------------
(***************************************************************************)
(* Proofs about WebhookServer, for every number of requests, every         *)
(* capacity of the semaphore and every mix of reviews.                     *)
(***************************************************************************)
EXTENDS WebhookServer, FiniteSetTheorems, TLAPS

\* A request whose handler has not come to its answer has none.
Unanswered == \A r \in Requests :
                pc[r] \in {"idle", "start", "select", "enter", "decode", "mutate", "record", "encode"}
                  => reply[r] = NoReply

IInv == TypeOK /\ LimitExact /\ Unanswered

\* Every review has an answer to be counted as.
LEMMA Labels == \A k : Answer(k) \in Answers
<1> TAKE k
<1>1. CASE k \in {"ignored", "dryRun"}
  BY <1>1 DEF Answer, Answers
<1>2. CASE k = "patched"
  BY <1>2 DEF Answer, Answers
<1>3. CASE k \notin {"ignored", "dryRun", "patched"}
  BY <1>3 DEF Answer, Answers
<1> QED
  BY <1>1, <1>2, <1>3

\* Only a pod that MutatePod refuses is counted as an error.
LEMMA Errors == \A k : Result(k) = "error" <=> k = "invalid"
<1> TAKE k
<1>1. CASE k = "invalid"
  BY <1>1 DEF Result, Answer
<1>2. CASE k # "invalid"
  BY <1>2, Labels DEF Result, Answers
<1> QED
  BY <1>1, <1>2

-----------------------------------------------------------------------------
(* What a step of one request does to the requests at some places.         *)

\* The requests at some places are finitely many.
LEMMA AtFinite == ASSUME NEW S PROVE IsFiniteSet(At(S)) /\ Cardinality(At(S)) \in Nat
<1>1. At(S) \subseteq Requests
  BY DEF At
<1> QED
  BY <1>1, RequestAssumption, FS_Subset, FS_CardinalityType

\* A request that comes to one of the places adds one to those there.
LEMMA AtEnter ==
  ASSUME NEW S, NEW r \in Requests, NEW a, NEW b, pc \in [Requests -> PCs],
         Goto(r, a, b), a \notin S, b \in S
  PROVE  /\ At(S)' = At(S) \cup {r} /\ r \notin At(S)
         /\ Cardinality(At(S)') = Cardinality(At(S)) + 1
<1>1. At(S)' = At(S) \cup {r} /\ r \notin At(S)
  BY DEF At, Goto
<1> QED
  BY <1>1, AtFinite, FS_AddElement

\* A step out of a set of places takes one request away.
LEMMA AtLeave ==
  ASSUME NEW S, NEW r \in Requests, NEW a, NEW b, pc \in [Requests -> PCs],
         Goto(r, a, b), a \in S, b \notin S
  PROVE  /\ At(S)' = At(S) \ {r} /\ r \in At(S)
         /\ Cardinality(At(S)') = Cardinality(At(S)) - 1
<1>1. At(S)' = At(S) \ {r} /\ r \in At(S)
  BY DEF At, Goto
<1> QED
  BY <1>1, AtFinite, FS_RemoveElement

\* Any other step leaves it alone.
LEMMA AtStay ==
  ASSUME NEW S, NEW r \in Requests, NEW a, NEW b, pc \in [Requests -> PCs],
         Goto(r, a, b), a \in S <=> b \in S
  PROVE  At(S)' = At(S)
BY DEF At, Goto

-----------------------------------------------------------------------------
\* A step of any request keeps the tokens and the gauge in step with the places
\* of the requests.
LEMMA Exactness == TypeOK /\ LimitExact /\ [Next]_vars => LimitExact'
<1> SUFFICES ASSUME TypeOK, LimitExact, [Next]_vars PROVE LimitExact'
  OBVIOUS
<1> USE DEF TypeOK, LimitExact
<1>0. Cardinality(At(Holding)) \in Nat /\ Cardinality(At(Counted)) \in Nat
  BY AtFinite
<1>1. ASSUME NEW r \in Requests, Acquire(r) PROVE LimitExact'
  <2>1. Goto(r, "select", "enter") /\ sem' = sem + 1 /\ gauge' = gauge
    BY <1>1 DEF Acquire
  <2>2. Cardinality(At(Holding)') = Cardinality(At(Holding)) + 1
    BY <2>1, AtEnter DEF Holding
  <2>3. At(Counted)' = At(Counted)
    BY <2>1, AtStay DEF Counted
  <2> QED
    BY <1>0, <2>1, <2>2, <2>3
<1>2. ASSUME NEW r \in Requests, IncGauge(r) PROVE LimitExact'
  <2>1. Goto(r, "enter", "decode") /\ sem' = sem /\ gauge' = gauge + 1
    BY <1>2 DEF IncGauge
  <2>2. Cardinality(At(Counted)') = Cardinality(At(Counted)) + 1
    BY <2>1, AtEnter DEF Counted
  <2>3. At(Holding)' = At(Holding)
    BY <2>1, AtStay DEF Holding
  <2> QED
    BY <1>0, <2>1, <2>2, <2>3
<1>3. ASSUME NEW r \in Requests, Release(r) PROVE LimitExact'
  <2>1. Goto(r, "release", "exit") /\ sem' = sem - 1 /\ gauge' = gauge
    BY <1>3 DEF Release
  <2>2. Cardinality(At(Holding)') = Cardinality(At(Holding)) - 1
    BY <2>1, AtLeave DEF Holding
  <2>3. At(Counted)' = At(Counted)
    BY <2>1, AtStay DEF Counted
  <2> QED
    BY <1>0, <2>1, <2>2, <2>3
<1>4. ASSUME NEW r \in Requests, DecGauge(r) PROVE LimitExact'
  <2>1. Goto(r, "exit", "done") /\ sem' = sem /\ gauge' = gauge - 1
    BY <1>4 DEF DecGauge
  <2>2. Cardinality(At(Counted)') = Cardinality(At(Counted)) - 1
    BY <2>1, AtLeave DEF Counted
  <2>3. At(Holding)' = At(Holding)
    BY <2>1, AtStay DEF Holding
  <2> QED
    BY <1>0, <2>1, <2>2, <2>3
<1>5. ASSUME NEW r \in Requests, NEW a, NEW b, Goto(r, a, b),
             a \in Holding <=> b \in Holding, a \in Counted <=> b \in Counted,
             sem' = sem, gauge' = gauge
      PROVE  LimitExact'
  BY <1>5, AtStay
<1>6. ASSUME NEW r \in Requests, Arrive(r) \/ Route(r) \/ Busy(r)
      PROVE  LimitExact'
  <2>1. /\ \/ Goto(r, "idle", "start") \/ Goto(r, "start", "select")
           \/ Goto(r, "start", "done") \/ Goto(r, "select", "done")
        /\ sem' = sem /\ gauge' = gauge
    BY <1>6 DEF Arrive, Route, Busy
  <2> QED
    BY <2>1, <1>5 DEF Holding, Counted
<1>7. ASSUME NEW r \in Requests, Decode(r) \/ Mutate(r) \/ Panic(r) \/ Record(r) \/ Encode(r)
      PROVE  LimitExact'
  <2>1. /\ \/ Goto(r, "decode", "mutate") \/ Goto(r, "decode", "release")
           \/ Goto(r, "mutate", "record") \/ Goto(r, "mutate", "release")
           \/ Goto(r, "record", "encode") \/ Goto(r, "encode", "release")
        /\ sem' = sem /\ gauge' = gauge
    BY <1>7 DEF Decode, Mutate, Panic, Record, Encode
  <2> QED
    BY <2>1, <1>5 DEF Holding, Counted
<1>8. CASE \/ UNCHANGED vars
           \/ \E r \in Requests : ClientGone(r)
  <2>1. UNCHANGED <<pc, sem, gauge>>
    BY <1>8 DEF vars, ClientGone
  <2>2. At(Holding)' = At(Holding) /\ At(Counted)' = At(Counted)
    BY <2>1 DEF At
  <2> QED
    BY <2>1, <2>2
<1> QED
  BY <1>1, <1>2, <1>3, <1>4, <1>6, <1>7, <1>8 DEF Next, Handler

\* A goroutine takes a token only when one is free and gives back only what it
\* took: the number of tokens stays in its range.
LEMMA TypeNext == TypeOK /\ LimitExact /\ [Next]_vars => TypeOK'
<1> SUFFICES ASSUME TypeOK, LimitExact, [Next]_vars PROVE TypeOK'
  OBVIOUS
<1> USE DEF TypeOK
<1>1. ASSUME NEW r \in Requests, Arrive(r) \/ Route(r) PROVE TypeOK'
  BY <1>1 DEF Arrive, Route, Goto, Send, client, metrics, PCs
<1>2. ASSUME NEW r \in Requests, Busy(r) PROVE TypeOK'
  BY <1>2 DEF Busy, Goto, Send, client, PCs
<1>3. ASSUME NEW r \in Requests, Acquire(r) PROVE TypeOK'
  BY <1>3, LimitAssumption DEF Acquire, Goto, client, metrics, PCs, Holding
<1>4. ASSUME NEW r \in Requests, IncGauge(r) \/ DecGauge(r) PROVE TypeOK'
  BY <1>4 DEF IncGauge, DecGauge, Goto, client, metrics, PCs, Counted
<1>5. ASSUME NEW r \in Requests, Decode(r) \/ Panic(r) \/ Encode(r) PROVE TypeOK'
  BY <1>5 DEF Decode, Panic, Encode, Goto, Send, client, metrics, PCs, Counted
<1>6. ASSUME NEW r \in Requests, Mutate(r) PROVE TypeOK'
  <2>2. pc' \in [Requests -> PCs] /\ UNCHANGED <<client, reply, sem, gauge, requests>>
    BY <1>6 DEF Mutate, Goto, PCs, Counted
  <2>3. results' \in [Results -> Nat]
    <3>1. \A x \in Results : [results EXCEPT ![x] = @ + 1] \in [Results -> Nat]
      OBVIOUS
    <3> QED
      BY <1>6, <3>1, Labels DEF Mutate
  <2>4. errors' \in [{"timeout", "validation"} -> Nat]
    BY <1>6 DEF Mutate
  <2> QED
    BY <2>2, <2>3, <2>4 DEF client
<1>7. ASSUME NEW r \in Requests, Record(r) PROVE TypeOK'
  <2>1. pc' \in [Requests -> PCs] /\ UNCHANGED <<client, reply, sem, gauge, results, errors>>
    BY <1>7 DEF Record, Goto, PCs, Counted
  <2>2. requests' \in [Answers -> Nat]
    <3>1. \A a \in Answers : [requests EXCEPT ![a] = @ + 1] \in [Answers -> Nat]
      OBVIOUS
    <3> QED
      BY <1>7, <3>1, Labels DEF Record
  <2> QED
    BY <2>1, <2>2 DEF client
<1>8. ASSUME NEW r \in Requests, Release(r) PROVE TypeOK'
  <2>1. pc[r] \in Holding
    BY <1>8 DEF Release, Goto, Holding
  <2>2. Cardinality(At(Holding)) # 0
    <3>1. IsFiniteSet(At(Holding))
      BY AtFinite
    <3> QED
      BY <2>1, <3>1, FS_EmptySet DEF At
  <2>3. sem - 1 \in 0..MaxConcurrent
    BY <2>2, LimitAssumption DEF LimitExact
  <2> QED
    BY <1>8, <2>3 DEF Release, Goto, client, metrics, PCs, Counted
<1>9. ASSUME NEW r \in Requests, ClientGone(r) PROVE TypeOK'
  BY <1>9 DEF ClientGone, metrics
<1>10. CASE UNCHANGED vars
  BY <1>10 DEF vars
<1> QED
  BY <1>1, <1>2, <1>3, <1>4, <1>5, <1>6, <1>7, <1>8, <1>9, <1>10 DEF Next, Handler

\* The code is sent at the end of a way through the handler, never before.
LEMMA UnansweredNext == TypeOK /\ Unanswered /\ [Next]_vars => Unanswered'
<1> SUFFICES ASSUME TypeOK, Unanswered, [Next]_vars PROVE Unanswered'
  OBVIOUS
<1> USE DEF TypeOK, Unanswered
<1>1. ASSUME NEW r \in Requests, Arrive(r) \/ Route(r) \/ Acquire(r) \/ Busy(r) \/ IncGauge(r)
      PROVE  Unanswered'
  BY <1>1 DEF Arrive, Route, Acquire, Busy, IncGauge, Goto, Send
<1>2. ASSUME NEW r \in Requests, Decode(r) \/ Mutate(r) \/ Panic(r) \/ Record(r) \/ Encode(r)
      PROVE  Unanswered'
  <2>1. /\ \/ Goto(r, "decode", "mutate") \/ Goto(r, "mutate", "record")
           \/ Goto(r, "record", "encode") \/ Goto(r, "mutate", "release")
        /\ UNCHANGED reply
        \/ /\ Goto(r, "decode", "release") \/ Goto(r, "encode", "release")
           /\ \E c \in {200, 400} : Send(r, c)
    BY <1>2 DEF Decode, Mutate, Panic, Record, Encode
  <2> QED
    BY <2>1 DEF Goto, Send
<1>3. ASSUME NEW r \in Requests, Release(r) \/ DecGauge(r) PROVE Unanswered'
  BY <1>3 DEF Release, DecGauge, Goto
<1>4. CASE \/ UNCHANGED vars
           \/ \E r \in Requests : ClientGone(r)
  BY <1>4 DEF vars, ClientGone
<1> QED
  BY <1>1, <1>2, <1>3, <1>4 DEF Next, Handler

\* The invariant holds when the webhook starts.
LEMMA InitInv == Init => IInv
<1> SUFFICES ASSUME Init PROVE IInv
  OBVIOUS
<1>1. TypeOK
  BY LimitAssumption, MixAssumption DEF Init, TypeOK, PCs, Results, Answers
<1>2. At(Holding) = {} /\ At(Counted) = {}
  BY DEF Init, At, Holding, Counted
<1>3. Unanswered
  BY DEF Init, Unanswered
<1> QED
  BY <1>1, <1>2, <1>3, FS_EmptySet DEF Init, IInv, LimitExact

\* The inductive invariant of ServeHTTP: types, tokens, gauge and replies.
THEOREM Invariance == Spec => []IInv
<1>1. IInv /\ [Next]_vars => IInv'
  BY TypeNext, Exactness, UnansweredNext DEF IInv
<1> QED
  BY InitInv, <1>1, PTL DEF Spec

\* Every variable has its type in every reachable state; the number of tokens
\* stays within the capacity of the channel.
THEOREM TypeCorrect == Spec => []TypeOK
<1>1. IInv => TypeOK
  BY DEF IInv
<1> QED
  BY Invariance, <1>1, PTL

\* By every way out of the handler, a panic among them, the token is given back
\* once and the gauge follows.
THEOREM NothingLeaks == Spec => []LimitExact
<1>1. IInv => LimitExact
  BY DEF IInv
<1> QED
  BY Invariance, <1>1, PTL

-----------------------------------------------------------------------------
(* What is counted, in two places of the code, is what was answered.       *)

\* A request that becomes one of a set adds one to their number.
LEMMA OneMore ==
  ASSUME NEW S, NEW T, NEW r, S \subseteq Requests, r \notin S, T = S \cup {r}
  PROVE  Cardinality(T) = Cardinality(S) + 1
<1>1. IsFiniteSet(S)
  BY RequestAssumption, FS_Subset
<1> QED
  BY <1>1, FS_AddElement

\* The steps that neither count nor answer a review leave the sets as they are.
LEMMA Uncounted ==
  ASSUME TypeOK, Unanswered, NEW r \in Requests, NEW a, NEW b, Goto(r, a, b),
         a \notin {"record", "encode"}, b \notin {"record", "encode"}, UNCHANGED kind,
         \/ UNCHANGED reply
         \/ \E c \in {400, 405, 503} : Send(r, c) /\ reply[r] # 200
  PROVE  /\ Reviewed({"encode"})' = Reviewed({"encode"})
         /\ Reviewed({"record", "encode"})' = Reviewed({"record", "encode"})
<1>1. ASSUME NEW q \in Requests
      PROVE  /\ reply'[q] = 200 <=> reply[q] = 200
             /\ pc'[q] = "record" <=> pc[q] = "record"
             /\ pc'[q] = "encode" <=> pc[q] = "encode"
  BY DEF TypeOK, Goto, Send
<1> QED
  BY <1>1 DEF Reviewed

\* The counters follow the reviews in every step.
LEMMA CountsNext == IInv /\ CountsReviews /\ [Next]_vars => CountsReviews'
<1> SUFFICES ASSUME IInv, CountsReviews, [Next]_vars PROVE CountsReviews'
  OBVIOUS
<1> USE DEF IInv, TypeOK
<1> DEFINE Same1 == \A a \in Answers : Answered(a)' = Answered(a)
           Same2 == \A x \in Results : Resulted(x)' = Resulted(x)
<1>0. ASSUME Same1, Same2, TimedOut' = TimedOut, UNCHANGED metrics PROVE CountsReviews'
  <2>1. UNCHANGED <<requests, results, errors>>
    BY <1>0 DEF metrics
  <2>2. \A a \in Answers : requests[a] = Cardinality(Answered(a)')
    BY <1>0 DEF CountsReviews
  <2>3. \A x \in Results : results[x] = Cardinality(Resulted(x)')
    BY <1>0 DEF CountsReviews
  <2> QED
    BY <1>0, <2>1, <2>2, <2>3 DEF CountsReviews
<1>1. ASSUME NEW r \in Requests, Record(r) PROVE CountsReviews'
  <2>1. /\ Goto(r, "record", "encode") /\ UNCHANGED <<kind, reply, results, errors>>
        /\ requests' = [requests EXCEPT ![Answer(kind[r])] = @ + 1]
    BY <1>1 DEF Record, client
  <2>2. reply[r] # 200
    BY <2>1, ReplyAssumption DEF Unanswered, Goto
  <2>3. Same2 /\ TimedOut' = TimedOut
    BY <2>1 DEF Resulted, TimedOut, Reviewed, Goto
  <2>4. ASSUME NEW a \in Answers
        PROVE  requests'[a] = Cardinality(Answered(a)')
    <3>1. requests[a] = Cardinality(Answered(a))
      BY DEF CountsReviews, Answered
    <3>2. CASE Answer(kind[r]) = a
      <4>1. Answered(a)' = Answered(a) \cup {r} /\ r \notin Answered(a)
        BY <2>1, <2>2, <3>2 DEF Answered, Reviewed, Goto
      <4>2. Cardinality(Answered(a)') = Cardinality(Answered(a)) + 1
        BY <4>1, OneMore DEF Answered, Reviewed
      <4> QED
        BY <2>1, <3>1, <3>2, <4>2
    <3>3. CASE Answer(kind[r]) # a
      <4>1. Answered(a)' = Answered(a)
        BY <2>1, <3>3 DEF Answered, Reviewed, Goto
      <4> QED
        BY <2>1, <3>1, <3>3, <4>1
    <3> QED
      BY <3>2, <3>3
  <2> QED
    BY <2>1, <2>3, <2>4 DEF CountsReviews, Answered, Resulted, TimedOut
<1>2. ASSUME NEW r \in Requests, Mutate(r) PROVE CountsReviews'
  <2>1. /\ Goto(r, "mutate", "record") /\ UNCHANGED <<kind, reply, requests>>
        /\ results' = IF Result(kind[r]) \in Results
                      THEN [results EXCEPT ![Result(kind[r])] = @ + 1] ELSE results
        /\ errors' = IF kind[r] = "invalid"
                     THEN [errors EXCEPT !.validation = @ + 1] ELSE errors
    BY <1>2 DEF Mutate, client
  <2>2. reply[r] # 200
    BY <2>1, ReplyAssumption DEF Unanswered, Goto
  <2>3. Same1 /\ TimedOut' = TimedOut
    BY <2>1 DEF Answered, TimedOut, Reviewed, Goto
  <2>4. Result(kind[r]) = "error" <=> kind[r] = "invalid"
    BY Errors
  <2>5. ASSUME NEW x \in Results
        PROVE  results'[x] = Cardinality(Resulted(x)')
    <3>1. results[x] = Cardinality(Resulted(x))
      BY DEF CountsReviews, Resulted
    <3>2. CASE Result(kind[r]) = x
      <4>1. Resulted(x)' = Resulted(x) \cup {r} /\ r \notin Resulted(x)
        BY <2>1, <2>2, <3>2 DEF Resulted, Reviewed, Goto
      <4>2. Cardinality(Resulted(x)') = Cardinality(Resulted(x)) + 1
        BY <4>1, OneMore DEF Resulted, Reviewed
      <4> QED
        BY <2>1, <2>4, <3>1, <3>2, <4>2
    <3>3. CASE Result(kind[r]) # x
      <4>1. Resulted(x)' = Resulted(x)
        BY <2>1, <3>3 DEF Resulted, Reviewed, Goto
      <4> QED
        BY <2>1, <3>1, <3>3, <4>1
    <3> QED
      BY <3>2, <3>3
  <2>6. errors'.validation = results'["error"] /\ errors'.timeout = errors.timeout
    <3>1. errors.validation = results["error"] /\ "error" \in Results
      BY DEF CountsReviews, Results
    <3>2. CASE kind[r] = "invalid"
      BY <2>1, <2>4, <3>1, <3>2
    <3>3. CASE kind[r] # "invalid"
      BY <2>1, <2>4, <3>1, <3>3
    <3> QED
      BY <3>2, <3>3
  <2> QED
    BY <2>1, <2>3, <2>5, <2>6 DEF CountsReviews, Answered, Resulted, TimedOut
<1>3. ASSUME NEW r \in Requests, Encode(r) PROVE CountsReviews'
  <2>1. Goto(r, "encode", "release") /\ Send(r, 200) /\ UNCHANGED <<kind, metrics>>
    BY <1>3 DEF Encode, client
  <2>2. reply[r] = NoReply
    BY <2>1 DEF Unanswered, Goto
  <2>3. Same1 /\ Same2
    BY <2>1 DEF Answered, Resulted, Reviewed, Goto, Send
  <2>4. TimedOut' = TimedOut
    BY <2>1, <2>2, ReplyAssumption DEF TimedOut, Send
  <2> QED
    BY <2>1, <2>3, <2>4, <1>0
<1>4. ASSUME NEW r \in Requests, Busy(r) PROVE CountsReviews'
  <2>1. /\ Goto(r, "select", "done") /\ Send(r, 503) /\ UNCHANGED <<kind, requests, results>>
        /\ errors' = [errors EXCEPT !.timeout = @ + 1]
    BY <1>4 DEF Busy, client
  <2>2. reply[r] = NoReply
    BY <2>1 DEF Unanswered, Goto
  <2>3. Same1 /\ Same2
    BY <2>1, <2>2, ReplyAssumption, Uncounted DEF Answered, Resulted
  <2>4. TimedOut' = TimedOut \cup {r} /\ r \notin TimedOut
    BY <2>1, <2>2, ReplyAssumption DEF TimedOut, Send
  <2>5. Cardinality(TimedOut') = Cardinality(TimedOut) + 1
    BY <2>4, OneMore DEF TimedOut
  <2> QED
    BY <2>1, <2>3, <2>5 DEF CountsReviews, Answered, Resulted, TimedOut
<1>5. ASSUME NEW r \in Requests, Arrive(r) \/ Acquire(r) \/ IncGauge(r) \/ Panic(r)
                                  \/ Release(r) \/ DecGauge(r)
      PROVE  CountsReviews'
  <2>1. /\ UNCHANGED <<kind, reply, metrics>>
        /\ \/ Goto(r, "idle", "start") \/ Goto(r, "select", "enter")
           \/ Goto(r, "enter", "decode") \/ Goto(r, "mutate", "release")
           \/ Goto(r, "release", "exit") \/ Goto(r, "exit", "done")
    BY <1>5 DEF Arrive, Acquire, IncGauge, Panic, Release, DecGauge, client, metrics
  <2>2. Same1 /\ Same2
    BY <2>1, Uncounted DEF Answered, Resulted
  <2>3. TimedOut' = TimedOut
    BY <2>1 DEF TimedOut
  <2> QED
    BY <2>1, <2>2, <2>3, <1>0
<1>6. ASSUME NEW r \in Requests, Route(r) \/ Decode(r) PROVE CountsReviews'
  <2>1. /\ UNCHANGED <<kind, metrics>>
        /\ \/ Goto(r, "start", "select") /\ UNCHANGED reply
           \/ Goto(r, "decode", "mutate") /\ UNCHANGED reply
           \/ Goto(r, "start", "done") /\ Send(r, 405)
           \/ Goto(r, "decode", "release") /\ Send(r, 400)
    BY <1>6 DEF Route, Decode, client, metrics
  <2>2. reply[r] = NoReply
    BY <2>1 DEF Unanswered, Goto
  <2>3. Same1 /\ Same2
    BY <2>1, <2>2, ReplyAssumption, Uncounted DEF Answered, Resulted
  <2>4. TimedOut' = TimedOut
    BY <2>1, <2>2, ReplyAssumption DEF TimedOut, Send
  <2> QED
    BY <2>1, <2>3, <2>4, <1>0
<1>7. CASE \/ UNCHANGED vars
           \/ \E r \in Requests : ClientGone(r)
  <2>1. UNCHANGED <<pc, kind, reply, metrics>>
    BY <1>7 DEF vars, ClientGone, metrics
  <2> QED
    BY <2>1, <1>0 DEF Answered, Resulted, Reviewed, TimedOut
<1> QED
  BY <1>1, <1>2, <1>3, <1>4, <1>5, <1>6, <1>7 DEF Next, Handler

\* They start at zero, with no review made.
LEMMA CountsInit == Init => CountsReviews
<1> SUFFICES ASSUME Init PROVE CountsReviews
  OBVIOUS
<1>1. /\ \A a : Answered(a) = {}
      /\ \A x : Resulted(x) = {}
      /\ TimedOut = {}
  BY ReplyAssumption DEF Init, Answered, Resulted, TimedOut, Reviewed
<1>2. /\ \A a \in Answers : requests[a] = 0
      /\ \A x \in Results : results[x] = 0
      /\ errors.timeout = 0 /\ errors.validation = 0 /\ "error" \in Results
  BY DEF Init, Results
<1> QED
  BY <1>1, <1>2, FS_EmptySet DEF CountsReviews, Answered, Resulted, TimedOut

\* However the reviews interleave and whatever they are, every answer is counted
\* once, as what it says, by both of the functions that count.
THEOREM NoReviewUncounted == Spec => []CountsReviews
BY CountsInit, CountsNext, Invariance, PTL DEF Spec

-----------------------------------------------------------------------------
(* The handler implements the gate.                                        *)

\* A request that is not done has not been turned away.
Pending == \A r \in Requests : pc[r] # "done" => reply[r] \notin TurnedAway

\* That a request in the handler was not turned away is kept by every step.
LEMMA PendingNext == TypeOK /\ Pending /\ [Next]_vars => Pending'
<1> SUFFICES ASSUME TypeOK, Pending, [Next]_vars, NEW r \in Requests, pc'[r] # "done"
             PROVE  reply'[r] \notin TurnedAway
  BY DEF Pending
<1> USE DEF TypeOK, Pending
<1>1. CASE UNCHANGED <<pc, reply>>
  BY <1>1
<1>2. ASSUME NEW q \in Requests, NEW a, NEW b, Goto(q, a, b), a # "done",
             UNCHANGED reply
      PROVE  reply'[r] \notin TurnedAway
  BY <1>2 DEF Goto
<1>3. ASSUME NEW q \in Requests, NEW a, NEW c, Goto(q, a, "done"), a # "done",
             Send(q, c)
      PROVE  reply'[r] \notin TurnedAway
  BY <1>3 DEF Goto, Send
<1>4. ASSUME NEW q \in Requests, NEW a, NEW b, NEW c, Goto(q, a, b), a # "done",
             Send(q, c), c \in {200, 400}
      PROVE  reply'[r] \notin TurnedAway
  BY <1>4 DEF Goto, Send, TurnedAway
<1>5. ASSUME NEW q \in Requests, Arrive(q) \/ Acquire(q) \/ IncGauge(q)
                                  \/ Release(q) \/ DecGauge(q)
      PROVE  reply'[r] \notin TurnedAway
  BY <1>5, <1>2 DEF Arrive, Acquire, IncGauge, Release, DecGauge
<1>6. ASSUME NEW q \in Requests, Route(q) \/ Busy(q)
      PROVE  reply'[r] \notin TurnedAway
  BY <1>6, <1>2, <1>3 DEF Route, Busy
<1>7. ASSUME NEW q \in Requests, Decode(q) \/ Mutate(q) \/ Panic(q) \/ Record(q) \/ Encode(q)
      PROVE  reply'[r] \notin TurnedAway
  BY <1>7, <1>2, <1>4 DEF Decode, Mutate, Panic, Record, Encode
<1>8. ASSUME NEW q \in Requests, ClientGone(q) PROVE reply'[r] \notin TurnedAway
  BY <1>8, <1>1 DEF ClientGone
<1> QED
  BY <1>1, <1>5, <1>6, <1>7, <1>8 DEF Next, Handler, vars

\* It holds always.
LEMMA PendingAlways == Spec => []Pending
<1>1. Init => Pending
  BY ReplyAssumption DEF Init, Pending, TurnedAway
<1> QED
  BY <1>1, PendingNext, TypeCorrect, PTL DEF Spec

\* Every step of the handler is one of the gate, or a stutter.
LEMMA GateStep == IInv /\ Pending /\ [Next]_vars => [G!Next]_(G!vars)
<1> SUFFICES ASSUME IInv, Pending, [Next]_vars PROVE [G!Next]_(G!vars)
  OBVIOUS
<1> USE DEF IInv, TypeOK
<1>1. ASSUME At(Holding)' = At(Holding), HadToken' = HadToken PROVE [G!Next]_(G!vars)
  BY <1>1 DEF G!vars
<1>2. ASSUME NEW r \in Requests, Acquire(r) PROVE G!Enter(r)
  <2>1. Goto(r, "select", "enter") /\ UNCHANGED reply /\ sem < MaxConcurrent
    BY <1>2 DEF Acquire
  <2>2. At(Holding)' = At(Holding) \cup {r} /\ r \notin At(Holding)
    BY <2>1, AtEnter DEF Holding
  <2>3. HadToken' = HadToken /\ r \notin HadToken
    BY <2>1 DEF HadToken, At, Goto
  <2>4. Cardinality(At(Holding)) < MaxConcurrent
    BY <2>1 DEF LimitExact
  <2>5. G!Cardinality(At(Holding)) = Cardinality(At(Holding))
    BY DEF G!Cardinality, Cardinality
  <2> QED
    BY <2>2, <2>3, <2>4, <2>5 DEF G!Enter
<1>3. ASSUME NEW r \in Requests, Release(r) PROVE G!Leave(r)
  <2>1. Goto(r, "release", "exit") /\ UNCHANGED reply
    BY <1>3 DEF Release
  <2>2. At(Holding)' = At(Holding) \ {r} /\ r \in At(Holding)
    BY <2>1, AtLeave DEF Holding
  <2>3. HadToken' = HadToken \cup {r}
    BY <2>1 DEF HadToken, At, Goto
  <2> QED
    BY <2>2, <2>3 DEF G!Leave
<1>4. ASSUME NEW r \in Requests, DecGauge(r) PROVE [G!Next]_(G!vars)
  <2>1. Goto(r, "exit", "done") /\ UNCHANGED reply
    BY <1>4 DEF DecGauge
  <2>2. At(Holding)' = At(Holding)
    BY <2>1, AtStay DEF Holding
  <2>3. HadToken' = HadToken
    BY <2>1 DEF HadToken, At, Goto, Pending
  <2> QED
    BY <2>2, <2>3, <1>1
<1>5. ASSUME NEW r \in Requests, NEW a, NEW b, Goto(r, a, b), a \in Holding <=> b \in Holding,
             a \notin {"exit", "done"}, b \notin {"exit", "done"},
             \A q \in Requests : q # r => reply'[q] = reply[q]
      PROVE  [G!Next]_(G!vars)
  <2>1. At(Holding)' = At(Holding)
    BY <1>5, AtStay
  <2>2. HadToken' = HadToken
    BY <1>5 DEF HadToken, At, Goto
  <2> QED
    BY <2>1, <2>2, <1>1
<1>6. ASSUME NEW r \in Requests, NEW a, NEW c, Goto(r, a, "done"), a \notin Holding,
             a \notin {"exit", "done"}, Send(r, c), c \in TurnedAway
      PROVE  [G!Next]_(G!vars)
  <2>1. At(Holding)' = At(Holding)
    BY <1>6, AtStay DEF Holding
  <2>2. HadToken' = HadToken
    BY <1>6 DEF HadToken, At, Goto, Send
  <2> QED
    BY <2>1, <2>2, <1>1
<1>7. ASSUME NEW r \in Requests, Arrive(r) \/ IncGauge(r) PROVE [G!Next]_(G!vars)
  <2>1. /\ Goto(r, "idle", "start") \/ Goto(r, "enter", "decode")
        /\ UNCHANGED reply
    BY <1>7 DEF Arrive, IncGauge
  <2> QED
    BY <2>1, <1>5 DEF Holding
<1>8. ASSUME NEW r \in Requests, Route(r) \/ Busy(r) PROVE [G!Next]_(G!vars)
  <2>1. CASE Goto(r, "start", "select") /\ UNCHANGED reply
    BY <2>1, <1>5 DEF Holding
  <2>2. CASE \E c \in TurnedAway : Send(r, c) /\
               (Goto(r, "start", "done") \/ Goto(r, "select", "done"))
    BY <2>2, <1>6 DEF Holding
  <2> QED
    BY <1>8, <2>1, <2>2 DEF Route, Busy, TurnedAway
<1>9. ASSUME NEW r \in Requests, Decode(r) \/ Mutate(r) \/ Panic(r) \/ Record(r) \/ Encode(r)
      PROVE  [G!Next]_(G!vars)
  <2>1. \/ Goto(r, "decode", "mutate") \/ Goto(r, "decode", "release")
        \/ Goto(r, "mutate", "record") \/ Goto(r, "mutate", "release")
        \/ Goto(r, "record", "encode") \/ Goto(r, "encode", "release")
    BY <1>9 DEF Decode, Mutate, Panic, Record, Encode
  <2>2. \A q \in Requests : q # r => reply'[q] = reply[q]
    BY <1>9 DEF Decode, Mutate, Panic, Record, Encode, Send
  <2> QED
    BY <2>1, <2>2, <1>5 DEF Holding
<1>10. CASE \/ UNCHANGED vars
            \/ \E r \in Requests : ClientGone(r)
  <2>1. UNCHANGED <<pc, reply>>
    BY <1>10 DEF vars, ClientGone
  <2>2. At(Holding)' = At(Holding) /\ HadToken' = HadToken
    BY <2>1 DEF At, HadToken
  <2> QED
    BY <2>2, <1>1
<1> QED
  BY <1>2, <1>3, <1>4, <1>7, <1>8, <1>9, <1>10 DEF Next, Handler, G!Next

\* For every number of requests and every capacity, no more than MaxConcurrent
\* requests are between the semaphore and its release, and each enters once.
THEOREM Refinement == Spec => ImplementsGate
<1>1. Init => G!Init
  BY DEF Init, G!Init, At, Holding, HadToken
<1> QED
  BY <1>1, GateStep, Invariance, PendingAlways, PTL DEF Spec, G!Spec, ImplementsGate
=============================================================================
