------------------------ MODULE KeeperServer_proofs ------------------------
(***************************************************************************)
(* Proofs about KeeperServer, for every number of requests and every       *)
(* capacity of the semaphore.                                              *)
(***************************************************************************)
EXTENDS KeeperServer, FiniteSetTheorems, TLAPS

IInv == TypeOK /\ SlotsExact /\ GaugeExact

-----------------------------------------------------------------------------
(* What a step of one request does to the requests at some places.         *)

\* The requests at some places are finitely many.
LEMMA AtFinite == ASSUME NEW S PROVE IsFiniteSet(At(S)) /\ Cardinality(At(S)) \in Nat
<1>1. At(S) \subseteq Requests
  BY DEF At
<1> QED
  BY <1>1, RequestAssumption, FS_Subset, FS_CardinalityType

\* A goroutine's step into a set of places adds one request to it.
LEMMA AtEnter ==
  ASSUME NEW S, NEW r \in Requests, NEW a, NEW b, pc \in [Requests -> PCs],
         Goto(r, a, b), a \notin S, b \in S
  PROVE  /\ At(S)' = At(S) \cup {r} /\ r \notin At(S)
         /\ Cardinality(At(S)') = Cardinality(At(S)) + 1
<1>1. At(S)' = At(S) \cup {r} /\ r \notin At(S)
  BY DEF At, Goto
<1> QED
  BY <1>1, AtFinite, FS_AddElement

\* A step out of it takes one away.
LEMMA AtLeave ==
  ASSUME NEW S, NEW r \in Requests, NEW a, NEW b, pc \in [Requests -> PCs],
         Goto(r, a, b), a \in S, b \notin S
  PROVE  /\ At(S)' = At(S) \ {r} /\ r \in At(S)
         /\ Cardinality(At(S)') = Cardinality(At(S)) - 1
<1>1. At(S)' = At(S) \ {r} /\ r \in At(S)
  BY DEF At, Goto
<1> QED
  BY <1>1, AtFinite, FS_RemoveElement

\* Any other step leaves it alone.
LEMMA AtStay ==
  ASSUME NEW S, NEW r \in Requests, NEW a, NEW b, pc \in [Requests -> PCs],
         Goto(r, a, b), a \in S <=> b \in S
  PROVE  At(S)' = At(S)
BY DEF At, Goto

-----------------------------------------------------------------------------
\* A step of any request keeps the token and the gauge in step with the places
\* of the requests.
LEMMA Exactness == IInv /\ [Step]_vars => SlotsExact' /\ GaugeExact'
<1> SUFFICES ASSUME IInv, [Step]_vars PROVE SlotsExact' /\ GaugeExact'
  OBVIOUS
<1> USE DEF IInv, TypeOK, SlotsExact, GaugeExact
<1>0. Cardinality(At(Holding)) \in Nat /\ Cardinality(At(Counted)) \in Nat
  BY AtFinite
<1>1. ASSUME NEW r \in Requests, Acquire(r) PROVE SlotsExact' /\ GaugeExact'
  <2>1. Goto(r, "select", "enter") /\ sem' = sem + 1 /\ gauge' = gauge
    BY <1>1 DEF Acquire
  <2>2. Cardinality(At(Holding)') = Cardinality(At(Holding)) + 1
    BY <2>1, AtEnter DEF Holding
  <2>3. At(Counted)' = At(Counted)
    BY <2>1, AtStay DEF Counted
  <2> QED
    BY <2>1, <2>2, <2>3
<1>2. ASSUME NEW r \in Requests, IncGauge(r) PROVE SlotsExact' /\ GaugeExact'
  <2>1. Goto(r, "enter", "decode") /\ sem' = sem /\ gauge' = gauge + 1
    BY <1>2 DEF IncGauge
  <2>2. At(Holding)' = At(Holding)
    BY <2>1, AtStay DEF Holding
  <2>3. Cardinality(At(Counted)') = Cardinality(At(Counted)) + 1
    BY <2>1, AtEnter DEF Counted
  <2> QED
    BY <2>1, <2>2, <2>3
<1>3. ASSUME NEW r \in Requests, Release(r) PROVE SlotsExact' /\ GaugeExact'
  <2>1. Goto(r, "release", "exit") /\ sem' = sem - 1 /\ gauge' = gauge
    BY <1>3 DEF Release
  <2>2. Cardinality(At(Holding)') = Cardinality(At(Holding)) - 1
    BY <2>1, AtLeave DEF Holding
  <2>3. At(Counted)' = At(Counted)
    BY <2>1, AtStay DEF Counted
  <2> QED
    BY <2>1, <2>2, <2>3
<1>4. ASSUME NEW r \in Requests, DecGauge(r) PROVE SlotsExact' /\ GaugeExact'
  <2>1. Goto(r, "exit", "done") /\ sem' = sem /\ gauge' = gauge - 1
    BY <1>4 DEF DecGauge
  <2>2. At(Holding)' = At(Holding)
    BY <2>1, AtStay DEF Holding
  <2>3. Cardinality(At(Counted)') = Cardinality(At(Counted)) - 1
    BY <2>1, AtLeave DEF Counted
  <2> QED
    BY <2>1, <2>2, <2>3
<1>5. ASSUME NEW r \in Requests, NEW a, NEW b, Goto(r, a, b),
             a \in Holding <=> b \in Holding, a \in Counted <=> b \in Counted,
             sem' = sem, gauge' = gauge
      PROVE  SlotsExact' /\ GaugeExact'
  BY <1>5, AtStay
<1>6. ASSUME NEW r \in Requests, Arrive(r) \/ Route(r) \/ Busy(r)
      PROVE  SlotsExact' /\ GaugeExact'
  <2>1. /\ \/ Goto(r, "idle", "start") \/ Goto(r, "start", "select")
           \/ Goto(r, "start", "done") \/ Goto(r, "select", "done")
        /\ sem' = sem /\ gauge' = gauge
    BY <1>6 DEF Arrive, Route, Busy
  <2> QED
    BY <2>1, <1>5 DEF Holding, Counted
<1>7. ASSUME NEW r \in Requests, Decode(r) \/ Call(r) \/ Answer(r)
      PROVE  SlotsExact' /\ GaugeExact'
  <2>1. /\ \/ Goto(r, "decode", "call") \/ Goto(r, "decode", "answer")
           \/ Goto(r, "call", "answer") \/ Goto(r, "call", "release")
           \/ Goto(r, "answer", "release")
        /\ sem' = sem /\ gauge' = gauge
    BY <1>7 DEF Decode, Call, Answer
  <2> QED
    BY <2>1, <1>5 DEF Holding, Counted
<1>8. CASE \/ UNCHANGED vars \/ \E c \in Clients : Connect(c) \/ Close(c)
           \/ \E r \in Requests : ClientGone(r)
  <2>1. UNCHANGED <<pc, sem, gauge>>
    BY <1>8 DEF vars, Connect, Close, ClientGone
  <2>2. At(Holding)' = At(Holding) /\ At(Counted)' = At(Counted)
    BY <2>1 DEF At
  <2> QED
    BY <2>1, <2>2
<1> QED
  BY <1>1, <1>2, <1>3, <1>4, <1>6, <1>7, <1>8 DEF Step, Handler, Own

\* A goroutine takes a token only when one is free and gives back only what it
\* took: the number of tokens stays in its range.
LEMMA TypeNext == IInv /\ [Step]_vars => TypeOK'
<1> SUFFICES ASSUME IInv, [Step]_vars PROVE TypeOK'
  OBVIOUS
<1> USE DEF IInv, TypeOK
<1>1. ASSUME NEW r \in Requests, Arrive(r) \/ Route(r) \/ Busy(r) PROVE TypeOK'
  BY <1>1 DEF Arrive, Route, Busy, Goto, Send, client, answer, PCs
<1>2. ASSUME NEW r \in Requests, Acquire(r) PROVE TypeOK'
  BY <1>2, LimitAssumption DEF Acquire, Goto, client, answer, PCs, Holding
<1>3. ASSUME NEW r \in Requests, IncGauge(r) \/ DecGauge(r) PROVE TypeOK'
  BY <1>3 DEF IncGauge, DecGauge, Goto, client, answer, PCs, Counted
<1>4. ASSUME NEW r \in Requests, Decode(r) \/ Call(r) \/ Answer(r) PROVE TypeOK'
  <2>1. pc' \in [Requests -> PCs] /\ UNCHANGED <<client, sem, gauge>>
    BY <1>4 DEF Decode, Call, Answer, Goto, PCs, Holding, Counted
  <2>2. /\ reply' \in [Requests -> {NoReply, 200, 400, 404, 405, 413, 500, 503}]
        /\ code' \in [Requests -> {NoReply, 200, 400, 413, 500}]
        /\ count' \in [{"ok", "error"} -> Nat]
    <3>1. CASE UNCHANGED answer
      BY <3>1 DEF answer
    <3>2. CASE \/ Tell(r, "ok", 200)
               \/ \E c \in {400, 413, 500} : Tell(r, "error", c)
      BY <3>2 DEF Tell
    <3>3. CASE Answer(r)
      <4>1. code[r] \in {NoReply, 200, 400, 413, 500}
        OBVIOUS
      <4> QED
        BY <3>3, <4>1 DEF Answer, Send
    <3> QED
      BY <1>4, <3>1, <3>2, <3>3 DEF Decode, Call
  <2> QED
    BY <2>1, <2>2 DEF client
<1>5. ASSUME NEW r \in Requests, Release(r) PROVE TypeOK'
  <2>1. pc[r] \in Holding
    BY <1>5 DEF Release, Goto, Holding
  <2>2. Cardinality(At(Holding)) # 0
    <3>1. IsFiniteSet(At(Holding))
      BY AtFinite
    <3> QED
      BY <2>1, <3>1, FS_EmptySet DEF At
  <2>3. sem - 1 \in 0..MaxConcurrent
    BY <2>2, LimitAssumption DEF SlotsExact
  <2> QED
    BY <1>5, <2>3 DEF Release, Goto, client, answer, PCs, Counted
<1>6. ASSUME NEW r \in Requests, ClientGone(r) PROVE TypeOK'
  BY <1>6 DEF ClientGone, answer
<1>7. ASSUME NEW c \in Clients, Connect(c) \/ Close(c) PROVE TypeOK'
  <2>1. /\ open' \subseteq Clients
        /\ UNCHANGED <<pc, kind, answer, sem, gauge>>
    BY <1>7 DEF Connect, Close
  <2>2. ctxDone' \in [Requests -> BOOLEAN]
    <3>1. CASE Connect(c)
      BY <3>1 DEF Connect
    <3>2. CASE Close(c)
      <4>1. ctxDone' = [r \in Requests |->
                          ctxDone[r] \/ (From[r] = c /\ pc[r] \in {"start", "select"})]
        BY <3>2 DEF Close
      <4> QED
        BY <4>1, Zenon
    <3> QED
      BY <1>7, <3>1, <3>2
  <2> QED
    BY <2>1, <2>2 DEF answer
<1>8. CASE UNCHANGED vars
  BY <1>8 DEF vars
<1> QED
  BY <1>1, <1>2, <1>3, <1>4, <1>5, <1>6, <1>7, <1>8 DEF Step, Handler, Own

\* The invariant holds when the keeper starts.
LEMMA InitInv == Init => IInv
<1> SUFFICES ASSUME Init PROVE IInv
  OBVIOUS
<1>1. TypeOK
  BY LimitAssumption DEF Init, TypeOK, PCs
<1>2. At(Holding) = {} /\ At(Counted) = {}
  BY DEF Init, At, Holding, Counted
<1> QED
  BY <1>1, <1>2, FS_EmptySet DEF Init, IInv, SlotsExact, GaugeExact

-----------------------------------------------------------------------------
(* The counters say what the replies say.                                  *)

\* A request whose handler has not come to its reply has none, and one is being told
\* where it is written only.
Early      == {"idle", "start", "select", "enter", "decode", "call"}
Unanswered == \A r \in Requests :
                /\ pc[r] \in Early \cup {"answer"} => reply[r] = NoReply
                /\ code[r] # NoReply <=> pc[r] = "answer"

\* That a request without an answer has not been sent a reply is kept by every step.
LEMMA UnansweredNext == TypeOK /\ Unanswered /\ [Step]_vars => Unanswered'
<1> SUFFICES ASSUME TypeOK, Unanswered, [Step]_vars PROVE Unanswered'
  OBVIOUS
<1> USE DEF TypeOK, Unanswered, Early
<1>1. ASSUME NEW r \in Requests, Arrive(r) \/ Route(r) \/ Acquire(r) \/ Busy(r) \/ IncGauge(r)
      PROVE  Unanswered'
  BY <1>1 DEF Arrive, Route, Acquire, Busy, IncGauge, Goto, Send, answer
<1>2. ASSUME NEW r \in Requests, Decode(r) \/ Call(r) PROVE Unanswered'
  <2>1. \/ Goto(r, "decode", "call") /\ UNCHANGED answer
        \/ Goto(r, "call", "release") /\ UNCHANGED answer
        \/ \E c \in {200, 400, 413, 500} :
             /\ Goto(r, "decode", "answer") \/ Goto(r, "call", "answer")
             /\ code' = [code EXCEPT ![r] = c] /\ UNCHANGED reply
    BY <1>2 DEF Decode, Call, Tell
  <2> QED
    BY <2>1, ReplyAssumption DEF Goto, answer
<1>3. ASSUME NEW r \in Requests, Answer(r) PROVE Unanswered'
  BY <1>3 DEF Answer, Goto, Send
<1>4. ASSUME NEW r \in Requests, Release(r) \/ DecGauge(r) PROVE Unanswered'
  BY <1>4 DEF Release, DecGauge, Goto, answer
<1>5. CASE \/ UNCHANGED vars \/ \E c \in Clients : Connect(c) \/ Close(c)
           \/ \E r \in Requests : ClientGone(r)
  BY <1>5 DEF vars, Connect, Close, ClientGone, answer
<1> QED
  BY <1>1, <1>2, <1>3, <1>4, <1>5 DEF Step, Handler, Own

\* Requests that are or were told some codes are finitely many.
LEMMA ToldFinite ==
  ASSUME NEW S
  PROVE  IsFiniteSet(Told(S)) /\ Cardinality(Told(S)) \in Nat
<1>1. Told(S) \subseteq Requests
  BY DEF Told
<1> QED
  BY <1>1, RequestAssumption, FS_Subset, FS_CardinalityType

\* A request is told a code: it is about to be, or it is at once.
Says(r, c) == \/ code' = [code EXCEPT ![r] = c] /\ reply' = reply
              \/ reply' = [reply EXCEPT ![r] = c] /\ code' = code

\* A request that is told a code for the first time adds one to those of its codes, and
\* none to the others.
LEMMA ToldOne ==
  ASSUME TypeOK, NEW r \in Requests, reply[r] = NoReply, code[r] = NoReply, NEW c, Says(r, c),
         NEW S, NoReply \notin S
  PROVE  /\ c \in S => Cardinality(Told(S)') = Cardinality(Told(S)) + 1
         /\ c \notin S => Told(S)' = Told(S)
<1>1. /\ r \notin Told(S)
      /\ r \in Told(S)' <=> c \in S
      /\ \A q \in Requests : q # r => (q \in Told(S)' <=> q \in Told(S))
  BY DEF Told, TypeOK, Says
<1>2. Told(S) \subseteq Requests /\ Told(S)' \subseteq Requests
  BY DEF Told
<1>3. c \in S => Told(S)' = Told(S) \cup {r}
  BY <1>1, <1>2
<1>4. c \notin S => Told(S)' = Told(S)
  BY <1>1, <1>2
<1> QED
  BY <1>1, <1>3, <1>4, ToldFinite, FS_AddElement

\* Writing the reply tells nobody anything new.
LEMMA ToldSame ==
  ASSUME TypeOK, NEW r \in Requests, reply[r] = NoReply, Answer(r), NEW S, NoReply \notin S
  PROVE  Told(S)' = Told(S)
<1>1. reply' = [reply EXCEPT ![r] = code[r]] /\ code' = [code EXCEPT ![r] = NoReply]
  BY DEF Answer, Send
<1> QED
  BY <1>1 DEF Told, TypeOK

\* The counters follow the replies in every step.
LEMMA CountsNext == TypeOK /\ Unanswered /\ CountsReplies /\ [Step]_vars => CountsReplies'
<1> SUFFICES ASSUME TypeOK, Unanswered, CountsReplies, [Step]_vars PROVE CountsReplies'
  OBVIOUS
<1> DEFINE OK == {200}
           Bad == {400, 413, 500}
<1>0. /\ NoReply \notin OK /\ NoReply \notin Bad
      /\ 200 \in OK /\ 200 \notin Bad /\ \A c \in Bad : c \notin OK
      /\ \A c \in {404, 405, 503} : c \notin OK /\ c \notin Bad
  BY ReplyAssumption
<1>1. ASSUME UNCHANGED answer PROVE CountsReplies'
  BY <1>1 DEF CountsReplies, Told, answer
<1>10. /\ count.ok = Cardinality(Told(OK)) /\ count.error = Cardinality(Told(Bad))
       /\ count'.ok = Cardinality(Told(OK)') /\ count'.error = Cardinality(Told(Bad)')
            => CountsReplies'
  BY DEF CountsReplies
<1>11. \A r \in Requests, c \in Bad :
         Tell(r, "error", c) => count'.error = count.error + 1 /\ count'.ok = count.ok
  BY DEF Tell, TypeOK
<1>12. \A r \in Requests : Decode(r) \/ Call(r) =>
         \/ UNCHANGED answer \/ Tell(r, "ok", 200) \/ \E c \in Bad : Tell(r, "error", c)
  BY DEF Decode, Call
<1> HIDE DEF OK, Bad
<1>2. ASSUME NEW r \in Requests, NEW c \in {404, 405, 503}, reply[r] = NoReply,
             code[r] = NoReply, Send(r, c), UNCHANGED <<code, count>>
      PROVE  CountsReplies'
  <2>1. Says(r, c)
    BY <1>2 DEF Send, Says
  <2>2. Told(OK)' = Told(OK) /\ Told(Bad)' = Told(Bad)
    BY <1>0, <1>2, <2>1, ToldOne
  <2> QED
    BY <1>2, <1>10, <2>2
<1>3. ASSUME NEW r \in Requests, reply[r] = NoReply, code[r] = NoReply, Tell(r, "ok", 200)
      PROVE  CountsReplies'
  <2>1. Says(r, 200)
    BY <1>3 DEF Tell, Says
  <2>2. Cardinality(Told(OK)') = Cardinality(Told(OK)) + 1 /\ Told(Bad)' = Told(Bad)
    BY <1>0, <1>3, <2>1, ToldOne
  <2>3. count'.ok = count.ok + 1 /\ count'.error = count.error
    BY <1>3 DEF Tell, TypeOK
  <2> QED
    BY <1>10, <2>2, <2>3
<1>4. ASSUME NEW r \in Requests, NEW c \in Bad, reply[r] = NoReply, code[r] = NoReply,
             Tell(r, "error", c)
      PROVE  CountsReplies'
  <2>1. Says(r, c)
    BY <1>4 DEF Tell, Says
  <2>2. Cardinality(Told(Bad)') = Cardinality(Told(Bad)) + 1 /\ Told(OK)' = Told(OK)
    BY <1>0, <1>4, <2>1, ToldOne
  <2>3. count'.error = count.error + 1 /\ count'.ok = count.ok
    BY <1>4, <1>11
  <2> QED
    BY <1>10, <2>2, <2>3
<1>5. ASSUME NEW r \in Requests, Arrive(r) \/ Acquire(r) \/ IncGauge(r) \/ Release(r)
                                  \/ DecGauge(r) \/ ClientGone(r)
      PROVE  CountsReplies'
  BY <1>5, <1>1 DEF Arrive, Acquire, IncGauge, Release, DecGauge, ClientGone
<1>6. ASSUME NEW r \in Requests, Route(r) \/ Busy(r) PROVE CountsReplies'
  <2>1. reply[r] = NoReply /\ code[r] = NoReply /\ UNCHANGED <<code, count>>
    BY <1>6 DEF Route, Busy, Goto, Unanswered, Early
  <2>2. UNCHANGED reply \/ \E c \in {404, 405, 503} : Send(r, c)
    BY <1>6 DEF Route, Busy
  <2> QED
    BY <2>1, <2>2, <1>1, <1>2 DEF answer
<1>7. ASSUME NEW r \in Requests, Decode(r) \/ Call(r) PROVE CountsReplies'
  <2>1. reply[r] = NoReply /\ code[r] = NoReply
    BY <1>7 DEF Decode, Call, Goto, Unanswered, Early
  <2>2. \/ UNCHANGED answer
        \/ Tell(r, "ok", 200)
        \/ \E c \in Bad : Tell(r, "error", c)
    BY <1>7, <1>12
  <2> QED
    BY <2>1, <2>2, <1>1, <1>3, <1>4
<1>8. ASSUME NEW r \in Requests, Answer(r) PROVE CountsReplies'
  <2>1. reply[r] = NoReply /\ UNCHANGED count
    BY <1>8 DEF Answer, Goto, Unanswered
  <2>2. Told(OK)' = Told(OK) /\ Told(Bad)' = Told(Bad)
    BY <1>0, <1>8, <2>1, ToldSame
  <2> QED
    BY <1>10, <2>1, <2>2
<1>9. CASE UNCHANGED vars \/ \E c \in Clients : Connect(c) \/ Close(c)
  BY <1>9, <1>1 DEF vars, answer, Connect, Close
<1> QED
  BY <1>5, <1>6, <1>7, <1>8, <1>9 DEF Step, Handler, Own

-----------------------------------------------------------------------------
(* The handler implements the gate.                                        *)

\* A request that is not done has not been turned away.
Pending == \A r \in Requests : pc[r] # "done" => reply[r] \notin TurnedAway

\* That a request in the handler was not turned away is kept by every step.
LEMMA PendingNext == TypeOK /\ Pending /\ [Step]_vars => Pending'
<1> SUFFICES ASSUME TypeOK, Pending, [Step]_vars, NEW r \in Requests, pc'[r] # "done"
             PROVE  reply'[r] \notin TurnedAway
  BY DEF Pending
<1> USE DEF TypeOK, Pending
<1>1. CASE UNCHANGED <<pc, reply>>
  BY <1>1
<1>2. ASSUME NEW q \in Requests, NEW a, NEW b, Goto(q, a, b), a # "done",
             UNCHANGED reply
      PROVE  reply'[r] \notin TurnedAway
  BY <1>2 DEF Goto
<1>3. ASSUME NEW q \in Requests, NEW a, NEW c, Goto(q, a, "done"), a # "done",
             Send(q, c)
      PROVE  reply'[r] \notin TurnedAway
  BY <1>3 DEF Goto, Send
<1>4. ASSUME NEW q \in Requests, Answer(q) PROVE reply'[r] \notin TurnedAway
  <2>1. code[q] \notin TurnedAway
    BY ReplyAssumption DEF TurnedAway
  <2> QED
    BY <1>4, <2>1 DEF Answer, Goto, Send
<1>5. ASSUME NEW q \in Requests, Arrive(q) \/ Acquire(q) \/ IncGauge(q)
                                  \/ Release(q) \/ DecGauge(q)
      PROVE  reply'[r] \notin TurnedAway
  BY <1>5, <1>2 DEF Arrive, Acquire, IncGauge, Release, DecGauge, answer
<1>6. ASSUME NEW q \in Requests, Route(q) \/ Busy(q)
      PROVE  reply'[r] \notin TurnedAway
  BY <1>6, <1>2, <1>3 DEF Route, Busy
<1>7. ASSUME NEW q \in Requests, Decode(q) \/ Call(q)
      PROVE  reply'[r] \notin TurnedAway
  BY <1>7, <1>2 DEF Decode, Call, Tell, answer
<1>8. ASSUME NEW q \in Requests, ClientGone(q) PROVE reply'[r] \notin TurnedAway
  BY <1>8, <1>1 DEF ClientGone, answer
<1>9. ASSUME NEW c \in Clients, Connect(c) \/ Close(c) PROVE reply'[r] \notin TurnedAway
  BY <1>9, <1>1 DEF Connect, Close, answer
<1> QED
  BY <1>1, <1>4, <1>5, <1>6, <1>7, <1>8, <1>9 DEF Step, Handler, Own, vars

\* Every step of the handler is one of the gate, or a stutter.
LEMMA GateStep == IInv /\ Pending /\ [Step]_vars => [G!Next]_(G!vars)
<1> SUFFICES ASSUME IInv, Pending, [Step]_vars PROVE [G!Next]_(G!vars)
  OBVIOUS
<1> USE DEF IInv, TypeOK
<1>1. ASSUME At(Holding)' = At(Holding), HadToken' = HadToken PROVE [G!Next]_(G!vars)
  BY <1>1 DEF G!vars
<1>2. ASSUME NEW r \in Requests, Acquire(r) PROVE G!Enter(r)
  <2>1. Goto(r, "select", "enter") /\ UNCHANGED reply /\ sem < MaxConcurrent
    BY <1>2 DEF Acquire, answer
  <2>2. At(Holding)' = At(Holding) \cup {r} /\ r \notin At(Holding)
    <3>1. pc \in [Requests -> PCs] /\ "select" \notin Holding /\ "enter" \in Holding
      BY DEF Holding
    <3> HIDE DEF IInv, TypeOK
    <3> QED
      BY <2>1, <3>1, AtEnter
  <2>3. HadToken' = HadToken /\ r \notin HadToken
    BY <2>1 DEF HadToken, At, Goto
  <2>4. Cardinality(At(Holding)) < MaxConcurrent
    BY <2>1 DEF SlotsExact
  <2>5. G!Cardinality(At(Holding)) = Cardinality(At(Holding))
    BY DEF G!Cardinality, Cardinality
  <2> QED
    BY <2>2, <2>3, <2>4, <2>5 DEF G!Enter
<1>3. ASSUME NEW r \in Requests, Release(r) PROVE G!Leave(r)
  <2>1. Goto(r, "release", "exit") /\ UNCHANGED reply
    BY <1>3 DEF Release, answer
  <2>2. At(Holding)' = At(Holding) \ {r} /\ r \in At(Holding)
    BY <2>1, AtLeave DEF Holding
  <2>3. HadToken' = HadToken \cup {r}
    BY <2>1 DEF HadToken, At, Goto
  <2> QED
    BY <2>2, <2>3 DEF G!Leave
<1>4. ASSUME NEW r \in Requests, DecGauge(r) PROVE [G!Next]_(G!vars)
  <2>1. Goto(r, "exit", "done") /\ UNCHANGED reply
    BY <1>4 DEF DecGauge, answer
  <2>2. At(Holding)' = At(Holding)
    BY <2>1, AtStay DEF Holding
  <2>3. HadToken' = HadToken
    BY <2>1 DEF HadToken, At, Goto, Pending
  <2> QED
    BY <2>2, <2>3, <1>1
<1>5. ASSUME NEW r \in Requests, NEW a, NEW b, Goto(r, a, b), a \in Holding <=> b \in Holding,
             a \notin {"exit", "done"}, b \notin {"exit", "done"},
             \A q \in Requests : q # r => reply'[q] = reply[q]
      PROVE  [G!Next]_(G!vars)
  <2>1. At(Holding)' = At(Holding)
    BY <1>5, AtStay
  <2>2. HadToken' = HadToken
    BY <1>5 DEF HadToken, At, Goto
  <2> QED
    BY <2>1, <2>2, <1>1
<1>6. ASSUME NEW r \in Requests, NEW a, NEW c, Goto(r, a, "done"), a \notin Holding,
             a \notin {"exit", "done"}, Send(r, c), c \in TurnedAway
      PROVE  [G!Next]_(G!vars)
  <2>1. At(Holding)' = At(Holding)
    BY <1>6, AtStay DEF Holding
  <2>2. HadToken' = HadToken
    BY <1>6 DEF HadToken, At, Goto, Send
  <2> QED
    BY <2>1, <2>2, <1>1
<1>7. ASSUME NEW r \in Requests, Arrive(r) \/ IncGauge(r) PROVE [G!Next]_(G!vars)
  <2>1. /\ Goto(r, "idle", "start") \/ Goto(r, "enter", "decode")
        /\ UNCHANGED reply
    BY <1>7 DEF Arrive, IncGauge, answer
  <2> QED
    BY <2>1, <1>5 DEF Holding
<1>8. ASSUME NEW r \in Requests, Route(r) \/ Busy(r) PROVE [G!Next]_(G!vars)
  <2>1. CASE Goto(r, "start", "select") /\ UNCHANGED reply
    BY <2>1, <1>5 DEF Holding
  <2>2. CASE \E c \in TurnedAway : Send(r, c) /\
               (Goto(r, "start", "done") \/ Goto(r, "select", "done"))
    BY <2>2, <1>6 DEF Holding
  <2> QED
    BY <1>8, <2>1, <2>2 DEF Route, Busy, TurnedAway
<1>9. ASSUME NEW r \in Requests, Decode(r) \/ Call(r) \/ Answer(r) PROVE [G!Next]_(G!vars)
  <2>1. \/ Goto(r, "decode", "call") \/ Goto(r, "decode", "answer")
        \/ Goto(r, "call", "answer") \/ Goto(r, "call", "release")
        \/ Goto(r, "answer", "release")
    BY <1>9 DEF Decode, Call, Answer
  <2>2. \A q \in Requests : q # r => reply'[q] = reply[q]
    BY <1>9 DEF Decode, Call, Answer, Tell, Send, answer
  <2> QED
    BY <2>1, <2>2, <1>5 DEF Holding
<1>10. CASE \/ UNCHANGED vars \/ \E c \in Clients : Connect(c) \/ Close(c)
            \/ \E r \in Requests : ClientGone(r)
  <2>1. UNCHANGED <<pc, reply>>
    BY <1>10 DEF vars, answer, Connect, Close, ClientGone
  <2>2. At(Holding)' = At(Holding) /\ HadToken' = HadToken
    BY <2>1 DEF At, HadToken
  <2> QED
    BY <2>2, <1>1
<1> QED
  BY <1>2, <1>3, <1>4, <1>7, <1>8, <1>9, <1>10 DEF Step, Handler, Own, G!Next

-----------------------------------------------------------------------------
(* Requests without end.                                                   *)

\* The inductive invariant.
All == IInv /\ Unanswered /\ CountsReplies /\ Pending

\* A request that is forgotten takes with it what it added to the counters.
LEMMA ForgetKeeps ==
  ASSUME All, NEW r \in Requests, Forget(r)
  PROVE  All'
<1> DEFINE OK == {200}
           Bad == {400, 413, 500}
           gone(S) == IF reply[r] \in S THEN 1 ELSE 0
<1>1. /\ Goto(r, "done", "idle") /\ UNCHANGED <<kind, open, code, sem, gauge>>
      /\ reply' = [reply EXCEPT ![r] = NoReply]
      /\ ctxDone' = [ctxDone EXCEPT ![r] = FALSE]
      /\ count'.ok = count.ok - gone(OK) /\ count'.error = count.error - gone(Bad)
      /\ count' = [ok |-> count'.ok, error |-> count'.error]
  BY DEF Forget
<1>2. TypeOK /\ SlotsExact /\ GaugeExact
  BY DEF All, IInv
<1>3. pc \in [Requests -> PCs] /\ code[r] = NoReply
  BY <1>1, <1>2 DEF All, TypeOK, Goto, Unanswered
<1>4. /\ count.ok = Cardinality(Told(OK)) /\ count.error = Cardinality(Told(Bad))
      /\ NoReply \notin OK /\ NoReply \notin Bad
  BY ReplyAssumption DEF All, CountsReplies
<1>5. ASSUME NEW S, NoReply \notin S
      PROVE  /\ Cardinality(Told(S)') = Cardinality(Told(S)) - gone(S)
             /\ Cardinality(Told(S)') \in Nat
  <2>1. Told(S)' = Told(S) \ {r}
    BY <1>1, <1>2, <1>3, <1>5 DEF Told, TypeOK
  <2>2. r \in Told(S) <=> reply[r] \in S
    BY <1>3, <1>5 DEF Told
  <2>3. CASE reply[r] \in S
    BY <2>1, <2>2, <2>3, ToldFinite, FS_RemoveElement, FS_CardinalityType
  <2>4. CASE reply[r] \notin S
    <3>1. Told(S)' = Told(S)
      BY <2>1, <2>2, <2>4
    <3> QED
      BY <2>4, <3>1, ToldFinite
  <2> QED
    BY <2>3, <2>4
<1>6. /\ count'.ok = Cardinality(Told(OK)') /\ count'.ok \in Nat
      /\ count'.error = Cardinality(Told(Bad)') /\ count'.error \in Nat
  <2> HIDE DEF OK, Bad, gone
  <2>1. /\ Cardinality(Told(OK)') = Cardinality(Told(OK)) - gone(OK)
        /\ Cardinality(Told(OK)') \in Nat
    BY <1>4, <1>5
  <2>2. /\ Cardinality(Told(Bad)') = Cardinality(Told(Bad)) - gone(Bad)
        /\ Cardinality(Told(Bad)') \in Nat
    BY <1>4, <1>5
  <2> QED
    BY <1>1, <1>4, <2>1, <2>2
<1>7. CountsReplies'
  BY <1>6 DEF CountsReplies
<1>8. At(Holding)' = At(Holding) /\ At(Counted)' = At(Counted)
  BY <1>1, <1>3, AtStay DEF Holding, Counted
<1>9. SlotsExact' /\ GaugeExact'
  BY <1>1, <1>2, <1>8 DEF SlotsExact, GaugeExact
<1>10. TypeOK'
  <2>1. count' \in [{"ok", "error"} -> Nat]
    BY <1>1, <1>6
  <2> QED
    BY <1>1, <1>2, <2>1 DEF TypeOK, Goto, PCs
<1>11. Unanswered'
  BY <1>1, <1>2, <1>3 DEF All, Unanswered, Early, TypeOK, Goto
<1>12. Pending'
  <2>1. /\ NoReply \notin TurnedAway
        /\ reply'[r] = NoReply
        /\ \A q \in Requests : q # r => pc'[q] = pc[q] /\ reply'[q] = reply[q]
    BY <1>1, <1>2, ReplyAssumption DEF TurnedAway, TypeOK, Goto
  <2> QED
    BY <1>1, <1>3, <2>1 DEF All, Pending, Goto
<1> QED
  BY <1>7, <1>9, <1>10, <1>11, <1>12 DEF All, IInv

\* Types, tokens, gauge and counters are right in every reachable state.
THEOREM Invariance == Spec => []All
<1>1. Init => All
  <2> SUFFICES ASSUME Init PROVE All
    OBVIOUS
  <2>1. Told({200}) = {} /\ Told({400, 413, 500}) = {}
    BY ReplyAssumption DEF Init, Told
  <2>2. CountsReplies
    BY <2>1, FS_EmptySet DEF Init, CountsReplies
  <2>3. Unanswered /\ Pending
    BY ReplyAssumption DEF Init, Unanswered, Early, Pending, TurnedAway
  <2> QED
    BY <2>2, <2>3, InitInv DEF All
<1>2. All /\ [Next]_vars => All'
  <2> SUFFICES ASSUME All, [Next]_vars PROVE All'
    OBVIOUS
  <2>1. CASE [Step]_vars
    BY <2>1, TypeNext, Exactness, UnansweredNext, CountsNext, PendingNext DEF All, IInv
  <2>2. CASE \E r \in Requests : Forget(r)
    BY <2>2, ForgetKeeps
  <2> QED
    BY <2>1, <2>2 DEF Next
<1> QED
  BY <1>1, <1>2, PTL DEF Spec

\* Every variable has its type in every reachable state; the number of tokens
\* stays within the capacity of the channel.
THEOREM TypeCorrect == Spec => []TypeOK
<1>1. All => TypeOK
  BY DEF All, IInv
<1> QED
  BY Invariance, <1>1, PTL

\* Whatever the number of requests, the tokens in the channel are those of the
\* requests inside: none leaks and none is given back twice.
THEOREM NoTokenLeaks == Spec => []SlotsExact
<1>1. All => SlotsExact
  BY DEF All, IInv
<1> QED
  BY Invariance, <1>1, PTL

\* The gauge never drifts.
THEOREM GaugeNeverDrifts == Spec => []GaugeExact
<1>1. All => GaugeExact
  BY DEF All, IInv
<1> QED
  BY Invariance, <1>1, PTL

\* Every reply of a request with a token is counted once, as what it says, however
\* the requests interleave.
THEOREM NoReplyUncounted == Spec => []CountsReplies
<1>1. All => CountsReplies
  BY DEF All
<1> QED
  BY Invariance, <1>1, PTL

\* A request that is forgotten had left the gate, or never came to it.
LEMMA ForgetStep ==
  ASSUME All, NEW r \in Requests, Forget(r)
  PROVE  [G!Endless]_(G!vars)
<1>1. /\ Goto(r, "done", "idle") /\ pc \in [Requests -> PCs]
      /\ reply \in [Requests -> {NoReply, 200, 400, 404, 405, 413, 500, 503}]
      /\ reply' = [reply EXCEPT ![r] = NoReply]
  BY DEF All, IInv, TypeOK, Forget
<1>2. At(Holding)' = At(Holding)
  BY <1>1, AtStay DEF Holding
<1>3. HadToken' = HadToken \ {r}
  BY <1>1 DEF HadToken, At, Goto
<1>4. CASE r \in HadToken
  BY <1>2, <1>3, <1>4 DEF G!Endless, G!Forget
<1>5. CASE r \notin HadToken
  BY <1>2, <1>3, <1>5 DEF G!vars
<1> QED
  BY <1>4, <1>5

\* For every number of requests and every capacity, no more than MaxConcurrent
\* requests are between the semaphore and its release, and each enters once.
THEOREM Refinement == Spec => ImplementsGate
<1>1. Init => G!Init
  BY DEF Init, G!Init, At, Holding, HadToken
<1>2. All /\ [Next]_vars => [G!Endless]_(G!vars)
  <2> SUFFICES ASSUME All, [Next]_vars PROVE [G!Endless]_(G!vars)
    OBVIOUS
  <2>1. CASE [Step]_vars
    BY <2>1, GateStep DEF All, G!Endless
  <2>2. CASE \E r \in Requests : Forget(r)
    BY <2>2, ForgetStep
  <2> QED
    BY <2>1, <2>2 DEF Next
<1> QED
  BY <1>1, <1>2, Invariance, PTL DEF Spec, G!EndlessSpec, ImplementsGate

-----------------------------------------------------------------------------
(* What the listener's limit does.                                         *)

\* The connections: no more than the listener accepts, and over HTTP/1.1 each request
\* on one of its own.
Connected == /\ open \subseteq Clients /\ Cardinality(open) <= MaxConcurrent
             /\ \A r \in Live : From[r] \in Http2 \/ From[r] \in open
             /\ \A r, q \in Live : From[r] = From[q] /\ From[r] \notin Http2 => r = q

\* They are kept so by every step.
LEMMA ConnectedNext ==
  ASSUME TypeOK, Connected, [Next]_vars
  PROVE  Connected'
<1>0. pc \in [Requests -> PCs] /\ IsFiniteSet(open)
  BY ClientAssumption, FS_Subset DEF TypeOK
<1>1. ASSUME UNCHANGED open, Live' \subseteq Live PROVE Connected'
  BY <1>1 DEF Connected
<1>2. ASSUME NEW r \in Requests, NEW a, NEW b, Goto(r, a, b), a # "idle" /\ a # "done"
      PROVE  Live' \subseteq Live
  BY <1>0, <1>2 DEF Live, At, Goto, PCs
<1>3. ASSUME NEW r \in Requests, Handler(r) PROVE Connected'
  <2>1. /\ UNCHANGED open
        /\ \E a \in PCs \ {"idle", "done"}, b \in PCs : Goto(r, a, b)
    BY <1>3 DEF Handler, Own, Route, Acquire, Busy, IncGauge, Decode, Call, Answer, Release,
                DecGauge, client, PCs, Holding, Counted
  <2> QED
    BY <2>1, <1>1, <1>2
<1>4. ASSUME NEW r \in Requests, Arrive(r) PROVE Connected'
  <2>1. /\ Goto(r, "idle", "start") /\ UNCHANGED open /\ From[r] \in open
        /\ (\E q \in Live : From[q] = From[r]) => From[r] \in Http2
    BY <1>4 DEF Arrive, InUse, client
  <2>2. Live' = Live \cup {r}
    BY <1>0, <2>1, AtEnter DEF Live, PCs
  <2> QED
    BY <2>1, <2>2 DEF Connected
<1>5. ASSUME NEW c \in Clients, Connect(c) PROVE Connected'
  <2>1. /\ c \notin open /\ Cardinality(open) < MaxConcurrent /\ open' = open \cup {c}
        /\ UNCHANGED pc
    BY <1>5 DEF Connect
  <2>2. Live' = Live
    BY <2>1 DEF Live, At
  <2>3. Cardinality(open') = Cardinality(open) + 1 /\ Cardinality(open) \in Nat
    BY <1>0, <2>1, FS_AddElement, FS_CardinalityType
  <2>4. Cardinality(open') <= MaxConcurrent
    BY <2>1, <2>3, LimitAssumption
  <2> QED
    BY <2>1, <2>2, <2>4 DEF Connected
<1>6. ASSUME NEW c \in Clients, Close(c) PROVE Connected'
  <2>1. /\ c \in open /\ open' = open \ {c} /\ UNCHANGED pc
        /\ (\E q \in Live : From[q] = c) => c \in Http2
    BY <1>6 DEF Close, InUse
  <2>2. Live' = Live
    BY <2>1 DEF Live, At
  <2>3. Cardinality(open') = Cardinality(open) - 1 /\ Cardinality(open) \in Nat
    BY <1>0, <2>1, FS_RemoveElement, FS_CardinalityType
  <2>4. Cardinality(open') <= MaxConcurrent
    BY <2>3, LimitAssumption DEF Connected
  <2> QED
    BY <2>1, <2>2, <2>4 DEF Connected
<1>7. ASSUME NEW r \in Requests, Forget(r) PROVE Connected'
  <2>1. Goto(r, "done", "idle") /\ UNCHANGED open
    BY <1>7 DEF Forget
  <2>2. Live' = Live
    BY <1>0, <2>1, AtStay DEF Live, PCs
  <2> QED
    BY <2>1, <2>2, <1>1
<1>8. CASE UNCHANGED vars \/ \E r \in Requests : ClientGone(r)
  <2>1. UNCHANGED <<pc, open>>
    BY <1>8 DEF vars, ClientGone
  <2> QED
    BY <2>1, <1>1 DEF Live, At
<1> QED
  BY <1>3, <1>4, <1>5, <1>6, <1>7, <1>8 DEF Next, Step

\* If each request has a connection of its own, those with a token and one more would
\* need more connections than there are.
LEMMA TokensSuffice ==
  ASSUME TypeOK, SlotsExact, Connected
  PROVE  Unqueued
<1> SUFFICES ASSUME sem = MaxConcurrent, NEW r \in At({"select"}),
                    ~\E q \in Live : /\ From[q] \in Http2
                                     /\ \/ From[q] \notin open
                                        \/ \E p \in Live \ {q} : From[p] = From[q]
             PROVE  FALSE
  BY DEF Unqueued
<1> DEFINE S == At(Holding) \cup {r}
           f == [q \in S |-> From[q]]
<1>1. S \subseteq Live /\ r \notin At(Holding)
  BY DEF Live, At, Holding, PCs
<1>2. IsFiniteSet(At(Holding)) /\ Cardinality(S) = MaxConcurrent + 1
  BY <1>1, AtFinite, FS_AddElement DEF SlotsExact
<1>3. IsFiniteSet(open)
  BY ClientAssumption, FS_Subset DEF Connected
<1>4. f \in Injection(S, open)
  <2>1. \A q \in S : From[q] \in open
    BY <1>1 DEF Connected
  <2>2. \A p, q \in S : From[p] = From[q] => p = q
    BY <1>1 DEF Connected
  <2> HIDE DEF S
  <2> QED
    BY <2>1, <2>2 DEF Injection, IsInjective
<1>5. Cardinality(S) <= Cardinality(open)
  <2> HIDE DEF S, f
  <2> QED
    BY <1>3, <1>4, FS_Injection
<1>6. Cardinality(open) <= MaxConcurrent
  BY DEF Connected
<1>7. Cardinality(open) \in Nat
  BY <1>3, FS_CardinalityType
<1> QED
  BY <1>2, <1>5, <1>6, <1>7, LimitAssumption

\* However many clients there are and however long they keep their connections, a
\* request waits for a token only if one shares its connection or has outlived it.
THEOREM SeldomQueued == Spec => []Unqueued
<1>1. Init => Connected
  <2> SUFFICES ASSUME Init PROVE Connected
    OBVIOUS
  <2>1. open = {} /\ Live = {}
    BY DEF Init, Live, At
  <2> QED
    BY <2>1, FS_EmptySet, LimitAssumption DEF Connected
<1>2. All /\ Connected /\ [Next]_vars => Connected'
  BY ConnectedNext DEF All, IInv
<1>3. All /\ Connected => Unqueued
  BY TokensSuffice DEF All, IInv
<1> QED
  BY <1>1, <1>2, <1>3, Invariance, PTL DEF Spec
=============================================================================
