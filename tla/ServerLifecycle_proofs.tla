----------------------- MODULE ServerLifecycle_proofs -----------------------
(***************************************************************************)
(* Proofs about ServerLifecycle, for any number of requests in flight.     *)
(***************************************************************************)
EXTENDS ServerLifecycle, TLAPS

\* A goroutine that ended with an error has told main.
Told == \A s \in servers : routine[s] = "failed" => firstErr # NoError

\* The servers are shut down one after the other.
HealthClosed == /\ pc \in {"drainHealth", "closeMain", "drainMain", "wait", "exited"}
                /\ "health" \in servers
              => "health" \in closing
MainClosed   == pc \in {"drainMain", "wait", "exited"} => "main" \in closing

\* What is drained stays so: a server that is closed gets no further request.
HealthDrained == /\ pc \in {"closeMain", "drainMain", "wait", "exited"} /\ ~expired
                 /\ "health" \in servers
               => active["health"] = 0
MainDrained   == /\ pc \in {"wait", "exited"} /\ ~shutdownErr => active["main"] = 0
                 /\ shutdownErr => expired

\* The exit is the last that happens.
Over == pc = "exited" => /\ \A s \in servers : routine[s] \in {"closed", "failed"}
                         /\ code = ExitCode

IInv == TypeOK /\ Told /\ HealthClosed /\ MainClosed /\ HealthDrained /\ MainDrained /\ Over

-----------------------------------------------------------------------------
\* The invariant holds when the servers start.
LEMMA InitInv == Init => IInv
<1> SUFFICES ASSUME Init PROVE IInv
  OBVIOUS
<1>1. TypeOK
  <2>1. /\ program \in Programs /\ servers \in {Servers, {"main"}}
        /\ closing \subseteq servers /\ firstErr \in servers \cup {NoError}
        /\ errCh \in {0, 1} /\ code \in {0, 1}
    BY DEF Init
  <2>2. signaled \in BOOLEAN /\ expired \in BOOLEAN /\ shutdownErr \in BOOLEAN
    BY Zenon DEF Init
  <2>3. 0 \in 0..MaxActive
    BY ActiveAssumption
  <2>4. active \in [servers -> 0..MaxActive]
    BY <2>3 DEF Init
  <2>5. routine \in [servers -> {"starting", "serving", "failing", "failed", "closed"}]
    BY DEF Init
  <2>6. pc \in {"select", "closeHealth", "drainHealth", "closeMain", "drainMain",
                "wait", "exited"}
    BY DEF Init
  <2> QED
    BY <2>1, <2>2, <2>4, <2>5, <2>6 DEF TypeOK
<1>2. Told
  BY DEF Init, Told
<1>3. HealthClosed /\ MainClosed /\ HealthDrained /\ MainDrained /\ Over
  BY DEF Init, HealthClosed, MainClosed, HealthDrained, MainDrained, Over
<1> QED
  BY <1>1, <1>2, <1>3 DEF IInv

\* The types, the order of the shutdown and what main knows are preserved.
LEMMA OrderNext == IInv /\ [Next]_vars => TypeOK' /\ Told' /\ HealthClosed' /\ MainClosed'
<1> SUFFICES ASSUME IInv, [Next]_vars
             PROVE  TypeOK' /\ Told' /\ HealthClosed' /\ MainClosed'
  OBVIOUS
<1> USE DEF IInv, TypeOK, Told, HealthClosed, MainClosed, config, errors, ending
<1>1. CASE Signal
  BY <1>1 DEF Signal
<1>2. ASSUME NEW s \in servers, Serve(s) \/ Fail(s)
      PROVE  TypeOK' /\ Told' /\ HealthClosed' /\ MainClosed'
  <2>1. /\ UNCHANGED <<config, signaled, active, closing, errors, pc, ending>>
        /\ \E t \in {"serving", "closed", "failing"} : routine' = [routine EXCEPT ![s] = t]
    BY <1>2 DEF Serve, Fail, Turn
  <2> QED
    BY <2>1
<1>3. ASSUME NEW s \in servers, Notify(s)
      PROVE  TypeOK' /\ Told' /\ HealthClosed' /\ MainClosed'
  BY <1>3, ErrorAssumption DEF Notify, Turn, Servers
<1>4. ASSUME NEW s \in servers, Request(s) \/ Finish(s)
      PROVE  TypeOK' /\ Told' /\ HealthClosed' /\ MainClosed'
  BY <1>4, ActiveAssumption DEF Request, Finish
<1>5. CASE Woken
  BY <1>5 DEF Woken, Goto
<1>6. CASE CloseHealth \/ CloseMain
  BY <1>6 DEF CloseHealth, CloseMain, Goto, Servers
<1>7. CASE DrainHealth \/ DrainMain
  BY <1>7 DEF DrainHealth, DrainMain, Goto
<1>8. CASE Expire
  BY <1>8 DEF Expire
<1>9. CASE Exit
  BY <1>9 DEF Exit, Goto, ExitCode
<1>10. CASE UNCHANGED vars
  BY <1>10 DEF vars
<1> QED
  BY <1>1, <1>2, <1>3, <1>4, <1>5, <1>6, <1>7, <1>8, <1>9, <1>10 DEF Next, Main, Routine

\* No request comes to a drained server, and nothing happens after the exit.
LEMMA DrainNext == IInv /\ [Next]_vars => HealthDrained' /\ MainDrained' /\ Over'
<1> SUFFICES ASSUME IInv, [Next]_vars PROVE HealthDrained' /\ MainDrained' /\ Over'
  OBVIOUS
<1> USE DEF IInv, TypeOK, HealthDrained, MainDrained, Over, ExitCode, config, errors, ending
<1>1. CASE Signal
  BY <1>1 DEF Signal
<1>2. ASSUME NEW s \in servers, Serve(s) \/ Fail(s) \/ Notify(s)
      PROVE  HealthDrained' /\ MainDrained' /\ Over'
  <2>1. pc # "exited"
    BY <1>2 DEF Serve, Fail, Notify, Turn
  <2>2. UNCHANGED <<servers, active, pc, ending>>
    BY <1>2 DEF Serve, Fail, Notify
  <2> QED
    BY <2>1, <2>2
<1>3. ASSUME NEW s \in servers, Request(s)
      PROVE  HealthDrained' /\ MainDrained' /\ Over'
  <2>1. UNCHANGED <<config, signaled, routine, closing, errors, pc, ending>>
    BY <1>3 DEF Request
  <2>2. s = "health" => ~(pc \in {"closeMain", "drainMain", "wait", "exited"})
    BY <1>3 DEF Request, Draining, HealthClosed
  <2>3. s = "main" => ~(pc \in {"wait", "exited"})
    BY <1>3 DEF Request, Draining, MainClosed
  <2>4. \A t \in servers : t # s => active'[t] = active[t]
    BY <1>3 DEF Request
  <2> QED
    BY <2>1, <2>2, <2>3, <2>4 DEF Servers
<1>4. ASSUME NEW s \in servers, Finish(s)
      PROVE  HealthDrained' /\ MainDrained' /\ Over'
  <2>1. UNCHANGED <<config, signaled, routine, closing, errors, pc, ending>>
    BY <1>4 DEF Finish
  <2>2. \A t \in servers : active[t] = 0 => active'[t] = 0
    BY <1>4 DEF Finish
  <2> QED
    BY <2>1, <2>2 DEF Servers
<1>5. CASE Woken \/ CloseHealth \/ CloseMain
  BY <1>5 DEF Woken, CloseHealth, CloseMain, Goto
<1>6. CASE DrainHealth \/ DrainMain
  BY <1>6 DEF DrainHealth, DrainMain, Goto
<1>7. CASE Expire
  BY <1>7 DEF Expire
<1>8. CASE Exit
  BY <1>8 DEF Exit, Goto
<1>9. CASE UNCHANGED vars
  BY <1>9 DEF vars
<1> QED
  BY <1>1, <1>2, <1>3, <1>4, <1>5, <1>6, <1>7, <1>8, <1>9 DEF Next, Main, Routine

\* The inductive invariant of the shutdown.
LEMMA Invariance == Spec => []IInv
<1>1. IInv /\ [Next]_vars => IInv'
  BY OrderNext, DrainNext DEF IInv
<1> QED
  BY InitInv, <1>1, PTL DEF Spec

\* Every variable has its type in every reachable state; the channel of errors
\* holds at most one notice.
THEOREM TypeCorrect == Spec => []TypeOK
<1>1. IInv => TypeOK
  BY DEF IInv
<1> QED
  BY Invariance, <1>1, PTL

\* A server that failed, before or during the shutdown, shows in the exit code.
THEOREM ExitIsTold == Spec => []ExitTells
<1>1. IInv => ExitTells
  BY DEF IInv, Told, Over, ExitTells, ExitCode
<1> QED
  BY Invariance, <1>1, PTL

\* No request is cut off by the exit before the time both shutdowns share is over, and
\* the keeper does not hide that one of its main server was.
THEOREM ExitIsGraceful == Spec => []Graceful
<1>1. IInv => Graceful
  BY DEF IInv, TypeOK, Servers, HealthDrained, MainDrained, Over, ExitCode, Graceful
<1> QED
  BY Invariance, <1>1, PTL
=============================================================================
