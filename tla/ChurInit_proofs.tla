-------------------------- MODULE ChurInit_proofs --------------------------
(***************************************************************************)
(* Proofs about ChurInit, for every set of environments, every size and    *)
(* every bound.  IInv is the inductive invariant: it says, at each point   *)
(* of main(), what is in memory, in the temporary file and at the path.    *)
(***************************************************************************)
EXTENDS ChurInit, TLAPS

HasSecret == {"check", "mkdir", "open", "write", "rename", "chmod"}
PastCheck == HasSecret \ {"check"}

\* What was fetched came from the source during this run and was checked.
MemoryInv == /\ pc \in HasSecret => /\ secret \in offered
                                    /\ Fetchable(env, secret)
             /\ pc \in PastCheck => Acceptable(env, secret)

\* The temporary file is complete before the rename, and gone after it.
TmpInv == /\ pc \in {"write", "rename"} => tmp \in File /\ tmp.data = secret
          /\ pc = "rename" => tmp.whole
          /\ pc \in {"chmod", "done"} => tmp = NoFile
          /\ crashes = 0 /\ pc \notin {"write", "rename"} => tmp = NoFile

\* The path is right already when the chmod is due, and readable after it.
PathInv == /\ PathIsComplete
           /\ pc = "chmod" => path \in File /\ path.data = secret
           /\ pc = "done" => path \in File /\ path.data \in offered /\ path.mode = "0640"

\* The containers run only between a success and the loss of the sandbox.
AppInv == app = "running" => pc = "done"

\* A backoff follows a failed attempt.
WaitInv == pc \in {"factoryWait", "fetchWait"} => attempt > 0

\* The history of the source ends with its present value.
SourceInv == source \in offered

IInv == TypeOK /\ WaitInv /\ SourceInv /\ MemoryInv /\ TmpInv /\ PathInv /\ AppInv

-----------------------------------------------------------------------------
\* The backoff never goes back in time.
LEMMA DelayIsNat == \A k \in 1..MaxRetries : Delay(k) \in Nat \ {0}
<1> TAKE k \in 1..MaxRetries
<1>1. k - 1 \in 0..MaxRetries
  BY RetryAssumption
<1>2. 2 ^ (k - 1) \in Nat \ {0}
  BY <1>1, TimeAssumption
<1>3. \A x, y \in Nat \ {0} : x * y \in Nat \ {0}
  OBVIOUS
<1> QED
  BY <1>2, <1>3, TimeAssumption DEF Delay

\* chur-init starts with everything of its type.
LEMMA TypeInit == Init => TypeOK
BY RetryAssumption, BoundAssumption DEF Init, TypeOK

\* A step preserves the types: what the process writes is what it fetched.
LEMMA TypeNext == IInv /\ [Next]_vars => TypeOK'
<1> SUFFICES ASSUME IInv, [Next]_vars PROVE TypeOK'
  OBVIOUS
<1>0. TypeOK /\ WaitInv /\ MemoryInv /\ TmpInv /\ PathInv
  BY DEF IInv
<1> USE <1>0 DEF TypeOK
<1>1. CASE Begin
  BY <1>1, RetryAssumption DEF Begin, volume, Running
<1>2. CASE Validate
  BY <1>2 DEF Validate, Goto, world, memory, volume, Running
<1>3. CASE CallFactory
  <2>1. Durations \subseteq Nat
    BY TimeAssumption DEF Durations
  <2> QED
    BY <1>3, <2>1, RetryAssumption DEF CallFactory, Retry, world, volume, Running
<1>4. ASSUME NEW wait \in {"factoryWait", "fetchWait"},
             NEW call \in {"factory", "fetch"}, Backoff(wait, call)
      PROVE  TypeOK'
  <2>1. PICK j \in Jitter : \/ now' = now + Delay(attempt) + j
                            \/ now' = Latest(now, Deadline)
    BY <1>4 DEF Backoff
  <2>2. j \in Nat /\ Deadline \in Nat
    BY TimeAssumption
  <2>3. Delay(attempt) \in Nat
    BY <1>4, DelayIsNat, RetryAssumption DEF Backoff, WaitInv
  <2>4. now' \in Nat
    BY <2>1, <2>2, <2>3 DEF Latest
  <2>5. pc' \in Running \cup {"failed"} /\ UNCHANGED <<world, attempt, secret, volume, ioErrors>>
    BY <1>4 DEF Backoff, Running
  <2> QED
    BY <2>4, <2>5 DEF world, volume
<1>5. CASE CallGetSecret
  <2>1. Durations \subseteq Nat /\ Deadline \in Nat
    BY TimeAssumption DEF Durations
  <2> QED
    BY <1>5, <2>1, RetryAssumption
    DEF CallGetSecret, Retry, CallEnd, Earliest, Latest, world, volume, Running
<1>6. CASE Check
  BY <1>6 DEF Check, Goto, world, memory, volume, Running
<1>7. CASE MakeDir
  BY <1>7, BoundAssumption DEF MakeDir, Goto, IOError, world, memory, Running
<1>8. CASE OpenTmp
  <2>1. secret \in Secrets
    BY <1>8 DEF OpenTmp, Goto, MemoryInv, HasSecret
  <2>2. ASSUME tmp' = [data |-> secret, whole |-> FALSE,
                       mode |-> IF tmp = NoFile THEN CreateMode ELSE tmp.mode]
        PROVE  tmp' \in File
    BY <2>1, <2>2, ModeAssumption DEF File
  <2> QED
    BY <1>8, <2>2, BoundAssumption DEF OpenTmp, Goto, IOError, world, memory, Running
<1>9. CASE WriteTmp
  <2>1. tmp \in File
    BY <1>9 DEF WriteTmp, Goto, TmpInv
  <2>2. [tmp EXCEPT !.whole = TRUE] \in File
    BY <2>1 DEF File
  <2>3. tmp' \in File \cup {NoFile}
    BY <1>9, <2>2 DEF WriteTmp
  <2>4. /\ pc' \in {"rename", "failed"} /\ ioErrors' \in 0..MaxIOErrors
        /\ UNCHANGED <<world, memory, path, dir>>
    BY <1>9, BoundAssumption DEF WriteTmp, Goto, IOError
  <2> QED
    BY <2>3, <2>4 DEF world, memory, Running
<1>10. CASE Rename
  BY <1>10, BoundAssumption DEF Rename, Goto, IOError, world, memory, Running
<1>11. CASE Chmod
  <2>1. path \in File
    BY <1>11 DEF Chmod, Goto, PathInv
  <2>2. [path EXCEPT !.mode = "0640"] \in File
    BY <2>1 DEF File, Modes
  <2> QED
    BY <1>11, <2>2, BoundAssumption DEF Chmod, Goto, IOError, world, memory, Running
<1>12. CASE StartApp
  BY <1>12 DEF StartApp, memory, volume
<1>13. CASE Crash
  BY <1>13, RetryAssumption, BoundAssumption DEF Crash, volume
<1>14. CASE SandboxRestart
  BY <1>14, BoundAssumption DEF SandboxRestart, volume
<1>15. CASE Rotate
  BY <1>15 DEF Rotate, memory, volume
<1>16. CASE Recover
  BY <1>16 DEF Recover, memory, volume
<1>17. CASE UNCHANGED vars
  BY <1>17 DEF vars
<1> QED
  BY <1>1, <1>2, <1>3, <1>4, <1>5, <1>6, <1>7, <1>8, <1>9, <1>10, <1>11, <1>12,
     <1>13, <1>14, <1>15, <1>16, <1>17 DEF Next, Process, Kubelet

\* What is known about the loops and their waits is kept by every step.
LEMMA WaitNext == IInv /\ [Next]_vars => WaitInv'
<1> SUFFICES ASSUME IInv, [Next]_vars PROVE WaitInv'
  OBVIOUS
<1> USE DEF IInv, TypeOK, WaitInv
<1>1. CASE CallFactory \/ CallGetSecret
  BY <1>1 DEF CallFactory, CallGetSecret, Retry
<1>2. CASE Next /\ ~CallFactory /\ ~CallGetSecret
  BY <1>2 DEF Next, Process, Kubelet, Validate, Backoff, Check, MakeDir, OpenTmp,
     WriteTmp, Rename, Chmod, Goto, Begin, StartApp, Crash, SandboxRestart, Rotate,
     Recover, memory
<1>3. CASE UNCHANGED vars
  BY <1>3 DEF vars
<1> QED
  BY <1>1, <1>2, <1>3

\* What is in memory stays what was fetched until the run ends.
LEMMA MemoryNext == IInv /\ [Next]_vars => MemoryInv'
<1> SUFFICES ASSUME IInv, [Next]_vars PROVE MemoryInv'
  OBVIOUS
<1> USE DEF IInv, TypeOK, MemoryInv, HasSecret, PastCheck
<1>1. CASE Begin
  BY <1>1 DEF Begin
<1>2. CASE Validate
  BY <1>2 DEF Validate, Goto
<1>3. CASE CallFactory
  BY <1>3 DEF CallFactory, Retry
<1>4. ASSUME NEW wait \in {"factoryWait", "fetchWait"},
             NEW call \in {"factory", "fetch"}, Backoff(wait, call)
      PROVE  MemoryInv'
  BY <1>4 DEF Backoff
<1>5. CASE CallGetSecret
  <2>1. ASSUME pc' = "check" PROVE secret' = source /\ Fetchable(env, source)
    BY <1>5, <2>1 DEF CallGetSecret, Retry
  <2>2. env' = env /\ offered' = offered /\ pc' \notin PastCheck
    BY <1>5 DEF CallGetSecret, Retry, world
  <2>3. source \in offered
    BY DEF SourceInv
  <2> QED
    BY <2>1, <2>2, <2>3 DEF Fetchable
<1>6. CASE Check
  BY <1>6 DEF Check, Goto, world, memory, Acceptable, Fetchable
<1>7. CASE MakeDir \/ OpenTmp \/ WriteTmp \/ Rename \/ Chmod
  BY <1>7 DEF MakeDir, OpenTmp, WriteTmp, Rename, Chmod, Goto, world, memory,
     Acceptable, Fetchable
<1>8. CASE StartApp \/ Recover
  BY <1>8 DEF StartApp, Recover, memory, Acceptable, Fetchable
<1>9. CASE Crash \/ SandboxRestart
  BY <1>9 DEF Crash, SandboxRestart
<1>10. CASE Rotate
  BY <1>10 DEF Rotate, memory, Acceptable, Fetchable
<1>11. CASE UNCHANGED vars
  BY <1>11 DEF vars, Acceptable, Fetchable
<1> QED
  BY <1>1, <1>2, <1>3, <1>4, <1>5, <1>6, <1>7, <1>8, <1>9, <1>10, <1>11
     DEF Next, Process, Kubelet

\* The source always holds a value of its own history.
LEMMA SourceNext == IInv /\ [Next]_vars => SourceInv'
<1> SUFFICES ASSUME IInv, [Next]_vars PROVE SourceInv'
  OBVIOUS
<1> USE DEF IInv, SourceInv
<1> QED
  BY DEF vars, Next, Process, Kubelet, Validate, CallFactory, Backoff, CallGetSecret,
     Check, MakeDir, OpenTmp, WriteTmp, Rename, Chmod, Goto, Begin, StartApp, Crash,
     SandboxRestart, Rotate, Recover, world

\* What is known about the temporary file is kept by every step.
LEMMA TmpNext == IInv /\ [Next]_vars => TmpInv'
<1> SUFFICES ASSUME IInv, [Next]_vars PROVE TmpInv'
  OBVIOUS
<1> USE DEF IInv, TypeOK, TmpInv
<1>1. CASE OpenTmp
  <2>1. secret \in Secrets
    BY <1>1 DEF OpenTmp, Goto, MemoryInv, HasSecret
  <2>2. CASE pc' = "write"
    <3>1. tmp' = [data |-> secret, whole |-> FALSE,
                  mode |-> IF tmp = NoFile THEN CreateMode ELSE tmp.mode]
      BY <1>1, <2>2 DEF OpenTmp, Goto
    <3>2. tmp' \in File /\ tmp'.data = secret
      BY <2>1, <3>1, ModeAssumption DEF File
    <3> QED
      BY <1>1, <2>2, <3>2 DEF OpenTmp, memory
  <2>3. CASE pc' # "write"
    BY <1>1, <2>3 DEF OpenTmp, Goto
  <2> QED
    BY <2>2, <2>3
<1>2. CASE WriteTmp
  <2>1. CASE pc' = "rename"
    <3>1. tmp \in File /\ tmp.data = secret /\ tmp' = [tmp EXCEPT !.whole = TRUE]
      BY <1>2, <2>1 DEF WriteTmp, Goto
    <3>2. tmp' \in File /\ tmp'.data = secret /\ tmp'.whole
      BY <3>1 DEF File
    <3> QED
      BY <1>2, <2>1, <3>2 DEF WriteTmp, memory
  <2>2. CASE pc' # "rename"
    BY <1>2, <2>2 DEF WriteTmp, Goto
  <2> QED
    BY <2>1, <2>2
<1>3. CASE Rename
  BY <1>3 DEF Rename, Goto
<1>4. CASE Crash \/ SandboxRestart
  <2>1. crashes' # 0
    BY <1>4, BoundAssumption DEF Crash, SandboxRestart
  <2> QED
    BY <1>4, <2>1 DEF Crash, SandboxRestart
<1>5. CASE Next /\ ~OpenTmp /\ ~WriteTmp /\ ~Rename /\ ~Crash /\ ~SandboxRestart
  BY <1>5 DEF Next, Process, Kubelet, Validate, CallFactory, CallGetSecret, Retry,
     Backoff, Check, MakeDir, Chmod, Goto, Begin, StartApp, Rotate, Recover,
     world, memory, volume
<1>6. CASE UNCHANGED vars
  BY <1>6 DEF vars
<1> QED
  BY <1>1, <1>2, <1>3, <1>4, <1>5, <1>6

\* What is known about the file at the path is kept by every step.
LEMMA PathNext == IInv /\ [Next]_vars => PathInv'
<1> SUFFICES ASSUME IInv, [Next]_vars PROVE PathInv'
  OBVIOUS
<1> USE DEF IInv, TypeOK, PathInv, PathIsComplete
<1>1. CASE Rename
  <2>1. CASE pc' = "chmod"
    <3>1. /\ pc = "rename" /\ path' = tmp /\ UNCHANGED <<env, secret>>
      BY <1>1, <2>1 DEF Rename, Goto, world, memory
    <3>2. tmp \in File /\ tmp.data = secret /\ tmp.whole
      BY <3>1 DEF TmpInv
    <3>3. Fetchable(env, secret) /\ Acceptable(env, secret)
      BY <3>1 DEF MemoryInv, HasSecret, PastCheck
    <3> QED
      BY <2>1, <3>1, <3>2, <3>3 DEF Fetchable, Acceptable
  <2>2. CASE pc' # "chmod"
    BY <1>1, <2>2 DEF Rename, Goto, world, Fetchable, Acceptable
  <2> QED
    BY <2>1, <2>2
<1>2. CASE Chmod
  <2>1. CASE pc' = "done"
    <3>1. /\ pc = "chmod" /\ path' = [path EXCEPT !.mode = "0640"]
          /\ UNCHANGED <<env, offered>>
      BY <1>2, <2>1 DEF Chmod, Goto, world
    <3>2. path \in File /\ path # NoFile /\ path.data = secret /\ secret \in offered
      BY <3>1, SecretAssumption DEF MemoryInv, HasSecret
    <3>3. /\ path' \in File /\ path'.data = path.data /\ path'.whole = path.whole
          /\ path'.mode = "0640"
      BY <3>1, <3>2 DEF File, Modes
    <3> QED
      BY <2>1, <3>1, <3>2, <3>3 DEF Fetchable, Acceptable
  <2>2. CASE pc' # "done"
    BY <1>2, <2>2 DEF Chmod, Goto, world, Fetchable, Acceptable
  <2> QED
    BY <2>1, <2>2
<1>3. CASE Next /\ ~Rename /\ ~Chmod
  BY <1>3 DEF Next, Process, Kubelet, Validate, CallFactory, CallGetSecret, Retry,
     Backoff, Check, MakeDir, OpenTmp, WriteTmp, Goto, Begin, StartApp, Crash,
     SandboxRestart, Rotate, Recover, world, memory, volume, Fetchable, Acceptable
<1>4. CASE UNCHANGED vars
  BY <1>4 DEF vars, Fetchable, Acceptable
<1> QED
  BY <1>1, <1>2, <1>3, <1>4

\* What is known about the containers is kept by every step.
LEMMA AppNext == IInv /\ [Next]_vars => AppInv'
<1> SUFFICES ASSUME IInv, [Next]_vars PROVE AppInv'
  OBVIOUS
<1> QED
  BY DEF IInv, AppInv, vars, Next, Process, Kubelet, Validate, CallFactory, Retry,
     Backoff, CallGetSecret, Check, MakeDir, OpenTmp, WriteTmp, Rename, Chmod, Goto,
     Begin, StartApp, Crash, SandboxRestart, Rotate, Recover, world, memory, volume,
     Running

\* The inductive invariant holds of every run.
THEOREM Invariance == Spec => []IInv
<1>1. Init => IInv
  BY TypeInit, SecretAssumption
  DEF Init, IInv, WaitInv, SourceInv, MemoryInv, HasSecret, PastCheck, TmpInv, PathInv,
      PathIsComplete, AppInv
<1>2. IInv /\ [Next]_vars => IInv'
  BY TypeNext, WaitNext, SourceNext, MemoryNext, TmpNext, PathNext, AppNext DEF IInv
<1> QED
  BY <1>1, <1>2, PTL DEF Spec

\* The variables keep their types.
THEOREM TypeCorrect == Spec => []TypeOK
<1>1. IInv => TypeOK
  BY DEF IInv
<1> QED
  BY Invariance, <1>1, PTL

\* No kill, outage or failing system call leaves a torn or an unchecked secret
\* at the path, whatever the secrets, the sizes and the number of kills.
THEOREM NeverTorn == Spec => []PathIsComplete
<1>1. IInv => PathIsComplete
  BY DEF IInv, PathInv
<1> QED
  BY Invariance, <1>1, PTL

\* The containers only ever run over a readable file with a value of this run.
THEOREM AppSafe == Spec => []AppSeesFreshSecret
<1>1. IInv => AppSeesFreshSecret
  BY SecretAssumption DEF IInv, PathInv, PathIsComplete, AppInv, AppSeesFreshSecret
<1> QED
  BY Invariance, <1>1, PTL

\* No copy of the secret is left in a temporary file.
THEOREM NoCopyLeft == Spec => []NoLeftover
<1>1. IInv => NoLeftover
  BY DEF IInv, TmpInv, NoLeftover
<1> QED
  BY Invariance, <1>1, PTL

\* The retry loops use up their attempts or the context.
THEOREM RetriesExhausted == Spec => GivesUpLate
<1>1. IInv /\ [Next]_vars =>
        [(pc \in {"factory", "factoryWait", "fetch", "fetchWait"} /\ pc' = "failed")
           => (attempt = MaxRetries - 1 \/ now' >= Deadline)]_vars
  <2> SUFFICES ASSUME IInv, Next,
                      pc \in {"factory", "factoryWait", "fetch", "fetchWait"},
                      pc' = "failed"
               PROVE  attempt = MaxRetries - 1 \/ now' >= Deadline
    OBVIOUS
  <2>1. CASE CallFactory \/ CallGetSecret
    BY <2>1, RetryAssumption DEF CallFactory, CallGetSecret, Retry, IInv, TypeOK
  <2>2. ASSUME NEW wait \in {"factoryWait", "fetchWait"},
               NEW call \in {"factory", "fetch"}, Backoff(wait, call)
        PROVE  now' >= Deadline
    BY <2>2, TimeAssumption DEF Backoff, Latest, IInv, TypeOK
  <2> QED
    BY <2>1, <2>2 DEF Next, Process, Kubelet, Validate, Check, MakeDir, OpenTmp,
       WriteTmp, Rename, Chmod, Goto, Begin, StartApp, Crash, SandboxRestart, Rotate,
       Recover
<1> QED
  BY Invariance, <1>1, PTL DEF Spec, GivesUpLate

\* How late it may be at each point of the loops: an attempt after the first begins
\* before the deadline, and the first of GetSecret where the last of the factory ended.
Calls   == CallTimes \cup PromptTimes \cup {0}
TimeInv == /\ pc \in {"idle", "validate"} \cup HasSecret \cup {"done"} => now = 0
           /\ pc = "factory" => now <= Deadline
           /\ pc \in {"factoryWait", "fetch"} => \E f \in Calls : now <= Deadline + f
           /\ EndsOnTime

\* The times of the calls, and none, are numbers.
LEMMA CallsAreNat == Calls \subseteq Nat /\ 0 \in Calls /\ Deadline \in Nat
BY TimeAssumption DEF Calls

\* Every step keeps to it.
LEMMA TimeNext == IInv /\ TimeInv /\ [Next]_vars => TimeInv'
<1> SUFFICES ASSUME IInv, TimeInv, [Next]_vars PROVE TimeInv'
  OBVIOUS
<1>0. /\ Calls \subseteq Nat /\ 0 \in Calls /\ Deadline \in Nat
      /\ TypeOK /\ WaitInv /\ now \in Nat
  BY CallsAreNat DEF IInv, TypeOK
<1>1. ASSUME now' = 0, pc' \in Running \cup {"idle", "failed", "done"} PROVE TimeInv'
  BY <1>0, <1>1 DEF TimeInv, EndsOnTime, Calls
<1>2. ASSUME UNCHANGED <<now, env>>, pc' = "failed" PROVE TimeInv'
  BY <1>0, <1>2 DEF TimeInv, EndsOnTime, HasSecret
<1>3. CASE CallFactory
  <2>1. PICK d \in Durations : now' = now + d /\ pc' \in {"fetch", "factoryWait", "failed"}
    BY <1>3 DEF CallFactory, Retry
  <2>2. d \in Calls /\ now <= Deadline
    BY <1>3, <2>1 DEF CallFactory, TimeInv, Durations, Calls
  <2>3. d \in Nat /\ now' <= Deadline + d /\ now' <= Deadline + d + 0
    BY <1>0, <2>1, <2>2
  <2>4. EndsOnTime'
    BY <1>0, <2>2, <2>3 DEF EndsOnTime, Calls
  <2> QED
    BY <2>1, <2>2, <2>3, <2>4 DEF TimeInv, HasSecret
<1>4. CASE CallGetSecret
  <2>1. CASE now' = 0 /\ pc' = "check"
    BY <2>1, <1>1 DEF Running
  <2>2. ASSUME NEW d \in Durations, now' = CallEnd(d), pc' \in {"fetchWait", "failed"}
        PROVE  TimeInv'
    <3>1. d \in Calls /\ pc = "fetch" /\ env' = env
      BY <1>4, <2>2 DEF CallGetSecret, Durations, Calls, world
    <3>2. PICK f \in Calls : now <= Deadline + f
      BY <3>1 DEF TimeInv
    <3>3. f \in Nat /\ d \in Nat
      BY <1>0, <3>1, <3>2
    <3>4. CASE env.provider \in CtxBound
      <4>1. now' <= Deadline + f + 0
        BY <1>0, <2>2, <3>2, <3>3, <3>4 DEF CallEnd, Earliest, Latest
      <4> QED
        BY <1>0, <2>2, <3>1, <4>1 DEF TimeInv, EndsOnTime, Calls, HasSecret
    <3>5. CASE env.provider \notin CtxBound
      <4>1. now' <= Deadline + f + d
        BY <1>0, <2>2, <3>2, <3>3, <3>5 DEF CallEnd
      <4> QED
        BY <2>2, <3>1, <3>5, <4>1 DEF TimeInv, EndsOnTime, Calls, HasSecret
    <3> QED
      BY <3>4, <3>5
  <2> QED
    BY <1>4, <2>1, <2>2 DEF CallGetSecret, Retry
<1>5. ASSUME NEW wait, NEW call, Backoff(wait, call),
             <<wait, call>> \in {<<"factoryWait", "factory">>, <<"fetchWait", "fetch">>}
      PROVE  TimeInv'
  <2>1. env' = env /\ pc' \in {call, "failed"} /\ call \in {"factory", "fetch"}
    BY <1>5 DEF Backoff, world
  <2>2. \/ now' <= Deadline /\ pc' = call
        \/ now' = Latest(now, Deadline) /\ pc' = "failed"
    BY <1>5 DEF Backoff
  <2>3. now' \in Nat
    BY <1>5, TypeNext DEF IInv, TypeOK
  <2>4. CASE now' <= Deadline
    <3>1. now' <= Deadline + 0 /\ now' <= Deadline + 0 + 0
      BY <1>0, <2>4
    <3> QED
      BY <1>0, <2>1, <2>4, <3>1 DEF TimeInv, EndsOnTime, Calls, HasSecret
  <2>5. CASE now' = now /\ pc' = "failed"
    BY <1>2, <2>1, <2>5
  <2> QED
    BY <1>0, <2>2, <2>4, <2>5 DEF Latest
<1>6. CASE Validate
  BY <1>0, <1>6 DEF Validate, Goto, TimeInv, EndsOnTime, memory, world, HasSecret
<1>7. CASE Check \/ MakeDir \/ OpenTmp \/ WriteTmp \/ Rename \/ Chmod
  <2>1. pc \in HasSecret /\ UNCHANGED now /\ pc' \in HasSecret \cup {"done", "failed"}
    BY <1>7 DEF Check, MakeDir, OpenTmp, WriteTmp, Rename, Chmod, Goto, memory, HasSecret
  <2> QED
    BY <1>1, <2>1 DEF TimeInv, HasSecret, Running
<1>8. CASE Begin \/ Crash
  BY <1>1, <1>8 DEF Begin, Crash, Running
<1>9. CASE SandboxRestart
  BY <1>1, <1>9 DEF SandboxRestart, TimeInv, HasSecret
<1>10. CASE StartApp \/ Rotate \/ Recover \/ UNCHANGED vars
  <2>1. UNCHANGED <<now, env, pc>>
    BY <1>10 DEF StartApp, Rotate, Recover, vars, memory
  <2> QED
    BY <2>1 DEF TimeInv, EndsOnTime
<1> QED
  BY <1>3, <1>4, <1>5, <1>6, <1>7, <1>8, <1>9, <1>10 DEF Next, Process, Kubelet

\* Whatever the delays, the times of the calls and the number of attempts, chur-init is
\* past its deadline by one call of each kind at most.
THEOREM NeverMuchTooLate == Spec => []EndsOnTime
<1>1. ASSUME Init PROVE TimeInv
  <2>1. /\ 0 \in CallTimes \cup PromptTimes \cup {0} /\ Deadline \in Nat
        /\ now = 0 /\ pc = "idle"
    BY <1>1, CallsAreNat DEF Init
  <2>2. now <= Deadline + 0 + 0
    BY <2>1
  <2>3. EndsOnTime
    BY <2>1, <2>2 DEF EndsOnTime
  <2> QED
    BY <2>1, <2>3 DEF TimeInv, HasSecret
<1>2. TimeInv => EndsOnTime
  BY DEF TimeInv
<1> QED
  BY <1>1, <1>2, TimeNext, Invariance, PTL DEF Spec

-----------------------------------------------------------------------------
(* The refinement.                                                         *)

\* A complete file is seen by the containers for what it is.
LEMMA SeenFile ==
  ASSUME path \in File, path.whole
  PROVE  DeliveredFile = [data |-> path.data, shared |-> path.mode = "0640"]
BY SecretAssumption DEF DeliveredFile

\* Every step of chur-init and of its surroundings is a step of the abstract
\* delivery or leaves it unchanged.
LEMMA StepRefines == IInv /\ [Next]_vars => [Delivery!Next]_(Delivery!vars)
<1> SUFFICES ASSUME IInv, [Next]_vars
             PROVE  Delivery!Next \/ UNCHANGED Delivery!vars
  OBVIOUS
<1> USE DEF Delivery!vars
<1>0. TypeOK /\ SourceInv /\ MemoryInv /\ TmpInv /\ PathInv /\ AppInv
  BY DEF IInv
<1>1. CASE Begin
  <2>1. app = "blocked"
    BY <1>0, <1>1 DEF Begin, AppInv, TypeOK
  <2> QED
    BY <1>1, <2>1 DEF Begin, volume, DeliveredFile, Delivery!Next, Delivery!Begin
<1>2. CASE Rename
  <2>1. CASE pc' = "chmod"
    <3>1. /\ pc = "rename" /\ path' = tmp
          /\ UNCHANGED <<source, offered, app>>
      BY <1>2, <2>1 DEF Rename, Goto, world
    <3>2. /\ tmp \in File /\ tmp # NoFile /\ tmp.whole /\ tmp.data = secret
          /\ secret \in offered
      BY <1>0, <3>1, SecretAssumption DEF TmpInv, MemoryInv, HasSecret
    <3>3. DeliveredFile' = [data |-> tmp.data, shared |-> tmp.mode = "0640"]
      BY <3>1, <3>2 DEF DeliveredFile
    <3>4. DeliveredFile' \in [data : offered, shared : BOOLEAN]
      BY <3>2, <3>3
    <3>5. app = "blocked"
      BY <1>0, <3>1 DEF AppInv, TypeOK
    <3> QED
      BY <3>1, <3>4, <3>5 DEF Delivery!Next, Delivery!Publish
  <2>2. CASE pc' # "chmod"
    BY <1>2, <2>2 DEF Rename, Goto, world, DeliveredFile
  <2> QED
    BY <2>1, <2>2
<1>3. CASE Chmod
  <2>1. CASE pc' = "done"
    <3>1. /\ pc = "chmod" /\ path' = [path EXCEPT !.mode = "0640"]
          /\ UNCHANGED <<source, offered, app>>
      BY <1>3, <2>1 DEF Chmod, Goto, world
    <3>2. path \in File /\ path # NoFile /\ path.whole
      BY <1>0, <3>1, SecretAssumption DEF PathInv, PathIsComplete
    <3>3. /\ path' \in File /\ path'.data = path.data /\ path'.whole
          /\ path'.mode = "0640"
      BY <3>1, <3>2 DEF File, Modes
    <3>4. DeliveredFile = [data |-> path.data, shared |-> path.mode = "0640"]
      BY <3>2 DEF DeliveredFile
    <3>5. DeliveredFile' = [data |-> path.data, shared |-> TRUE]
      BY <3>3, SecretAssumption DEF DeliveredFile
    <3>6. DeliveredFile' = [data |-> DeliveredFile.data, shared |-> TRUE]
      BY <3>4, <3>5
    <3>7. DeliveredFile # NoFile
      <4>1. path.data \in Secrets
        BY <3>2 DEF File
      <4>2. DeliveredFile \in [data : Secrets, shared : BOOLEAN]
        BY <3>4, <4>1
      <4> QED
        BY <4>2, SecretAssumption
    <3>8. app = "blocked"
      BY <1>0, <3>1 DEF AppInv, TypeOK
    <3> QED
      BY <3>1, <3>6, <3>7, <3>8 DEF Delivery!Next, Delivery!Share
  <2>2. CASE pc' # "done"
    BY <1>3, <2>2 DEF Chmod, Goto, world, DeliveredFile
  <2> QED
    BY <2>1, <2>2
<1>4. CASE StartApp
  <2>1. path \in File /\ path.whole /\ path.data \in offered /\ path.mode = "0640"
    BY <1>0, <1>4, SecretAssumption DEF StartApp, PathInv, PathIsComplete
  <2>2. DeliveredFile = [data |-> path.data, shared |-> TRUE]
    BY <2>1, SeenFile
  <2>3. DeliveredFile \in [data : offered, shared : {TRUE}]
    BY <2>1, <2>2
  <2> QED
    BY <1>4, <2>3 DEF StartApp, volume, DeliveredFile, Delivery!Next, Delivery!Release
<1>5. CASE SandboxRestart
  BY <1>0, <1>5 DEF SandboxRestart, volume, DeliveredFile, TypeOK, Delivery!Next, Delivery!Stop
<1>6. CASE Rotate
  BY <1>6 DEF Rotate, volume, DeliveredFile, Delivery!Next, Delivery!Rotate
<1>7. CASE Next /\ ~Begin /\ ~Rename /\ ~Chmod /\ ~StartApp /\ ~SandboxRestart /\ ~Rotate
  BY <1>7 DEF Next, Process, Kubelet, Validate, CallFactory, CallGetSecret, Backoff,
     Check, MakeDir, OpenTmp, WriteTmp, Crash, Recover, world, volume, DeliveredFile
<1>8. CASE UNCHANGED vars
  BY <1>8 DEF vars, DeliveredFile
<1> QED
  BY <1>1, <1>2, <1>3, <1>4, <1>5, <1>6, <1>7, <1>8

\* chur-init implements SecretDelivery.
THEOREM Refinement == Spec => ImplementsDelivery
<1>1. Init => Delivery!Init
  BY DEF Init, Delivery!Init, DeliveredFile
<1> QED
  BY <1>1, StepRefines, Invariance, PTL DEF Spec, ImplementsDelivery, Delivery!Spec
=============================================================================
