-------------------------- MODULE ServerLifecycle --------------------------
(***************************************************************************)
(* The life of a chur server process: the second half of run() in          *)
(* cmd/webhook/main.go, and Serve in internal/keeper/server.go, which are  *)
(* the same program but for the last line.  Two goroutines serve, main     *)
(* waits for a signal or for the first of their errors, shuts both servers *)
(* down under one 30 second context, waits for the goroutines and exits.   *)
(***************************************************************************)
EXTENDS Integers

CONSTANTS MaxActive,   \* bound: requests in flight per server
          NoError

Servers  == {"health", "main"}
Programs == {"webhook", "keeper"}

ASSUME ErrorAssumption  == NoError \notin Servers
ASSUME ActiveAssumption == MaxActive \in Nat

VARIABLES
  program,      \* which of the two programs this is
  servers,      \* its servers: the keeper's health server is optional
  signaled,     \* did SIGINT or SIGTERM arrive?
  routine,      \* the goroutine of each server
  active,       \* requests in flight, per server
  closing,      \* the servers whose Shutdown was called
  firstErr,     \* the first error of a server
  errCh,        \* notices in the channel, of capacity 1
  pc,           \* where main is
  expired,      \* are the 30 seconds over?
  shutdownErr,  \* did Shutdown of the main server return an error?
  code          \* the exit code

config == <<program, servers>>
errors == <<firstErr, errCh>>
ending == <<expired, shutdownErr, code>>
vars   == <<config, signaled, routine, active, closing, errors, pc, ending>>

Init == /\ program \in Programs
        /\ servers \in {Servers, {"main"}}
        /\ program = "webhook" => servers = Servers
        /\ signaled = FALSE
        /\ routine = [s \in servers |-> "starting"]
        /\ active = [s \in servers |-> 0]
        /\ closing = {}
        /\ firstErr = NoError /\ errCh = 0
        /\ pc = "select"
        /\ expired = FALSE /\ shutdownErr = FALSE /\ code = 0

Signal == /\ pc # "exited" /\ ~signaled
          /\ signaled' = TRUE
          /\ UNCHANGED <<config, routine, active, closing, errors, pc, ending>>

-----------------------------------------------------------------------------
(* The goroutines.  net/http (external) makes Serve return ErrServerClosed *)
(* once Shutdown was called, also if it was called first.                  *)

Turn(s, from, to) == routine[s] = from /\ routine' = [routine EXCEPT ![s] = to]

Serve(s) == /\ \/ Turn(s, "starting", "serving") /\ s \notin closing
               \/ Turn(s, "starting", "closed") /\ s \in closing
               \/ Turn(s, "serving", "closed") /\ s \in closing
            /\ UNCHANGED <<config, signaled, active, closing, errors, pc, ending>>

\* The address is taken or the key pair cannot be loaded, which Serve may find out
\* before it sees the shutdown; or Accept fails for good.
Fail(s) == /\ \/ Turn(s, "starting", "failing")
              \/ Turn(s, "serving", "failing") /\ s \notin closing
           /\ UNCHANGED <<config, signaled, active, closing, errors, pc, ending>>

\* (Mutants of Notify: every error is sent; and to a channel that never blocks.)
NotifyAlways(s) == /\ Turn(s, "failing", "failed")
                   /\ errCh = 0 /\ errCh' = 1
                   /\ firstErr' = IF firstErr = NoError THEN s ELSE firstErr
                   /\ UNCHANGED <<config, signaled, active, closing, pc, ending>>
NotifyUnbounded(s) == /\ Turn(s, "failing", "failed")
                      /\ errCh' = errCh + 1
                      /\ firstErr' = IF firstErr = NoError THEN s ELSE firstErr
                      /\ UNCHANGED <<config, signaled, active, closing, pc, ending>>

\* notifyErr, under its mutex, and the end of the goroutine.
Notify(s) == /\ Turn(s, "failing", "failed")
             /\ \/ firstErr = NoError /\ errCh < 1 /\ firstErr' = s /\ errCh' = errCh + 1
                \/ firstErr # NoError /\ UNCHANGED errors
             /\ UNCHANGED <<config, signaled, active, closing, pc, ending>>

\* Requests, on connections that were accepted; they outlive Serve.  A connection
\* that was idle when Shutdown was called may still bring one until it is found.
Draining(s) == pc = IF s = "main" THEN "drainMain" ELSE "drainHealth"
Request(s) == /\ routine[s] # "starting"
              /\ s \notin closing \/ Draining(s)
              /\ active[s] < MaxActive
              /\ active' = [active EXCEPT ![s] = @ + 1]
              /\ UNCHANGED <<config, signaled, routine, closing, errors, pc, ending>>

Finish(s) == /\ active[s] > 0
             /\ active' = [active EXCEPT ![s] = @ - 1]
             /\ UNCHANGED <<config, signaled, routine, closing, errors, pc, ending>>

-----------------------------------------------------------------------------
(* main.                                                                   *)

Goto(from, to) == pc = from /\ pc' = to

\* The select: when a signal and a notice are both there, either is taken.
Woken == /\ Goto("select", "closeHealth")
         /\ \/ signaled /\ UNCHANGED errCh
            \/ errCh > 0 /\ errCh' = errCh - 1
         /\ UNCHANGED <<config, signaled, routine, active, closing, firstErr, ending>>

\* The health server is shut down first: its listener is closed, and requests in
\* flight have until the end of the context.  An error is only logged.
CloseHealth ==
  /\ \/ /\ Goto("closeHealth", "drainHealth")
        /\ "health" \in servers
        /\ closing' = closing \cup {"health"}
     \/ Goto("closeHealth", "closeMain") /\ "health" \notin servers /\ UNCHANGED closing
  /\ UNCHANGED <<config, signaled, routine, active, errors, ending>>

DrainHealth == /\ Goto("drainHealth", "closeMain")
               /\ active["health"] = 0 \/ expired
               /\ UNCHANGED <<config, signaled, routine, active, closing, errors, ending>>

CloseMain == /\ Goto("closeMain", "drainMain")
             /\ closing' = closing \cup {"main"}
             /\ UNCHANGED <<config, signaled, routine, active, errors, ending>>

\* (Mutant of DrainMain: Close in the place of Shutdown.)
DrainMainAtOnce ==
  /\ Goto("drainMain", "wait")
  /\ UNCHANGED <<config, signaled, routine, active, closing, errors, ending>>

DrainMain ==
  /\ Goto("drainMain", "wait")
  /\ \/ active["main"] = 0 /\ UNCHANGED shutdownErr
     \/ expired /\ shutdownErr' = TRUE
  /\ UNCHANGED <<config, signaled, routine, active, closing, errors, expired, code>>

\* The context of the shutdown, one for both servers, ends.
Expire == /\ pc \in {"closeHealth", "drainHealth", "closeMain", "drainMain"} /\ ~expired
          /\ expired' = TRUE
          /\ UNCHANGED <<config, signaled, routine, active, closing, errors, pc,
                         shutdownErr, code>>

\* Only the keeper reports that its shutdown was cut short.
ExitCode == IF firstErr # NoError \/ (program = "keeper" /\ shutdownErr) THEN 1 ELSE 0

\* (Mutant of Exit: the error is read without waiting for the goroutines.)
ExitEarly == /\ Goto("wait", "exited")
             /\ code' = ExitCode
             /\ UNCHANGED <<config, signaled, routine, active, closing, errors,
                            expired, shutdownErr>>

Exit == /\ Goto("wait", "exited")
        /\ \A s \in servers : routine[s] \in {"closed", "failed"}
        /\ code' = ExitCode
        /\ UNCHANGED <<config, signaled, routine, active, closing, errors,
                       expired, shutdownErr>>

Main       == Woken \/ CloseHealth \/ DrainHealth \/ CloseMain \/ DrainMain \/ Exit
Routine(s) == Serve(s) \/ Notify(s)
Next == \/ Signal \/ Main \/ Expire
        \/ \E s \in servers : Routine(s) \/ Fail(s) \/ Request(s) \/ Finish(s)

Spec == Init /\ [][Next]_vars

\* Goroutines that can run do, and time passes.  No request has to end, and no
\* server has to fail.
Fairness == WF_vars(Main) /\ WF_vars(Expire) /\ \A s \in Servers : WF_vars(s \in servers /\ Routine(s))
FairSpec == Spec /\ Fairness

-----------------------------------------------------------------------------
(* What makes it correct.                                                  *)

TypeOK == /\ program \in Programs
          /\ servers \in {Servers, {"main"}}
          /\ signaled \in BOOLEAN
          /\ routine \in [servers -> {"starting", "serving", "failing", "failed", "closed"}]
          /\ active \in [servers -> 0..MaxActive]
          /\ closing \subseteq servers
          /\ firstErr \in servers \cup {NoError}
          /\ errCh \in {0, 1}
          /\ pc \in {"select", "closeHealth", "drainHealth", "closeMain", "drainMain",
                     "wait", "exited"}
          /\ expired \in BOOLEAN /\ shutdownErr \in BOOLEAN
          /\ code \in {0, 1}

\* The exit code tells the orchestrator of every server that failed, at whatever
\* moment it did, the shutdown included, and nothing uses the key files or the
\* listener any more when the deferred functions remove them.
ExitTells == pc = "exited" =>
  /\ \A s \in servers : routine[s] \in {"closed", "failed"}
  /\ code = 0 => \A s \in servers : routine[s] = "closed"

\* The exit cuts a request off only when the 30 seconds are over that both shutdowns
\* share (a health request may have used them up), and the keeper does not exit with
\* 0 if it was one of the main server.  The webhook does.
Graceful == pc = "exited" =>
  /\ ~expired => \A s \in servers : active[s] = 0
  /\ program = "keeper" /\ code = 0 => active["main"] = 0

\* A signal or the failure of one server ends the process, whatever the other
\* server, its requests and further failures do: no goroutine blocks on the
\* channel of errors and none is waited for in vain.
Stops == (signaled \/ firstErr # NoError) ~> (pc = "exited")
=============================================================================
