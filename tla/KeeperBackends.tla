--------------------------- MODULE KeeperBackends ---------------------------
(***************************************************************************)
(* One call of GetSecret of a keeper backend, for the three of them:       *)
(*   filesystem  a goroutine reads the file while the caller waits for it  *)
(*               or for the context (internal/readutil/read.go, which the  *)
(*               local provider of chur-init uses as well);                *)
(*   exec        a command writes the secret to a pipe, beside a goroutine *)
(*               of os/exec that kills it when the context ends and one    *)
(*               that copies its stderr (internal/keeper/exec/exec.go);    *)
(*   http        the body of a response is read, under the timeout of the  *)
(*               client (internal/keeper/http/http.go).                    *)
(* A secret is its length.  A length has the width of an int64, whose      *)
(* largest value is MaxInt.                                                *)
(***************************************************************************)
EXTENDS Integers

CONSTANTS
  Backends,   \* the backends a keeper may run with
  Sizes,      \* how long the secrets are; a command writes no more than MaxWritten
  MaxSize,    \* CHUR_KEEPER_MAX_SECRET_SIZE, CHUR_KEEPER_EXEC_MAX_STDOUT
  MaxInt,     \* the largest int64
  MaxWritten, \* bound: what a command writes
  None        \* no result yet

AllBackends == {"filesystem", "exec", "http"}
Pipes       == {"stdout", "stderr"}

\* The limits a keeper starts with: a size of zero only with the filesystem.
AcceptedLimits(b) == IF b = "filesystem" THEN 0..MaxInt ELSE 1..MaxInt

ASSUME BackendAssumption == Backends \subseteq AllBackends
ASSUME SizeAssumption    == Sizes \subseteq Nat /\ MaxWritten \in Nat
ASSUME LimitAssumption   == /\ MaxInt \in Nat /\ MaxSize \in 0..MaxInt
                            /\ \A b \in Backends : MaxSize \in AcceptedLimits(b)
ASSUME NoneAssumption    == None \notin Nat /\ None \notin [ok : BOOLEAN, len : Nat]

VARIABLES
  backend,    \* cfg.BackendType, fixed when the keeper starts
  pc,         \* where the caller of the source is
  ended,      \* is the context of the call over?
  written,    \* what the source put out: a file or a body, or a command until now
  got,        \* what was read of it
  open,       \* is the file, the pipe of stdout or the body open?
  fault,      \* did something outside fail: a call, the source, the command?
  result,
  reader,     \* filesystem: the reading goroutine
  child,      \* exec: the command, a zombie from its end until it is waited for
  status,     \* exec: how the command ended
  kept,       \* exec: the pipes of the command that a descendant of it holds
  watcher,    \* exec: the goroutine of os/exec that kills the command
  copier      \* exec: the goroutine of os/exec that copies stderr

vars    == <<backend, pc, ended, written, got, open, fault, result,
             reader, child, status, kept, watcher, copier>>
command == <<child, status>>
process == <<child, status, kept, watcher, copier>>

PCs == {"start", "select", "cancel", "copy", "wait", "watch", "stderr",
        "body", "discard", "done"}

Error    == [ok |-> FALSE, len |-> 0]
Value(n) == [ok |-> TRUE, len |-> n]

\* maxSize + 1 in int64, and what LimitReader and CopyN stop at: none of the
\* bytes when it is negative.
Wrap(n) == IF n > MaxInt THEN n - 2 * (MaxInt + 1) ELSE n

\* (Mutant of Enough: the byte that tells of an overflow is not read.)
EnoughAtLimit == got >= MaxSize

Enough == got >= Wrap(MaxSize + 1)

Goto(from, to) == pc = from /\ pc' = to
Returns(r)     == result' = r /\ pc' = "done"

Init == /\ backend \in Backends
        /\ pc = "start" /\ ended = FALSE
        /\ written \in (IF backend = "exec" THEN {0} ELSE Sizes)
        /\ got = 0 /\ open = FALSE /\ fault = FALSE /\ result = None
        /\ reader = "none"
        /\ child = "none" /\ status = "none" /\ kept = {}
        /\ watcher = "none" /\ copier = "none"

\* The timeout of the call, or its caller's client left.  The deadline of exec and
\* http always comes; a filesystem call has none of its own.
ContextEnds == /\ pc # "done" /\ ~ended
               /\ ended' = TRUE
               /\ UNCHANGED <<backend, pc, written, got, open, fault, result, reader, process>>

\* The reference is refused, or open, start or request fails.
StartFails == /\ pc = "start"
              /\ Returns(Error)
              /\ fault' = TRUE
              /\ UNCHANGED <<backend, ended, written, got, open, reader, process>>

\* A value is returned if it is not longer than the limit.
Checked == IF got > MaxSize THEN Error ELSE Value(got)

-----------------------------------------------------------------------------
(* filesystem: FSBackend.GetSecret and ReadWithContext.                    *)

OpenFile == /\ backend = "filesystem" /\ Goto("start", "select")
            /\ open' = TRUE /\ reader' = "next"
            /\ UNCHANGED <<backend, ended, written, got, fault, result, process>>

\* The goroutine: ReadAll calls Read until the end, the limit or an error.  While
\* it is in the system call nothing can be done about it.
ReadFile == /\ reader = "next" /\ open /\ ~Enough
            /\ reader' = "reading"
            /\ UNCHANGED <<backend, pc, ended, written, got, open, fault, result, process>>

\* (Mutant of ReadReturns: the read that finds the end counts as a byte.)
ReadReturnsPastEnd ==
  /\ reader = "reading"
  /\ \/ got < written /\ got' = got + 1 /\ reader' = "next" /\ UNCHANGED fault
     \/ got = written /\ got' = got + 1 /\ reader' = "read" /\ UNCHANGED fault
     \/ reader' = "failed" /\ fault' = TRUE /\ UNCHANGED got
  /\ UNCHANGED <<backend, pc, ended, written, open, result, process>>

ReadReturns ==
  /\ reader = "reading"
  /\ \/ /\ got < written
        /\ got' = got + 1 /\ reader' = "next"
        /\ UNCHANGED fault
     \/ /\ got = written
        /\ reader' = "read"
        /\ UNCHANGED <<got, fault>>
     \/ /\ reader' = "failed" /\ fault' = TRUE
        /\ UNCHANGED got
  /\ UNCHANGED <<backend, pc, ended, written, open, result, process>>

\* It sends what it has: at the limit, or because the file was closed.
ReadStops == /\ reader = "next" /\ (Enough \/ ~open)
             /\ reader' = IF Enough THEN "read" ELSE "failed"
             /\ UNCHANGED <<backend, pc, ended, written, got, open, fault, result, process>>

\* (Mutant of Cancel: the goroutine is not waited for.)
CancelAtOnce == /\ pc = "select" /\ ended
                /\ open' = FALSE /\ Returns(Error)
                /\ UNCHANGED <<backend, ended, written, got, fault, reader, process>>

\* The select.  The context is over: the file is closed, and the goroutine waited for.
Cancel == /\ Goto("select", "cancel") /\ ended
          /\ open' = FALSE
          /\ UNCHANGED <<backend, ended, written, got, fault, result, reader, process>>

Canceled == /\ pc = "cancel" /\ reader \in {"read", "failed"}
            /\ Returns(Error)
            /\ UNCHANGED <<backend, ended, written, got, open, fault, reader, process>>

\* The goroutine was done first.
Receive == /\ pc = "select" /\ reader \in {"read", "failed"}
           /\ open' = FALSE
           /\ Returns(IF reader = "read" THEN Checked ELSE Error)
           /\ UNCHANGED <<backend, ended, written, got, fault, reader, process>>

Filesystem == ReadFile \/ ReadStops \/ Cancel \/ Canceled \/ Receive

-----------------------------------------------------------------------------
(* exec: ExecBackend.GetSecret, and os/exec (external) as it is used.      *)

StartCommand == /\ backend = "exec" /\ Goto("start", "copy") /\ ~ended
                /\ open' = TRUE
                /\ child' = "running" /\ watcher' = "watching" /\ copier' = "copying"
                /\ UNCHANGED <<backend, ended, written, got, fault, result, reader,
                               status, kept>>

\* The command and what it starts: they write to the pipe while somebody reads it.
Holds(pipe) == child = "running" \/ pipe \in kept
CommandWrites == /\ Holds("stdout") /\ open
                 /\ written < MaxWritten
                 /\ written' = written + 1
                 /\ UNCHANGED <<backend, pc, ended, got, open, fault, result, reader, process>>

\* It starts a process that inherits one or both pipes; that process lets go of them.
CommandForks == /\ child = "running" /\ kept = {}
                /\ kept' \in SUBSET Pipes \ {{}}
                /\ UNCHANGED <<backend, pc, ended, written, got, open, fault, result,
                               reader, command, watcher, copier>>
DescendantEnds == /\ kept # {}
                  /\ kept' = {}
                  /\ UNCHANGED <<backend, pc, ended, written, got, open, fault, result,
                                 reader, command, watcher, copier>>

CommandExits == /\ child = "running"
                /\ child' = "zombie"
                /\ status' \in {"ok", "failed"}
                /\ fault' = (fault \/ status' = "failed")
                /\ UNCHANGED <<backend, pc, ended, written, got, open, result, reader,
                               kept, watcher, copier>>

\* A kill of a zombie succeeds and changes nothing.
Kill == IF child = "running" THEN child' = "zombie" /\ status' = "failed"
                             ELSE UNCHANGED command

\* CopyN: up to one byte more than the limit, or the end of the pipe, which comes
\* when no process holds it.  A read of the pipe does not fail.
CopyByte == /\ pc = "copy" /\ ~Enough /\ got < written
            /\ got' = got + 1
            /\ UNCHANGED <<backend, pc, ended, written, open, fault, result, reader, process>>

\* The pipe is closed, and the command killed if it wrote too much.
CopyEnds == /\ Goto("copy", "wait")
            /\ Enough \/ (got = written /\ ~Holds("stdout"))
            /\ open' = FALSE
            /\ IF got > MaxSize THEN Kill ELSE UNCHANGED command
            /\ UNCHANGED <<backend, ended, written, got, fault, result, reader,
                           kept, watcher, copier>>

\* The watcher kills the command when the context ends; Wait reports that, even of
\* a command that had exited, unless it was waited for before.
Watch == /\ watcher = "watching" /\ ended
         /\ Kill
         /\ watcher' = IF child = "reaped" THEN "gone" ELSE "fired"
         /\ UNCHANGED <<backend, pc, ended, written, got, open, fault, result, reader,
                        kept, copier>>

\* (Mutant of CopyStderr: Write of limitedWriter reports that it wrote less.)
CopyStderrShort == /\ copier = "copying" /\ Holds("stderr")
                   /\ copier' = "failed"
                   /\ UNCHANGED <<backend, pc, ended, written, got, open, fault, result,
                                  reader, command, kept, watcher>>

\* The other goroutine copies stderr; what is too long is dropped, with no error,
\* and it goes on until no process holds the pipe.
CopyStderr == /\ copier = "copying" /\ Holds("stderr")
              /\ copier' = "dropping"
              /\ UNCHANGED <<backend, pc, ended, written, got, open, fault, result,
                             reader, command, kept, watcher>>
CopierEnds == /\ copier \in {"copying", "dropping"} /\ ~Holds("stderr")
              /\ copier' = "ended"
              /\ UNCHANGED <<backend, pc, ended, written, got, open, fault, result,
                             reader, command, kept, watcher>>

\* cmd.Wait: first for the command, then for the word of the watcher, then for the
\* copier, without a limit, since no WaitDelay is set.
Reap == /\ Goto("wait", "watch") /\ child = "zombie"
        /\ child' = "reaped"
        /\ UNCHANGED <<backend, ended, written, got, open, fault, result, reader,
                       status, kept, watcher, copier>>
StopWatcher == /\ Goto("watch", "stderr")
               /\ watcher' = IF watcher = "watching" THEN "gone" ELSE watcher
               /\ UNCHANGED <<backend, ended, written, got, open, fault, result, reader,
                              command, kept, copier>>

\* (Mutant of Waited: an error of Wait is not looked at.)
WaitedUnchecked == /\ pc = "stderr" /\ copier \in {"ended", "failed"}
                   /\ Returns(Checked)
                   /\ UNCHANGED <<backend, ended, written, got, open, fault, reader, process>>

Waited == /\ pc = "stderr" /\ copier \in {"ended", "failed"}
          /\ Returns(IF status = "failed" \/ watcher = "fired" \/ copier = "failed"
                     THEN Error ELSE Checked)
          /\ UNCHANGED <<backend, ended, written, got, open, fault, reader, process>>

Exec == \/ CopyByte \/ CopyEnds \/ Watch \/ CopierEnds
        \/ Reap \/ StopWatcher \/ Waited

-----------------------------------------------------------------------------
(* http: HTTPBackend.GetSecret.  The response says where its body ends, so *)
(* that one that breaks off is an error.                                   *)

\* A response came; another status than 200 is an error, after some of the body.
Respond == /\ backend = "http" /\ pc = "start"
           /\ open' = TRUE
           /\ \/ pc' = "body" /\ UNCHANGED fault
              \/ pc' = "discard" /\ fault' = TRUE
           /\ UNCHANGED <<backend, ended, written, got, result, reader, process>>

ReadBody == /\ pc = "body" /\ ~Enough /\ got < written
            /\ got' = got + 1
            /\ UNCHANGED <<backend, pc, ended, written, open, fault, result, reader, process>>

BodyEnds == /\ pc = "body" /\ (Enough \/ got = written)
            /\ open' = FALSE /\ Returns(Checked)
            /\ UNCHANGED <<backend, ended, written, got, fault, reader, process>>

Discarded == /\ pc = "discard"
             /\ open' = FALSE /\ Returns(Error)
             /\ UNCHANGED <<backend, ended, written, got, fault, reader, process>>

BodyBreaks == /\ pc = "body"
              /\ open' = FALSE /\ Returns(Error)
              /\ fault' = TRUE
              /\ UNCHANGED <<backend, ended, written, got, reader, process>>

\* (Mutant of Abort: a timeout that does not cover the body.)
AbortBeforeBody == /\ backend = "http" /\ pc = "start" /\ ended
                   /\ Returns(Error)
                   /\ UNCHANGED <<backend, ended, written, got, open, fault, reader, process>>

\* The context or the client's timeout is over, whatever the call waits for.
Abort == /\ backend = "http" /\ pc \in {"start", "body", "discard"} /\ ended
         /\ open' = FALSE /\ Returns(Error)
         /\ UNCHANGED <<backend, ended, written, got, fault, reader, process>>

-----------------------------------------------------------------------------
Next == \/ ContextEnds \/ StartFails
        \/ OpenFile \/ ReadReturns \/ Filesystem
        \/ StartCommand \/ CommandWrites \/ CommandForks \/ DescendantEnds
        \/ CommandExits \/ CopyStderr \/ Exec
        \/ Respond \/ ReadBody \/ BodyEnds \/ Discarded \/ BodyBreaks \/ Abort

Spec == Init /\ [][Next]_vars

\* The goroutines of the keeper run when they can.  The timeout of exec and http
\* comes.  Nothing is asked of commands, their descendants, disks
\* and servers.
Fairness == /\ WF_vars(backend # "http" /\ (OpenFile \/ StartCommand \/ StartFails))
            /\ WF_vars(Filesystem) /\ WF_vars(Abort)
            /\ WF_vars(backend # "filesystem" /\ ContextEnds)
            /\ WF_vars(CopyByte \/ CopyEnds \/ Reap \/ StopWatcher \/ Waited)
            /\ WF_vars(Watch) /\ WF_vars(CopierEnds)
FairSpec == Spec /\ Fairness

-----------------------------------------------------------------------------
(* What makes it correct.                                                  *)

TypeOK == /\ backend \in Backends
          /\ pc \in PCs
          /\ ended \in BOOLEAN /\ open \in BOOLEAN /\ fault \in BOOLEAN
          /\ written \in Nat /\ got \in 0..written
          /\ result \in [ok : BOOLEAN, len : Nat] \cup {None}
          /\ reader \in {"none", "next", "reading", "read", "failed"}
          /\ child \in {"none", "running", "zombie", "reaped"}
          /\ status \in {"none", "ok", "failed"}
          /\ kept \subseteq Pipes
          /\ watcher \in {"none", "watching", "fired", "gone"}
          /\ copier \in {"none", "copying", "dropping", "ended", "failed"}

\* An error has a cause outside the call: its context ended, something failed, or
\* the secret was too long.  Noise on stderr is none, and neither is the order in
\* which the command, the watcher and the copies come to their ends
\* (exec.go:24-42, 106-115, read.go:25-39).
ErrorHasCause == result = Error => fault \/ ended \/ written > MaxSize

\* What the call took for itself is given back when it returns, by every path: no
\* goroutine, no open file or pipe, no command, running or as a zombie
\* (read.go:27, 30, exec.go:94-106, http.go:86).
NothingLeft == result # None => /\ ~open
                                /\ reader \notin {"next", "reading"}
                                /\ child \notin {"running", "zombie"}
                                /\ watcher # "watching"
                                /\ copier \notin {"copying", "dropping"}

\* A pipe that a descendant of the command holds, a read that does not return:
\* what a call may have to wait for.
Held == kept # {} \/ reader = "reading"

\* Every call returns, unless it is held for ever: this is what Served of
\* KeeperServer rests on.
Ends == []<>~Held => <>(result # None)

\* The source has the whole secret: the file or the body, or what a command put
\* out that exited with 0, when nobody is left to add to it.
Whole == backend = "exec" => status = "ok" /\ ~Holds("stdout")

\* A secret that was not read to its end is never returned (read.go:11: "reads
\* maxSize+1 to detect overflow").  It is, with a limit of MaxInt: see Wrap.
OverflowDetected == result # None /\ result # Error => result = Value(written)

C == INSTANCE BackendCall WITH Limit <- MaxSize,
                               offer <- IF Whole THEN written ELSE None

\* A call returns all of the secret or an error: never the first part of one, the
\* output of a command that was killed or failed, or more than the limit.
ImplementsBackendCall == C!Spec

-----------------------------------------------------------------------------
(* What its documentation says of it.                                      *)

\* README.md:283: CHUR_KEEPER_EXEC_TIMEOUT is the "Command execution timeout in
\* seconds", so that the call ends when it has passed.
TimeoutHolds == (backend = "exec" /\ ended) ~> (result # None)
=============================================================================
