----------------------- MODULE KeeperBackends_proofs -----------------------
(***************************************************************************)
(* Proofs about KeeperBackends, for secrets and limits of every length.    *)
(***************************************************************************)
EXTENDS KeeperBackends, TLAPS

\* What a call of each backend has at each point of the code.
Shape ==
  /\ result = None <=> pc # "done"
  /\ open <=> pc \in {"select", "copy", "body", "discard"}
  /\ pc = "start" => child = "none" /\ reader = "none"
  /\ pc \in {"select", "cancel"} => backend = "filesystem"
  /\ pc \in {"copy", "wait", "watch", "stderr"} => backend = "exec"
  /\ pc \in {"body", "discard"} => backend = "http"
  /\ backend # "filesystem" => reader = "none"
  /\ backend # "exec" => child = "none"
  /\ pc = "select" => reader # "none"
  /\ pc = "done" => reader \notin {"next", "reading"}

\* The command and the two goroutines beside it.
ExecShape ==
  /\ child = "none" => kept = {} /\ watcher = "none" /\ copier = "none"
  /\ child \in {"none", "running"} <=> status = "none"
  /\ pc \in {"copy", "wait"} => child \in {"running", "zombie"}
  /\ pc \in {"watch", "stderr"} => child = "reaped"
  /\ pc = "done" => child \in {"none", "reaped"}
  /\ pc \in {"stderr", "done"} => watcher # "watching"
  /\ pc = "done" => copier \in {"none", "ended"}
  /\ copier # "failed"

\* Why something went wrong, while it is not yet the result.
Causes ==
  /\ reader = "failed" => fault \/ ended
  /\ pc = "cancel" => ended
  /\ pc = "discard" => fault
  /\ watcher = "fired" => ended
  /\ status = "failed" => fault \/ ended \/ written > MaxSize
  /\ ErrorHasCause

IInv == TypeOK /\ Shape /\ ExecShape /\ Causes

-----------------------------------------------------------------------------
\* What a call may return.
LEMMA Results ==
  ASSUME TypeOK
  PROVE  /\ Error \in [ok : BOOLEAN, len : Nat] /\ Error # None
         /\ Checked \in [ok : BOOLEAN, len : Nat] /\ Checked # None
         /\ Checked = Error => got > MaxSize /\ written > MaxSize
<1>1. Error \in [ok : BOOLEAN, len : Nat]
  BY DEF Error
<1>2. got \in Nat /\ written \in Nat /\ got <= written /\ MaxSize \in Nat
  BY LimitAssumption DEF TypeOK
<1>3. Value(got) \in [ok : BOOLEAN, len : Nat] /\ Value(got) # Error
  BY <1>2 DEF Value, Error
<1>4. CASE got > MaxSize
  <2>1. Checked = Error
    BY <1>4 DEF Checked
  <2>2. written > MaxSize
    BY <1>2, <1>4
  <2> QED
    BY <1>1, <1>4, <2>1, <2>2, NoneAssumption
<1>5. CASE ~(got > MaxSize)
  <2>1. Checked = Value(got)
    BY <1>5 DEF Checked
  <2> QED
    BY <1>1, <1>3, <2>1, NoneAssumption
<1> QED
  BY <1>4, <1>5

\* The invariant holds before the call.
LEMMA InitInv == Init => IInv
<1> SUFFICES ASSUME Init PROVE IInv
  OBVIOUS
<1>1. TypeOK
  <2>1. ended \in BOOLEAN /\ open \in BOOLEAN /\ fault \in BOOLEAN
    BY Zenon DEF Init
  <2>2. written \in Nat /\ got \in 0..written
    BY SizeAssumption DEF Init
  <2> QED
    BY <2>1, <2>2 DEF Init, TypeOK, PCs
<1>2. Shape /\ ExecShape
  BY DEF Init, Shape, ExecShape
<1>3. Causes
  <2>1. result # Error
    <3>1. result = None
      BY DEF Init
    <3>2. Error # None
      BY <1>1, Results
    <3> QED
      BY <3>1, <3>2
  <2> QED
    BY <2>1 DEF Init, Causes, ErrorHasCause
<1> QED
  BY <1>1, <1>2, <1>3 DEF IInv

\* The types in two parts: the flags, and what is no Boolean.
Flags == ended \in BOOLEAN /\ open \in BOOLEAN /\ fault \in BOOLEAN
Data  == /\ backend \in Backends
         /\ pc \in PCs
         /\ written \in Nat /\ got \in 0..written
         /\ result \in [ok : BOOLEAN, len : Nat] \cup {None}
         /\ reader \in {"none", "next", "reading", "read", "failed"}
         /\ child \in {"none", "running", "zombie", "reaped"}
         /\ status \in {"none", "ok", "failed"}
         /\ kept \subseteq Pipes
         /\ watcher \in {"none", "watching", "fired", "gone"}
         /\ copier \in {"none", "copying", "dropping", "ended", "failed"}

\* The types of what is a flag or a stage of something are kept by every step.
LEMMA FlagsNext == Flags /\ [Next]_vars => Flags'
<1> SUFFICES ASSUME Flags, [Next]_vars PROVE Flags'
  OBVIOUS
<1> USE DEF Flags
<1>1. CASE ContextEnds \/ StartFails \/ OpenFile
  BY <1>1, Zenon DEF ContextEnds, StartFails, OpenFile
<1>2. CASE ReadReturns \/ Filesystem
  BY <1>2, Zenon DEF ReadReturns, Filesystem, ReadFile, ReadStops, Cancel, Canceled, Receive
<1>3. CASE StartCommand \/ CommandWrites \/ CommandForks \/ DescendantEnds
  BY <1>3, Zenon DEF StartCommand, CommandWrites, CommandForks, DescendantEnds
<1>4. CASE CommandExits \/ CopyStderr
  BY <1>4, Zenon DEF CommandExits, CopyStderr
<1>5. CASE CopyByte \/ CopyEnds \/ Watch
  BY <1>5, Zenon DEF CopyByte, CopyEnds, Watch
<1>6. CASE CopierEnds \/ Reap \/ StopWatcher \/ Waited
  BY <1>6, Zenon DEF CopierEnds, Reap, StopWatcher, Waited
<1>7. CASE Respond \/ ReadBody \/ BodyEnds \/ Discarded \/ BodyBreaks \/ Abort
  BY <1>7, Zenon DEF Respond, ReadBody, BodyEnds, Discarded, BodyBreaks, Abort
<1>8. CASE UNCHANGED vars
  BY <1>8 DEF vars
<1> QED
  BY <1>1, <1>2, <1>3, <1>4, <1>5, <1>6, <1>7, <1>8 DEF Next, Exec

\* The types of lengths and results are kept by every step.
LEMMA DataNext == TypeOK /\ [Next]_vars => Data'
<1> SUFFICES ASSUME TypeOK, Data, [Next]_vars PROVE Data'
  BY DEF TypeOK, Data
<1> USE DEF Data, PCs, Goto, Returns, process, command
<1>0. /\ Error \in [ok : BOOLEAN, len : Nat]
      /\ Checked \in [ok : BOOLEAN, len : Nat]
  BY Results
<1>1. CASE ContextEnds \/ StartFails \/ OpenFile
  BY <1>0, <1>1 DEF ContextEnds, StartFails, OpenFile
<1>2. CASE ReadReturns \/ Filesystem
  <2>1. CASE ReadReturns
    BY <2>1 DEF ReadReturns
  <2>2. CASE ReadFile \/ ReadStops \/ Cancel
    BY <2>2 DEF ReadFile, ReadStops, Cancel
  <2>3. CASE Canceled \/ Receive
    BY <1>0, <2>3 DEF Canceled, Receive
  <2> QED
    BY <1>2, <2>1, <2>2, <2>3 DEF Filesystem
<1>3. CASE StartCommand \/ CommandWrites \/ CommandForks \/ DescendantEnds
  <2>1. CASE StartCommand
    BY <2>1 DEF StartCommand
  <2>2. CASE CommandWrites
    BY <2>2 DEF CommandWrites
  <2>3. CASE CommandForks \/ DescendantEnds
    BY <2>3 DEF CommandForks, DescendantEnds
  <2> QED
    BY <1>3, <2>1, <2>2, <2>3
<1>4. CASE CommandExits \/ CopyStderr
  BY <1>4 DEF CommandExits, CopyStderr
<1>5. CASE CopyByte \/ CopyEnds \/ Watch
  <2>1. CASE CopyByte
    BY <2>1 DEF CopyByte
  <2>2. CASE CopyEnds
    BY <2>2 DEF CopyEnds, Kill
  <2>3. CASE Watch
    BY <2>3 DEF Watch, Kill
  <2> QED
    BY <1>5, <2>1, <2>2, <2>3
<1>6. CASE CopierEnds \/ Reap \/ StopWatcher \/ Waited
  BY <1>0, <1>6 DEF CopierEnds, Reap, StopWatcher, Waited
<1>7. CASE Respond \/ ReadBody \/ BodyEnds \/ Discarded \/ BodyBreaks \/ Abort
  <2>1. CASE Respond \/ ReadBody
    BY <2>1 DEF Respond, ReadBody
  <2>2. CASE BodyEnds \/ Discarded
    BY <1>0, <2>2 DEF BodyEnds, Discarded
  <2>3. CASE BodyBreaks \/ Abort
    BY <1>0, <2>3 DEF BodyBreaks, Abort
  <2> QED
    BY <1>7, <2>1, <2>2, <2>3
<1>8. CASE UNCHANGED vars
  BY <1>8 DEF vars
<1> QED
  BY <1>1, <1>2, <1>3, <1>4, <1>5, <1>6, <1>7, <1>8 DEF Next, Exec

\* The types are kept by every step.
LEMMA TypeNext == TypeOK /\ [Next]_vars => TypeOK'
<1>1. TypeOK <=> Flags /\ Data
  BY DEF TypeOK, Flags, Data
<1>2. TypeOK' <=> Flags' /\ Data'
  BY DEF TypeOK, Flags, Data
<1> QED
  BY <1>1, <1>2, FlagsNext, DataNext

\* What belongs to the stage the caller is in is kept by every step.
LEMMA ShapeNext == TypeOK /\ Shape /\ ExecShape /\ [Next]_vars => Shape'
<1> SUFFICES ASSUME TypeOK, Shape, ExecShape, [Next]_vars PROVE Shape'
  OBVIOUS
<1> USE DEF Shape, Goto, Returns, process, command
<1>0. Error # None /\ Checked # None
  BY Results
<1>1. CASE ContextEnds \/ StartFails \/ OpenFile
  BY <1>0, <1>1 DEF ContextEnds, StartFails, OpenFile
<1>2. CASE ReadReturns \/ Filesystem
  BY <1>0, <1>2 DEF ReadReturns, Filesystem, ReadFile, ReadStops, Cancel, Canceled, Receive
<1>3. CASE StartCommand \/ CommandWrites \/ CommandForks \/ DescendantEnds
  BY <1>3 DEF StartCommand, CommandWrites, CommandForks, DescendantEnds
<1>4. CASE CommandExits \/ CopyStderr
  BY <1>4 DEF CommandExits, CopyStderr
<1>5. CASE CopyByte \/ CopyEnds \/ Watch
  BY <1>5 DEF CopyByte, CopyEnds, Watch, Kill, ExecShape
<1>6. CASE CopierEnds \/ Reap \/ StopWatcher \/ Waited
  BY <1>0, <1>6 DEF CopierEnds, Reap, StopWatcher, Waited
<1>7. CASE Respond \/ ReadBody \/ BodyEnds \/ Discarded \/ BodyBreaks \/ Abort
  BY <1>0, <1>7 DEF Respond, ReadBody, BodyEnds, Discarded, BodyBreaks, Abort
<1>8. CASE UNCHANGED vars
  BY <1>8 DEF vars
<1> QED
  BY <1>1, <1>2, <1>3, <1>4, <1>5, <1>6, <1>7, <1>8 DEF Next, Exec

\* So is what belongs to it in a call that runs a command.
LEMMA ExecShapeNext == TypeOK /\ Shape /\ ExecShape /\ [Next]_vars => ExecShape'
<1> SUFFICES ASSUME TypeOK, Shape, ExecShape, [Next]_vars PROVE ExecShape'
  OBVIOUS
<1> USE DEF TypeOK, ExecShape, Goto, Returns, process, command
<1>1. CASE ContextEnds \/ StartFails \/ OpenFile
  BY <1>1 DEF ContextEnds, StartFails, OpenFile, Shape
<1>2. CASE ReadReturns \/ Filesystem
  BY <1>2 DEF ReadReturns, Filesystem, ReadFile, ReadStops, Cancel, Canceled, Receive, Shape
<1>3. CASE StartCommand \/ CommandWrites \/ CommandForks \/ DescendantEnds
  BY <1>3 DEF StartCommand, CommandWrites, CommandForks, DescendantEnds, Shape
<1>4. CASE CommandExits \/ CopyStderr
  BY <1>4 DEF CommandExits, CopyStderr, Holds
<1>5. CASE CopyByte \/ CopyEnds \/ Watch
  BY <1>5 DEF CopyByte, CopyEnds, Watch, Kill
<1>6. CASE CopierEnds \/ Reap \/ StopWatcher \/ Waited
  BY <1>6 DEF CopierEnds, Reap, StopWatcher, Waited
<1>7. CASE Respond \/ ReadBody \/ BodyEnds \/ Discarded \/ BodyBreaks \/ Abort
  BY <1>7 DEF Respond, ReadBody, BodyEnds, Discarded, BodyBreaks, Abort, Shape
<1>8. CASE UNCHANGED vars
  BY <1>8 DEF vars
<1> QED
  BY <1>1, <1>2, <1>3, <1>4, <1>5, <1>6, <1>7, <1>8 DEF Next, Exec

\* An error found on the way has a cause: kept by every step.
LEMMA CausesNext == IInv /\ [Next]_vars => Causes'
<1> SUFFICES ASSUME IInv, [Next]_vars PROVE Causes'
  OBVIOUS
<1> USE DEF IInv, Causes, ErrorHasCause, Goto, Returns, process, command
<1>0. /\ Error # None /\ Checked # None
      /\ Checked = Error => written > MaxSize
  BY Results
<1>1. CASE ContextEnds \/ StartFails \/ OpenFile
  BY <1>0, <1>1 DEF ContextEnds, StartFails, OpenFile, Shape
<1>2. CASE ReadReturns \/ Filesystem
  <2>1. CASE ReadReturns \/ ReadFile
    BY <2>1 DEF ReadReturns, ReadFile
  <2>2. CASE ReadStops
    <3>1. open \/ pc = "cancel"
      BY <2>2 DEF ReadStops, Shape, TypeOK, PCs
    <3> QED
      BY <2>2, <3>1 DEF ReadStops
  <2>3. CASE Cancel \/ Canceled
    BY <1>0, <2>3 DEF Cancel, Canceled
  <2>4. CASE Receive
    BY <1>0, <2>4 DEF Receive
  <2> QED
    BY <1>2, <2>1, <2>2, <2>3, <2>4 DEF Filesystem
<1>3. CASE StartCommand \/ CommandWrites \/ CommandForks \/ DescendantEnds
  BY <1>3, LimitAssumption DEF StartCommand, CommandWrites, CommandForks, DescendantEnds, Shape, TypeOK
<1>4. CASE CommandExits \/ CopyStderr
  BY <1>4 DEF CommandExits, CopyStderr
<1>5. CASE CopyByte \/ CopyEnds \/ Watch
  BY <1>5, LimitAssumption DEF CopyByte, CopyEnds, Watch, Kill, TypeOK
<1>6. CASE CopierEnds \/ Reap \/ StopWatcher \/ Waited
  BY <1>0, <1>6 DEF CopierEnds, Reap, StopWatcher, Waited, ExecShape
<1>7. CASE Respond \/ ReadBody \/ BodyEnds \/ Discarded \/ BodyBreaks \/ Abort
  BY <1>0, <1>7 DEF Respond, ReadBody, BodyEnds, Discarded, BodyBreaks, Abort, Shape
<1>8. CASE UNCHANGED vars
  BY <1>8 DEF vars
<1> QED
  BY <1>1, <1>2, <1>3, <1>4, <1>5, <1>6, <1>7, <1>8 DEF Next, Exec

\* The inductive invariant of a call of any of the backends.
THEOREM Invariance == Spec => []IInv
<1>1. IInv /\ [Next]_vars => IInv'
  BY TypeNext, ShapeNext, ExecShapeNext, CausesNext DEF IInv
<1> QED
  BY InitInv, <1>1, PTL DEF Spec

\* Every variable has its type; in particular no more is read than was written.
THEOREM TypeCorrect == Spec => []TypeOK
<1>1. IInv => TypeOK
  BY DEF IInv
<1> QED
  BY Invariance, <1>1, PTL

\* No call fails without a cause outside of it, whatever the order in which
\* command, descendants, watcher, copier and caller take their steps.
THEOREM ErrorsAreTold == Spec => []ErrorHasCause
<1>1. IInv => ErrorHasCause
  BY DEF IInv, Causes
<1> QED
  BY Invariance, <1>1, PTL

\* A call that returned left no goroutine, descriptor, process or zombie.
THEOREM CleansUp == Spec => []NothingLeft
<1>1. IInv => NothingLeft
  BY DEF IInv, Shape, ExecShape, TypeOK, NothingLeft
<1> QED
  BY Invariance, <1>1, PTL

-----------------------------------------------------------------------------
(* All of the secret or an error, for a limit the arithmetic is right for. *)

\* What was read when the reading ended.
Complete == /\ reader = "read" => got > MaxSize \/ got = written
            /\ pc \in {"wait", "watch", "stderr"}
                 => got > MaxSize \/ (got = written /\ ~Holds("stdout"))
            /\ result \notin {None, Error} => Whole /\ result = Value(written)
                                                   /\ written <= MaxSize

WInv == IInv /\ Complete

\* Below the largest int64 a read stops at its limit with more than may be returned.
LEMMA EnoughIsTooMuch == MaxSize < MaxInt /\ TypeOK => (Enough <=> got > MaxSize)
BY LimitAssumption DEF Enough, Wrap, TypeOK

\* A command that wrote all does not write more.
LEMMA WholeStays ==
  IInv /\ Whole /\ [Next]_vars /\ backend = "exec" => Whole' /\ written' = written
<1> SUFFICES ASSUME IInv, Whole, [Next]_vars, backend = "exec"
             PROVE  Whole' /\ written' = written
  OBVIOUS
<1> USE DEF IInv, TypeOK, Shape, ExecShape, Whole, Holds, Goto, Returns, process, command
<1>1. CASE ContextEnds \/ StartFails \/ OpenFile
  BY <1>1 DEF ContextEnds, StartFails, OpenFile
<1>2. CASE ReadReturns \/ Filesystem
  BY <1>2 DEF ReadReturns, Filesystem, ReadFile, ReadStops, Cancel, Canceled, Receive
<1>3. CASE StartCommand \/ CommandWrites \/ CommandForks \/ DescendantEnds
  BY <1>3 DEF StartCommand, CommandWrites, CommandForks, DescendantEnds
<1>4. CASE CommandExits \/ CopyStderr
  BY <1>4 DEF CommandExits, CopyStderr
<1>5. CASE CopyByte \/ CopyEnds \/ Watch
  BY <1>5 DEF CopyByte, CopyEnds, Watch, Kill
<1>6. CASE CopierEnds \/ Reap \/ StopWatcher \/ Waited
  BY <1>6 DEF CopierEnds, Reap, StopWatcher, Waited
<1>7. CASE Respond \/ ReadBody \/ BodyEnds \/ Discarded \/ BodyBreaks \/ Abort
  BY <1>7 DEF Respond, ReadBody, BodyEnds, Discarded, BodyBreaks, Abort
<1>8. CASE UNCHANGED vars
  BY <1>8 DEF vars
<1> QED
  BY <1>1, <1>2, <1>3, <1>4, <1>5, <1>6, <1>7, <1>8 DEF Next, Exec

\* A body or a file does not change, and neither does the output of a call that
\* returned it.
LEMMA WrittenStays ==
  IInv /\ [Next]_vars /\ (backend # "exec" \/ Whole) => written' = written /\ backend' = backend
<1> SUFFICES ASSUME IInv, [Next]_vars, backend # "exec" \/ Whole
             PROVE  written' = written /\ backend' = backend
  OBVIOUS
<1>1. ~CommandWrites
  BY DEF CommandWrites, Holds, Whole, IInv, Shape, ExecShape
<1> QED
  BY <1>1 DEF Next, Exec, Filesystem, vars, ContextEnds, StartFails, OpenFile,
     ReadReturns, ReadFile, ReadStops, Cancel, Canceled, Receive, StartCommand,
     CommandForks, DescendantEnds, CommandExits, CopyStderr, CopyByte, CopyEnds, Watch,
     CopierEnds, Reap, StopWatcher, Waited, Respond, ReadBody, BodyEnds, Discarded,
     BodyBreaks, Abort

\* A result stays, and one that is no error was read to its end.
LEMMA ResultNext ==
  ASSUME IInv, Complete, [Next]_vars, MaxSize < MaxInt
  PROVE  \/ result' = result
         \/ result = None /\ result' = Error
         \/ /\ result = None /\ Whole /\ written' = written /\ backend' = backend
            /\ result' = Value(written) /\ written <= MaxSize /\ UNCHANGED process
<1> USE DEF IInv, Shape, Returns
<1>0. /\ Enough <=> got > MaxSize
      /\ got \in Nat /\ written \in Nat /\ MaxSize \in Nat
  BY EnoughIsTooMuch, LimitAssumption DEF TypeOK
<1>1. CASE StartFails \/ Canceled \/ Discarded \/ BodyBreaks \/ Abort
  BY <1>1 DEF StartFails, Canceled, Discarded, BodyBreaks, Abort
<1>2. CASE Receive
  <2>1. reader = "read" => Checked = Error \/ (Checked = Value(written) /\ written <= MaxSize)
    BY <1>0 DEF Complete, Checked
  <2> QED
    BY <1>2, <2>1 DEF Receive, Whole
<1>3. CASE BodyEnds
  <2>1. Checked = Error \/ (Checked = Value(written) /\ written <= MaxSize)
    BY <1>0, <1>3 DEF BodyEnds, Checked
  <2> QED
    BY <1>3, <2>1 DEF BodyEnds, Whole
<1>4. CASE Waited
  <2>1. CASE got > MaxSize
    BY <1>4, <2>1 DEF Waited, Checked
  <2>2. CASE got = written /\ ~Holds("stdout") /\ got <= MaxSize
    <3>1. Checked = Value(written) /\ written <= MaxSize
      BY <1>0, <2>2 DEF Checked
    <3>2. status # "failed" => Whole
      BY <1>4, <2>2 DEF Waited, Whole, ExecShape, TypeOK
    <3> QED
      BY <1>4, <3>1, <3>2 DEF Waited
  <2> QED
    BY <1>0, <1>4, <2>1, <2>2 DEF Waited, Complete
<1> QED
  BY <1>1, <1>2, <1>3, <1>4 DEF Next, Exec, Filesystem, vars, ContextEnds, OpenFile,
     ReadReturns, ReadFile, ReadStops, Cancel, StartCommand, CommandWrites, CommandForks,
     DescendantEnds, CommandExits, CopyStderr, CopyByte, CopyEnds, Watch, CopierEnds, Reap,
     StopWatcher, Respond, ReadBody

\* What is known about how much of the source was read is kept by every step.
LEMMA CompleteNext == MaxSize < MaxInt /\ WInv /\ [Next]_vars => Complete'
<1> SUFFICES ASSUME MaxSize < MaxInt, IInv, Complete, [Next]_vars PROVE Complete'
  BY DEF WInv
<1> USE DEF Goto, Returns, process, command
<1>0. /\ Enough <=> got > MaxSize
      /\ got \in Nat /\ written \in Nat /\ MaxSize \in Nat
      /\ Error # None
  BY EnoughIsTooMuch, Results, LimitAssumption DEF IInv, TypeOK
<1>1. (reader = "read" => got > MaxSize \/ got = written)'
  BY <1>0 DEF IInv, Shape, ExecShape, Complete, Next, Exec, Filesystem, vars, ContextEnds, StartFails, OpenFile,
     ReadReturns, ReadFile, ReadStops, Cancel, Canceled, Receive, StartCommand, CommandWrites, Holds,
     CommandForks, DescendantEnds, CommandExits, CopyStderr, CopyByte, CopyEnds, Watch,
     CopierEnds, Reap, StopWatcher, Waited, Respond, ReadBody, BodyEnds, Discarded,
     BodyBreaks, Abort
<1>2. (pc \in {"wait", "watch", "stderr"}
        => got > MaxSize \/ (got = written /\ ~Holds("stdout")))'
  <2>1. CASE CopyEnds
    BY <1>0, <2>1 DEF CopyEnds, Kill, Holds
  <2>2. CASE Reap \/ StopWatcher \/ Watch
    BY <2>2 DEF Reap, StopWatcher, Watch, Kill, Holds, Complete
  <2>3. CASE CommandWrites \/ CommandForks \/ DescendantEnds \/ CommandExits
    BY <1>0, <2>3 DEF CommandWrites, CommandForks, DescendantEnds, CommandExits, Holds, Complete
  <2>4. CASE UNCHANGED <<pc, got, written, child, kept>>
    BY <2>4 DEF Holds, Complete
  <2>5. CASE pc' \notin {"wait", "watch", "stderr"}
    BY <2>5
  <2> QED
    BY <2>1, <2>2, <2>3, <2>4, <2>5 DEF IInv, Shape, Next, Exec, Filesystem, vars, ContextEnds, StartFails, OpenFile,
     ReadReturns, ReadFile, ReadStops, Cancel, Canceled, Receive, StartCommand,
     CopyStderr, CopyByte, CopierEnds, Waited, Respond, ReadBody, BodyEnds, Discarded,
     BodyBreaks, Abort
<1>3. (result \notin {None, Error} => /\ Whole /\ result = Value(written)
                                     /\ written <= MaxSize)'
  <2>1. CASE result' = result
    <3>1. CASE result \in {None, Error}
      BY <2>1, <3>1 DEF Error
    <3>2. CASE result \notin {None, Error}
      <4>1. Whole /\ result = Value(written) /\ written <= MaxSize
        BY <3>2 DEF Complete
      <4>2. written' = written /\ backend' = backend
        BY <4>1, WrittenStays
      <4>3. Whole'
        BY <4>1, <4>2, WholeStays DEF Whole
      <4> QED
        BY <2>1, <4>1, <4>2, <4>3 DEF Value
    <3> QED
      BY <3>1, <3>2
  <2>2. CASE result' = Error
    BY <2>2 DEF Error
  <2>3. CASE /\ Whole /\ written' = written /\ backend' = backend
             /\ result' = Value(written) /\ written <= MaxSize /\ UNCHANGED process
    BY <2>3 DEF Whole, Holds, Value
  <2> QED
    BY <2>1, <2>2, <2>3, ResultNext
<1> QED
  BY <1>1, <1>2, <1>3 DEF Complete

\* The invariant with completeness, for the limits below the largest int64.
LEMMA WInvariance == ASSUME MaxSize < MaxInt PROVE Spec => []WInv
<1>1. Init => Complete
  BY DEF Init, Complete
<1>2. Init => WInv
  BY <1>1, InitInv DEF WInv
<1>3. WInv /\ [Next]_vars => WInv'
  BY TypeNext, ShapeNext, ExecShapeNext, CausesNext, CompleteNext DEF IInv, WInv
<1> QED
  BY <1>2, <1>3, PTL DEF Spec

\* With a limit below the largest integer, a secret that was not read to its end is
\* never returned.
THEOREM NothingCutOff == ASSUME MaxSize < MaxInt PROVE Spec => []OverflowDetected
<1>1. WInv => OverflowDetected
  BY DEF WInv, Complete, OverflowDetected
<1> QED
  BY WInvariance, <1>1, PTL

\* Nor the output of a command that failed, was killed or still writes: the three
\* backends implement the call that handleGetSecret expects.
THEOREM Refinement == ASSUME MaxSize < MaxInt PROVE Spec => ImplementsBackendCall
<1>1. Init => C!Init
  BY SizeAssumption DEF Init, C!Init, Whole
<1>2. WInv /\ [Next]_vars => [C!Next]_(C!vars)
  <2> SUFFICES ASSUME WInv, [Next]_vars PROVE [C!Next]_(C!vars)
    OBVIOUS
  <2> DEFINE offer == IF Whole THEN written ELSE None
  <2>0. IInv /\ Complete /\ written \in Nat /\ C!Error = Error
    BY DEF WInv, IInv, TypeOK, C!Error, Error
  <2>1. TypeOK'
    BY <2>0, TypeNext DEF IInv
  <2>2. CASE result' = result
    <3>1. CASE Whole
      <4>1. written' = written /\ backend' = backend
        BY <2>0, <3>1, WrittenStays
      <4>2. Whole'
        BY <2>0, <3>1, <4>1, WholeStays DEF Whole
      <4> QED
        BY <2>2, <3>1, <4>1, <4>2 DEF C!vars
    <3>2. CASE ~Whole /\ Whole'
      <4>1. written' \in Nat
        BY <2>1 DEF TypeOK
      <4> QED
        BY <2>2, <3>2, <4>1 DEF C!Offer, C!Next
    <3>3. CASE ~Whole /\ ~Whole'
      BY <2>2, <3>3 DEF C!vars
    <3> QED
      BY <3>1, <3>2, <3>3
  <2>3. CASE result = None /\ result' = Error
    <3>1. UNCHANGED offer
      <4>1. UNCHANGED <<written, child, status, kept, backend>> \/ CopyEnds \/ StartFails
        BY <2>0, <2>3, NoneAssumption, Results DEF IInv, Shape, Next, Exec, Filesystem, vars, process,
           command, Returns, Goto, ContextEnds, OpenFile, ReadReturns, ReadFile, ReadStops, Cancel,
           Canceled, Receive, StartCommand, CommandWrites, CommandForks, DescendantEnds,
           CommandExits, CopyStderr, CopyByte, Watch, CopierEnds, Reap, StopWatcher, Waited,
           Respond, ReadBody, BodyEnds, Discarded, BodyBreaks, Abort
      <4>2. ~CopyEnds
        BY <2>0, <2>3, Results DEF CopyEnds, IInv
      <4>3. UNCHANGED <<written, child, status, kept, backend>>
        BY <4>1, <4>2 DEF StartFails, process
      <4> QED
        BY <4>3 DEF Whole, Holds
    <3> QED
      BY <2>0, <2>3, <3>1 DEF C!Return, C!Next
  <2>4. CASE /\ result = None /\ Whole /\ written' = written /\ backend' = backend
             /\ result' = Value(written) /\ written <= MaxSize /\ UNCHANGED process
    <3>1. Whole'
      BY <2>4 DEF Whole, Holds, process
    <3>2. written # None
      BY <2>0, NoneAssumption
    <3>3. C!Value(written) = Value(written)
      BY DEF C!Value, Value
    <3> QED
      BY <2>4, <3>1, <3>2, <3>3 DEF C!Return, C!Next
  <2> QED
    BY <2>0, <2>2, <2>3, <2>4, ResultNext
<1> QED
  BY <1>1, <1>2, WInvariance, PTL DEF Spec, C!Spec, ImplementsBackendCall
=============================================================================
