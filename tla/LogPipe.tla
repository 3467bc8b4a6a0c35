------------------------------ MODULE LogPipe ------------------------------
(***************************************************************************)
(* The log of one container (procri/pkg/runtimeservice/logpipe.go): one    *)
(* goroutine per output stream copies lines from a pipe to the log file,   *)
(* and trackContainerProcess waits for both before it waits for the        *)
(* program.                                                                *)
(*                                                                         *)
(* The program, and at most one helper that inherited its streams, hold    *)
(* the write ends.  A pipe holds Capacity bytes and blocks its writers     *)
(* when it is full.  cmd.Wait closes the read ends.  Bytes are newlines or *)
(* text; a position is a number of bytes of a stream; the timestamps that  *)
(* the log shows are dropped.                                              *)
(***************************************************************************)
EXTENDS Naturals, SequencesExt

CONSTANTS
  Stream,    \* "stdout" and "stderr"
  Byte,      \* what a program writes
  Newline,   \* the byte that ends a line
  Capacity,  \* bytes a pipe holds
  MaxBytes   \* bound on the bytes written to a stream

ASSUME NewlineAssumption == Newline \in Byte
ASSUME SizeAssumption == Capacity \in Nat \ {0} /\ MaxBytes \in Nat

Program == {"main", "helper"}

VARIABLES
  main,     \* the container's main program
  writers,  \* the programs that hold the write end of a stream
  written,  \* all that was written to a stream
  buffered, \* how much of it is out of the pipe, in the copier's bufio.Reader
  taken,    \* how much of it ReadString has returned
  copier,   \* the goroutine of a stream
  log,      \* the lines of the log file, each a stream and its positions
  disk,     \* whether writes to the log file still succeed
  tracker   \* trackContainerProcess

programs == <<main, writers, written>>
copying == <<buffered, taken, copier, log>>
vars == <<programs, copying, disk, tracker>>

Init ==
  /\ main = "alive"
  /\ \E inherited \in SUBSET Stream :
       writers = [s \in Stream |-> IF s \in inherited THEN Program ELSE {"main"}]
  /\ written = [s \in Stream |-> <<>>]
  /\ buffered = [s \in Stream |-> 0]
  /\ taken = [s \in Stream |-> 0]
  /\ copier = [s \in Stream |-> "read"]
  /\ log = <<>>
  /\ disk = "ok"
  /\ tracker = "pipes"

\* An operator Wrong_X is no part of the specification: it is X with a plausible
\* bug, and a property that is listed for it fails when it takes X's place.

-----------------------------------------------------------------------------
(***************************************************************************)
(* The programs and the disk.                                              *)
(***************************************************************************)
inPipe(s) == Len(written[s]) - buffered[s]

Write(s) ==
  /\ writers[s] # {}
  /\ inPipe(s) < Capacity /\ Len(written[s]) < MaxBytes
  /\ \E b \in Byte : written' = [written EXCEPT ![s] = Append(@, b)]
  /\ UNCHANGED <<main, writers, copying, disk, tracker>>

\* A program closes one of its streams, or exits and closes all of them.
Close(s) ==
  /\ \E p \in writers[s] : writers' = [writers EXCEPT ![s] = @ \ {p}]
  /\ UNCHANGED <<main, written, copying, disk, tracker>>

MainExits ==
  /\ main = "alive"
  /\ main' = "zombie"
  /\ writers' = [s \in Stream |-> writers[s] \ {"main"}]
  /\ UNCHANGED <<written, copying, disk, tracker>>

DiskFills ==
  /\ disk = "ok"
  /\ disk' = "full"
  /\ UNCHANGED <<programs, copying, tracker>>

-----------------------------------------------------------------------------
(***************************************************************************)
(* pipeOutputToLogFile, once per stream.                                   *)
(***************************************************************************)

\* The read ends are open until cmd.Wait returns.
readable == tracker # "read"

Fill(s) ==
  /\ copier[s] = "read" /\ readable
  /\ \E n \in (buffered[s] + 1)..Len(written[s]) : buffered' = [buffered EXCEPT ![s] = n]
  /\ UNCHANGED <<programs, taken, copier, log, disk, tracker>>

\* Where the lines end that are complete in the buffer.
Wrong_newlines(s) == {n \in (taken[s] + 1)..buffered[s] : n = buffered[s]}
newlines(s) == {n \in (taken[s] + 1)..buffered[s] : written[s][n] = Newline}

\* ReadString returns a line, and Fprintf writes it.
ReadLine(s) ==
  /\ copier[s] = "read" /\ newlines(s) # {}
  /\ copier' = [copier EXCEPT ![s] = "print"]
  /\ UNCHANGED <<programs, buffered, taken, log, disk, tracker>>

Wrong_printed(s) == IF disk = "ok" THEN "read" ELSE "done"
printed(s) == "read"

PrintLine(s) ==
  /\ copier[s] = "print"
  /\ \E n \in newlines(s) :
       /\ \A m \in newlines(s) : n <= m
       /\ taken' = [taken EXCEPT ![s] = n]
       /\ log' = IF disk = "ok" THEN Append(log, [stream |-> s, from |-> taken[s] + 1, to |-> n])
                 ELSE log
  /\ copier' = [copier EXCEPT ![s] = printed(s)]
  /\ UNCHANGED <<programs, buffered, disk, tracker>>

\* ReadString returns an error when the pipe is at its end, or closed.  What
\* it has of a line then is dropped.
Wrong_atEnd(s) == writers[s] = {} /\ taken[s] = Len(written[s])
atEnd(s) == (writers[s] = {} /\ inPipe(s) = 0) \/ ~readable

Stop(s) ==
  /\ copier[s] = "read" /\ newlines(s) = {} /\ atEnd(s)
  /\ copier' = [copier EXCEPT ![s] = "done"]
  /\ UNCHANGED <<programs, buffered, taken, log, disk, tracker>>

-----------------------------------------------------------------------------
(***************************************************************************)
(* trackContainerProcess, up to where RuntimeService's TrackerRead goes on.*)
(***************************************************************************)
Wrong_PipesWait ==
  /\ tracker = "pipes"
  /\ \E s \in Stream : copier[s] = "done"
  /\ tracker' = "program"
  /\ UNCHANGED <<programs, copying, disk>>

PipesWait ==
  /\ tracker = "pipes"
  /\ \A s \in Stream : copier[s] = "done"
  /\ tracker' = "program"
  /\ UNCHANGED <<programs, copying, disk>>

Wrong_ProgramWait ==
  /\ tracker = "pipes"
  /\ main = "zombie"
  /\ main' = "reaped"
  /\ tracker' = "read"
  /\ UNCHANGED <<writers, written, copying, disk>>

\* cmd.Wait reaps the program and closes the read ends.
ProgramWait ==
  /\ tracker = "program"
  /\ main = "zombie"
  /\ main' = "reaped"
  /\ tracker' = "read"
  /\ UNCHANGED <<writers, written, copying, disk>>

Copier(s) == Fill(s) \/ ReadLine(s) \/ PrintLine(s) \/ Stop(s)
Tracker == PipesWait \/ ProgramWait

Next ==
  \/ \E s \in Stream : Write(s) \/ Close(s) \/ Copier(s)
  \/ MainExits \/ DiskFills
  \/ Tracker

\* Goroutines are scheduled; no program has to write, close or exit.
Fairness == WF_vars(Tracker) /\ \A s \in Stream : WF_vars(Copier(s))

Spec == Init /\ [][Next]_vars
FairSpec == Spec /\ Fairness

-----------------------------------------------------------------------------
\* Pipes, buffers and positions are consistent with what was written.
TypeOK ==
  /\ main \in {"alive", "zombie", "reaped"}
  /\ writers \in [Stream -> SUBSET Program]
  /\ written \in [Stream -> Seq(Byte)]
  /\ buffered \in [Stream -> Nat] /\ taken \in [Stream -> Nat]
  /\ \A s \in Stream : taken[s] <= buffered[s] /\ buffered[s] <= Len(written[s])
  /\ copier \in [Stream -> {"read", "print", "done"}]
  /\ log \in Seq([stream : Stream, from : Nat, to : Nat])
  /\ disk \in {"ok", "full"}
  /\ tracker \in {"pipes", "program", "read"}

\* A position of a stream that ends a line, and a line that the log has.
ends(s, n) == n \in 1..Len(written[s]) /\ written[s][n] = Newline
logged(s, n) == \E i \in DOMAIN log : log[i].stream = s /\ log[i].to = n

\* However the two copiers interleave, an entry of the log is one whole line
\* of one stream, and the lines of a stream are in the order it wrote them.
LogIsLines ==
  /\ \A i \in DOMAIN log :
       LET s == log[i].stream IN
       /\ ends(s, log[i].to)
       /\ \A n \in (log[i].from)..(log[i].to - 1) : ~ends(s, n)
  /\ \A i, j \in DOMAIN log :
       i < j /\ log[i].stream = log[j].stream => log[i].to < log[j].from

\* Before trackContainerProcess reports the exit, nobody can write any more
\* and every line of both streams is in the log, unless the disk is full.
ExitedIsLogged ==
  tracker = "read" =>
    \A s \in Stream :
      /\ writers[s] = {}
      /\ disk = "ok" => \A n \in 1..Len(written[s]) : ends(s, n) => logged(s, n)

\* Every line that is written reaches the log, while the programs go on.
LinesAreLogged ==
  \A s \in Stream, n \in 1..MaxBytes : ends(s, n) ~> logged(s, n) \/ disk = "full"

\* No program is blocked by a full pipe for ever, not even when the log cannot
\* be written any more.
WritersGoOn == \A s \in Stream : inPipe(s) = Capacity ~> inPipe(s) < Capacity

\* Once the program has exited and nobody holds its streams its exit is
\* reported, whatever was left of a last line without a newline.
ExitIsSeen ==
  main = "zombie" /\ (\A s \in Stream : writers[s] = {}) ~> tracker = "read"
=============================================================================
