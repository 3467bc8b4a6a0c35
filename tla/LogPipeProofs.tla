--------------------------- MODULE LogPipeProofs ---------------------------
(***************************************************************************)
(* The log pipe for streams, lines and pipes of any size.                  *)
(***************************************************************************)
EXTENDS LogPipeTracker, TLAPS

\* A goroutine that has stopped has seen the end of its stream and left no
\* complete line behind, and the tracker goes on only after both have.
StreamsOver ==
  /\ \A s \in Stream : copier[s] = "done"
       => writers[s] = {} /\ buffered[s] = Len(written[s]) /\ newlines(s) = {}
  /\ tracker # "pipes" => \A s \in Stream : copier[s] = "done"

\* The lines that ReadString has returned are in the log, and no others.
TakenLogged ==
  /\ disk = "ok" => \A s \in Stream : \A n \in 1..taken[s] : ends(s, n) => logged(s, n)
  /\ \A i \in DOMAIN log : log[i].to <= taken[log[i].stream]

Inv == TypeOK /\ StreamsOver /\ TakenLogged /\ LogIsLines

-----------------------------------------------------------------------------
\* What was written stays written; only a program that holds a stream adds to
\* it.
LEMMA WrittenGrows ==
  ASSUME TypeOK, NEW s \in Stream, Write(s)
  PROVE  /\ written' \in [Stream -> Seq(Byte)]
         /\ \A t \in Stream :
              /\ Len(written[t]) <= Len(written'[t])
              /\ \A n \in 1..Len(written[t]) : written'[t][n] = written[t][n]
         /\ \A t \in Stream : writers[t] = {} => written'[t] = written[t]
<1>1. PICK b \in Byte : written' = [written EXCEPT ![s] = Append(@, b)]
  BY DEF Write
<1>2. written \in [Stream -> Seq(Byte)] /\ writers[s] # {}
  BY DEF TypeOK, Write
<1>3. written[s] \in Seq(Byte)
  BY <1>2
<1>4. Append(written[s], b) \in Seq(Byte) /\ Len(Append(written[s], b)) = Len(written[s]) + 1
      /\ \A n \in 1..Len(written[s]) : Append(written[s], b)[n] = written[s][n]
      /\ Len(written[s]) \in Nat
  BY <1>3
<1>5. written'[s] = Append(written[s], b) /\ \A t \in Stream : t # s => written'[t] = written[t]
  BY <1>1, <1>2
<1>6. \A t \in Stream : Len(written[t]) \in Nat
  BY <1>2
<1> DEFINE w == Append(written[s], b)
<1>7. w \in Seq(Byte) /\ written' = [written EXCEPT ![s] = w]
  BY <1>1, <1>4
<1> HIDE DEF w
<1>8. written' \in [Stream -> Seq(Byte)]
  BY <1>2, <1>7
<1>9. ASSUME NEW t \in Stream
      PROVE  /\ Len(written[t]) <= Len(written'[t])
             /\ \A n \in 1..Len(written[t]) : written'[t][n] = written[t][n]
             /\ writers[t] = {} => written'[t] = written[t]
  <2>1. CASE t = s
    <3>1. written'[t] = w
      BY <1>5, <2>1 DEF w
    <3>2. Len(w) = Len(written[t]) + 1 /\ \A n \in 1..Len(written[t]) : w[n] = written[t][n]
      BY <1>4, <2>1 DEF w
    <3> QED  BY <1>2, <1>6, <2>1, <3>1, <3>2
  <2>2. CASE t # s
    BY <1>5, <1>6, <2>2
  <2> QED  BY <2>1, <2>2
<1> QED  BY <1>8, <1>9

Line == [stream : Stream, from : Nat, to : Nat]

\* The log is a sequence of lines, and so is a log with one more.
LEMMA LogLines ==
  ASSUME TypeOK
  PROVE  /\ \A i \in DOMAIN log : log[i] \in Line
         /\ \A line \in Line : Append(log, line) \in Seq(Line)
<1>1. log \in Seq(Line)
  BY DEF TypeOK, Line
<1> QED  BY <1>1

\* The types are kept by every step.
LEMMA TypeStep == TypeOK /\ [Next]_vars => TypeOK'
<1> SUFFICES ASSUME TypeOK, [Next]_vars PROVE TypeOK'  OBVIOUS
<1> USE DEF TypeOK
<1>0. \A s \in Stream : Len(written[s]) \in Nat
  OBVIOUS
<1>1. ASSUME NEW s \in Stream, Write(s) PROVE TypeOK'
  <2>1. UNCHANGED <<main, writers, copying, disk, tracker>>
    BY <1>1 DEF Write
  <2>2. \A t \in Stream : Len(written'[t]) \in Nat
    BY <1>1, WrittenGrows
  <2> QED  BY <1>0, <1>1, <2>1, <2>2, WrittenGrows DEF copying
<1>2. ASSUME NEW s \in Stream, Close(s) PROVE TypeOK'
  BY <1>2 DEF Close, copying, Program
<1>3. ASSUME NEW s \in Stream, Fill(s) PROVE TypeOK'
  <2>1. PICK n \in (buffered[s] + 1)..Len(written[s]) : buffered' = [buffered EXCEPT ![s] = n]
    BY <1>3 DEF Fill
  <2>2. n \in Nat /\ buffered[s] < n /\ n <= Len(written[s]) /\ taken[s] <= n
    BY <1>0, <2>1
  <2>3. UNCHANGED <<programs, taken, copier, log, disk, tracker>>
    BY <1>3 DEF Fill
  <2> QED  BY <2>1, <2>2, <2>3 DEF programs
<1>4. ASSUME NEW s \in Stream, ReadLine(s) PROVE TypeOK'
  BY <1>4 DEF ReadLine, programs
<1>5. ASSUME NEW s \in Stream, PrintLine(s) PROVE TypeOK'
  <2>1. PICK n \in newlines(s) :
          /\ taken' = [taken EXCEPT ![s] = n]
          /\ log' = IF disk = "ok"
                    THEN Append(log, [stream |-> s, from |-> taken[s] + 1, to |-> n]) ELSE log
    BY <1>5 DEF PrintLine
  <2>2. n \in Nat /\ n <= buffered[s] /\ taken[s] + 1 \in Nat
    BY <2>1 DEF newlines
  <2>3. log' \in Seq([stream : Stream, from : Nat, to : Nat])
    <3>1. [stream |-> s, from |-> taken[s] + 1, to |-> n] \in Line
      BY <2>2 DEF Line
    <3>2. log \in Seq(Line)
      BY DEF Line
    <3>3. log' \in Seq(Line)
      BY <2>1, <3>1, <3>2, LogLines
    <3> QED  BY <3>3 DEF Line
  <2>4. copier' = [copier EXCEPT ![s] = "read"] /\ UNCHANGED <<programs, buffered, disk, tracker>>
    BY <1>5 DEF PrintLine, printed
  <2> QED  BY <2>1, <2>2, <2>3, <2>4 DEF programs
<1>6. ASSUME NEW s \in Stream, Stop(s) PROVE TypeOK'
  BY <1>6 DEF Stop, programs
<1>7. CASE MainExits
  BY <1>7 DEF MainExits, copying, Program
<1>8. CASE DiskFills
  BY <1>8 DEF DiskFills, programs, copying
<1>9. CASE Tracker
  BY <1>9 DEF Tracker, PipesWait, ProgramWait, programs, copying
<1>10. CASE UNCHANGED vars
  BY <1>10 DEF vars, programs, copying
<1> QED
  BY <1>1, <1>2, <1>3, <1>4, <1>5, <1>6, <1>7, <1>8, <1>9, <1>10 DEF Next, Copier

\* A stream whose goroutine has stopped is at its end and stays there.
LEMMA OverStep == Inv /\ [Next]_vars => StreamsOver'
<1> SUFFICES ASSUME Inv, [Next]_vars PROVE StreamsOver'  OBVIOUS
<1> DEFINE Over(s) == writers[s] = {} /\ buffered[s] = Len(written[s]) /\ newlines(s) = {}
<1>1. ASSUME NEW s \in Stream, Over(s), writers'[s] \subseteq writers[s],
             written'[s] = written[s], buffered'[s] = buffered[s], taken'[s] = taken[s]
      PROVE  Over(s)'
  BY <1>1 DEF newlines
<1>2. ASSUME \A s \in Stream : copier'[s] = "done" =>
               /\ Over(s)
               /\ writers'[s] \subseteq writers[s]
               /\ written'[s] = written[s] /\ buffered'[s] = buffered[s] /\ taken'[s] = taken[s]
      PROVE  \A s \in Stream : copier'[s] = "done" => Over(s)'
  BY <1>1, <1>2
<1> HIDE DEF Over
<1>3. \A s \in Stream : copier[s] = "done" => Over(s)
  BY DEF Inv, StreamsOver, Over
<1>4. ASSUME NEW s \in Stream, Write(s) PROVE StreamsOver'
  <2>1. UNCHANGED <<main, writers, copying, disk, tracker>>
    BY <1>4 DEF Write
  <2>2. \A t \in Stream : copier[t] = "done" => written'[t] = written[t]
    BY <1>3, <1>4, WrittenGrows DEF Over, Inv
  <2>3. \A t \in Stream : copier'[t] = "done" => Over(t)'
    BY <1>2, <1>3, <2>1, <2>2 DEF copying
  <2> QED  BY <2>1, <2>3 DEF Inv, StreamsOver, copying, Over
<1>5. ASSUME NEW s \in Stream, Close(s) PROVE StreamsOver'
  <2>1. \A t \in Stream : writers'[t] \subseteq writers[t]
    BY <1>5 DEF Close, Inv, TypeOK
  <2>2. \A t \in Stream : copier'[t] = "done" => Over(t)'
    BY <1>2, <1>3, <1>5, <2>1 DEF Close, copying
  <2> QED  BY <1>5, <2>2 DEF Inv, StreamsOver, Close, copying, Over
<1>6. ASSUME NEW s \in Stream, Fill(s) \/ ReadLine(s) \/ PrintLine(s) \/ Stop(s)
      PROVE  StreamsOver'
  <2>1. UNCHANGED <<programs, tracker>> /\ copier[s] # "done" /\ tracker = "pipes"
    BY <1>6 DEF Fill, ReadLine, PrintLine, Stop, Inv, StreamsOver
  <2>2. \A t \in Stream : t # s =>
          copier'[t] = copier[t] /\ buffered'[t] = buffered[t] /\ taken'[t] = taken[t]
    BY <1>6 DEF Fill, ReadLine, PrintLine, Stop, Inv, TypeOK
  <2>3. copier'[s] = "done" => /\ Over(s)
                               /\ buffered'[s] = buffered[s] /\ taken'[s] = taken[s]
    <3>1. ~Stop(s) => copier'[s] # "done"
      BY <1>6 DEF Fill, ReadLine, PrintLine, Inv, TypeOK, printed
    <3>2. ASSUME Stop(s)
          PROVE  Over(s) /\ buffered'[s] = buffered[s] /\ taken'[s] = taken[s]
      <4>1. writers[s] = {} /\ Len(written[s]) - buffered[s] = 0 /\ newlines(s) = {}
        BY <2>1, <3>2 DEF Stop, atEnd, inPipe, readable
      <4>2. Len(written[s]) \in Nat /\ buffered[s] \in Nat
        BY DEF Inv, TypeOK
      <4> QED  BY <3>2, <4>1, <4>2 DEF Stop, Over
    <3> QED  BY <3>1, <3>2
  <2>4. \A t \in Stream : copier'[t] = "done" => Over(t)'
    BY <1>2, <1>3, <2>1, <2>2, <2>3 DEF programs
  <2> QED  BY <2>1, <2>4 DEF StreamsOver, Over
<1>7. CASE MainExits
  <2>1. \A t \in Stream : writers'[t] \subseteq writers[t]
    BY <1>7 DEF MainExits
  <2>2. \A t \in Stream : copier'[t] = "done" => Over(t)'
    BY <1>2, <1>3, <1>7, <2>1 DEF MainExits, copying
  <2> QED  BY <1>7, <2>2 DEF Inv, StreamsOver, MainExits, copying, Over
<1>8. CASE DiskFills \/ Tracker \/ UNCHANGED vars
  <2>1. UNCHANGED <<writers, written, copying>>
    BY <1>8 DEF DiskFills, Tracker, PipesWait, ProgramWait, programs, vars
  <2>2. \A t \in Stream : copier'[t] = "done" => Over(t)'
    BY <1>2, <1>3, <2>1 DEF copying
  <2>3. tracker' # "pipes" => \A t \in Stream : copier[t] = "done"
    BY <1>8 DEF DiskFills, Tracker, PipesWait, ProgramWait, vars, Inv, StreamsOver
  <2> QED  BY <2>1, <2>2, <2>3 DEF StreamsOver, copying, Over
<1> QED  BY <1>4, <1>5, <1>6, <1>7, <1>8 DEF Next, Copier

\* The log stays what the copiers have taken when a step only adds to what is
\* written, or leaves it alone.
LEMMA LogStays ==
  ASSUME Inv, UNCHANGED <<taken, log>>, disk' = "ok" => disk = "ok",
         \A t \in Stream : /\ Len(written'[t]) \in Nat /\ Len(written[t]) <= Len(written'[t])
                           /\ \A n \in 1..Len(written[t]) : written'[t][n] = written[t][n]
  PROVE  TakenLogged' /\ LogIsLines'
<1>1. /\ \A t \in Stream : /\ taken[t] \in Nat /\ Len(written[t]) \in Nat
                           /\ taken[t] <= Len(written[t])
      /\ \A i \in DOMAIN log : /\ log[i].stream \in Stream
                               /\ log[i].from \in Nat /\ log[i].to \in Nat
                               /\ log[i].to <= taken[log[i].stream]
  <2>1. \A t \in Stream : taken[t] \in Nat /\ Len(written[t]) \in Nat /\ taken[t] <= Len(written[t])
    BY DEF Inv, TypeOK
  <2>2. \A i \in DOMAIN log : log[i] \in Line
    BY LogLines DEF Inv
  <2>3. \A i \in DOMAIN log : log[i].to <= taken[log[i].stream]
    BY DEF Inv, TakenLogged
  <2> QED  BY <2>1, <2>2, <2>3 DEF Line
<1>2. ASSUME NEW t \in Stream, NEW n \in Int, n <= Len(written[t]) PROVE ends(t, n)' <=> ends(t, n)
  BY <1>1, <1>2 DEF ends
<1>3. TakenLogged'
  <2>1. \A t \in Stream : \A n \in 1..taken[t] : ends(t, n)' <=> ends(t, n)
    BY <1>1, <1>2
  <2> QED  BY <2>1 DEF Inv, TakenLogged, logged
<1>4. ASSUME NEW i \in DOMAIN log, NEW n \in Int, n <= log[i].to
      PROVE  ends(log[i].stream, n)' <=> ends(log[i].stream, n)
  BY <1>1, <1>2, <1>4
<1>5. ASSUME NEW i \in DOMAIN log
      PROVE  /\ ends(log[i].stream, log[i].to)'
             /\ \A n \in (log[i].from)..(log[i].to - 1) : ~ends(log[i].stream, n)'
  BY <1>1, <1>4 DEF Inv, LogIsLines
<1>6. LogIsLines'
  BY <1>5 DEF Inv, LogIsLines, ends
<1> QED  BY <1>3, <1>6

\* The line a copier prints is the next one of its stream.
LEMMA LogGrows ==
  ASSUME Inv, NEW s \in Stream, PrintLine(s)
  PROVE  TakenLogged' /\ LogIsLines'
<1>1. PICK n \in newlines(s) :
        /\ \A m \in newlines(s) : n <= m
        /\ taken' = [taken EXCEPT ![s] = n]
        /\ log' = IF disk = "ok"
                  THEN Append(log, [stream |-> s, from |-> taken[s] + 1, to |-> n]) ELSE log
  BY DEF PrintLine
<1>2. /\ \A t \in Stream : taken[t] \in Nat /\ buffered[t] \in Nat /\ Len(written[t]) \in Nat
                           /\ buffered[t] <= Len(written[t])
      /\ log \in Seq([stream : Stream, from : Nat, to : Nat])
      /\ taken \in [Stream -> Nat]
  BY DEF Inv, TypeOK
<1>3. n \in Nat /\ taken[s] < n /\ n <= buffered[s] /\ written[s][n] = Newline
  BY <1>1, <1>2 DEF newlines
<1>4. ends(s, n) /\ \A m \in (taken[s] + 1)..(n - 1) : ~ends(s, m)
  BY <1>1, <1>2, <1>3 DEF ends, newlines
<1>5. UNCHANGED <<written, disk>>
  BY DEF PrintLine, programs
<1>6. \A t \in Stream : \A m : ends(t, m)' <=> ends(t, m)
  BY <1>5 DEF ends
<1>7. \A t \in Stream : taken'[t] = IF t = s THEN n ELSE taken[t]
  BY <1>1, <1>2
<1>8. \A i \in DOMAIN log : /\ log[i].stream \in Stream /\ log[i].to \in Nat
                            /\ log[i].to <= taken[log[i].stream]
                            /\ log[i].to <= taken'[log[i].stream]
  <2> SUFFICES ASSUME NEW i \in DOMAIN log
               PROVE  /\ log[i].stream \in Stream /\ log[i].to \in Nat
                      /\ log[i].to <= taken[log[i].stream]
                      /\ log[i].to <= taken'[log[i].stream]
    OBVIOUS
  <2>1. /\ log[i].stream \in Stream /\ log[i].to \in Nat
        /\ log[i].to <= taken[log[i].stream]
    BY LogLines DEF Inv, TakenLogged, Line
  <2>2. taken[log[i].stream] \in Nat /\ taken'[log[i].stream] \in Nat
        /\ taken[log[i].stream] <= taken'[log[i].stream]
    <3>1. ASSUME NEW t \in Stream
          PROVE  taken[t] \in Nat /\ taken'[t] \in Nat /\ taken[t] <= taken'[t]
      <4>1. taken[t] \in Nat
        BY <1>2
      <4>2. CASE t = s
        <5>1. taken'[t] = n
          BY <1>7, <4>2
        <5> QED  BY <1>3, <4>1, <4>2, <5>1
      <4>3. CASE t # s
        <5>1. taken'[t] = taken[t]
          BY <1>7, <4>3
        <5> QED  BY <4>1, <5>1
      <4> QED  BY <4>2, <4>3
    <3> QED  BY <2>1, <3>1
  <2> QED  BY <2>1, <2>2
<1>9. CASE disk # "ok"
  <2>1. log' = log
    BY <1>1, <1>9
  <2>2. TakenLogged'
    BY <1>5, <1>8, <1>9, <2>1 DEF TakenLogged
  <2> QED  BY <1>5, <2>1, <2>2 DEF Inv, LogIsLines, ends
<1>10. CASE disk = "ok"
  <2> DEFINE line == [stream |-> s, from |-> taken[s] + 1, to |-> n]
             k == Len(log) + 1
  <2>1. /\ k \in Nat /\ DOMAIN log = 1..(k - 1) /\ DOMAIN log' = 1..k /\ log'[k] = line
        /\ \A i \in DOMAIN log : log'[i] = log[i]
    BY <1>1, <1>2, <1>3, <1>10
  <2>2. line.stream = s /\ line.from = taken[s] + 1 /\ line.to = n
    OBVIOUS
  <2>3. DOMAIN log' = DOMAIN log \cup {k} /\ k \notin DOMAIN log
        /\ \A i, j \in DOMAIN log' : i < j => i \in DOMAIN log
    BY <2>1
  <2> HIDE DEF k, line
  <2>4. ASSUME NEW t \in Stream, NEW m \in 1..taken'[t], ends(t, m) PROVE logged(t, m)'
    <3>1. CASE m <= taken[t]
      <4>1. PICK i \in DOMAIN log : log[i].stream = t /\ log[i].to = m
        <5>1. m \in 1..taken[t]
          BY <1>2, <2>4, <3>1
        <5>2. logged(t, m)
          BY <1>10, <2>4, <5>1 DEF Inv, TakenLogged
        <5> QED  BY <5>2 DEF logged
      <4> QED  BY <2>1, <2>3, <4>1 DEF logged
    <3>2. CASE m > taken[t]
      <4>1. t = s
        BY <1>2, <1>7, <2>4, <3>2
      <4>2. m \in (taken[s] + 1)..n
        BY <1>2, <1>3, <1>7, <2>4, <3>2, <4>1
      <4>3. m = n
        BY <1>3, <1>4, <2>4, <4>1, <4>2
      <4> QED  BY <2>1, <2>2, <2>3, <4>1, <4>3 DEF logged
    <3> QED  BY <1>2, <3>1, <3>2
  <2>5. TakenLogged'
    <3>1. \A i \in DOMAIN log' : log'[i].to <= taken'[log'[i].stream]
      BY <1>3, <1>7, <1>8, <2>1, <2>2, <2>3
    <3> QED  BY <1>6, <2>4, <3>1 DEF TakenLogged
  <2>6. ASSUME NEW i \in DOMAIN log'
        PROVE  /\ ends(log'[i].stream, log'[i].to)
               /\ \A m \in (log'[i].from)..(log'[i].to - 1) : ~ends(log'[i].stream, m)
    <3>1. CASE i \in DOMAIN log
      BY <2>1, <3>1 DEF Inv, LogIsLines
    <3>2. CASE i = k
      BY <1>4, <2>1, <2>2, <3>2
    <3> QED  BY <2>3, <3>1, <3>2
  <2>7. ASSUME NEW i \in DOMAIN log', NEW j \in DOMAIN log', i < j, log'[i].stream = log'[j].stream
        PROVE  log'[i].to < log'[j].from
    <3>1. i \in DOMAIN log /\ log'[i] = log[i]
      BY <2>1, <2>3, <2>7
    <3>2. CASE j \in DOMAIN log
      BY <2>1, <2>7, <3>1, <3>2 DEF Inv, LogIsLines
    <3>3. CASE j = k
      <4>1. log'[j].stream = s /\ log'[j].from = taken[s] + 1
        BY <2>1, <2>2, <3>3
      <4>2. log[i].stream = s
        BY <2>7, <3>1, <4>1
      <4>3. log[i].to \in Nat /\ log[i].to <= taken[s]
        BY <1>8, <3>1, <4>2
      <4>4. taken[s] \in Nat
        BY <1>2
      <4> QED  BY <3>1, <4>1, <4>3, <4>4
    <3> QED  BY <2>3, <3>2, <3>3
  <2>8. LogIsLines'
    BY <1>5, <2>6, <2>7 DEF LogIsLines, ends
  <2> QED  BY <2>5, <2>8
<1> QED  BY <1>9, <1>10

\* Every step keeps the log the record of the lines that were taken.
LEMMA LogStep == Inv /\ [Next]_vars => TakenLogged' /\ LogIsLines'
<1> SUFFICES ASSUME Inv, [Next]_vars PROVE TakenLogged' /\ LogIsLines'  OBVIOUS
<1>1. \A t \in Stream : Len(written[t]) \in Nat
  BY DEF Inv, TypeOK
<1>2. ASSUME NEW s \in Stream, Write(s) PROVE TakenLogged' /\ LogIsLines'
  <2>1. UNCHANGED <<taken, log, disk>>
    BY <1>2 DEF Write, copying
  <2>2. \A t \in Stream : /\ Len(written'[t]) \in Nat /\ Len(written[t]) <= Len(written'[t])
                          /\ \A n \in 1..Len(written[t]) : written'[t][n] = written[t][n]
    BY <1>2, WrittenGrows DEF Inv
  <2> QED  BY <2>1, <2>2, LogStays
<1>3. ASSUME UNCHANGED <<written, taken, log>>, disk' = "ok" => disk = "ok"
      PROVE  TakenLogged' /\ LogIsLines'
  BY <1>1, <1>3, LogStays
<1>4. ASSUME NEW s \in Stream, PrintLine(s) PROVE TakenLogged' /\ LogIsLines'
  BY <1>4, LogGrows
<1>5. \/ \E s \in Stream : Write(s) \/ PrintLine(s)
      \/ UNCHANGED <<written, taken, log>> /\ (disk' = "ok" => disk = "ok")
  BY DEF Next, Copier, Tracker, Close, Fill, ReadLine, Stop, MainExits, DiskFills, PipesWait,
         ProgramWait, programs, copying, vars
<1> QED  BY <1>2, <1>3, <1>4, <1>5

\* The invariant holds of every behaviour.
LEMMA InvCorrect == Spec => []Inv
<1>1. Init => Inv
  <2> SUFFICES ASSUME Init PROVE Inv  OBVIOUS
  <2>1. PICK inherited \in SUBSET Stream :
          writers = [s \in Stream |-> IF s \in inherited THEN Program ELSE {"main"}]
    BY DEF Init
  <2>2. writers \in [Stream -> SUBSET Program]
    BY <2>1 DEF Program
  <2>3. \A s \in Stream : written[s] = <<>>
    BY DEF Init
  <2>4. TypeOK
    BY <2>2, <2>3 DEF Init, TypeOK
  <2>5. StreamsOver /\ TakenLogged /\ LogIsLines
    BY DEF Init, StreamsOver, TakenLogged, LogIsLines
  <2> QED  BY <2>4, <2>5 DEF Inv
<1>2. Inv /\ [Next]_vars => Inv'
  BY TypeStep, OverStep, LogStep DEF Inv
<1> QED  BY <1>1, <1>2, PTL DEF Spec

\* Positions, buffers and the log fit together, for any streams and sizes.
THEOREM TypeCorrect == Spec => []TypeOK
<1>1. Inv => TypeOK
  BY DEF Inv
<1> QED  BY InvCorrect, <1>1, PTL

\* An entry of the log is a whole line, and a stream's lines are in order.
THEOREM LogIsLinesCorrect == Spec => []LogIsLines
<1>1. Inv => LogIsLines
  BY DEF Inv
<1> QED  BY InvCorrect, <1>1, PTL

\* The exit is not reported before the last line is in the log: the tracker
\* waits for both goroutines, each of which stops only at the end of its stream.
THEOREM ExitedIsLoggedCorrect == Spec => []ExitedIsLogged
<1>1. Inv => ExitedIsLogged
  <2> SUFFICES ASSUME Inv, tracker = "read", NEW s \in Stream
               PROVE  /\ writers[s] = {}
                      /\ disk = "ok" => \A n \in 1..Len(written[s]) : ends(s, n) => logged(s, n)
    BY DEF ExitedIsLogged
  <2>1. writers[s] = {} /\ buffered[s] = Len(written[s]) /\ newlines(s) = {}
    BY DEF Inv, StreamsOver
  <2>2. taken[s] \in Nat /\ Len(written[s]) \in Nat
    BY DEF Inv, TypeOK
  <2>3. \A n \in 1..Len(written[s]) : ends(s, n) => n <= taken[s]
    BY <2>1, <2>2 DEF ends, newlines
  <2>4. disk = "ok" => \A n \in 1..taken[s] : ends(s, n) => logged(s, n)
    BY DEF Inv, TakenLogged
  <2> QED  BY <2>1, <2>2, <2>3, <2>4
<1> QED  BY InvCorrect, <1>1, PTL

-----------------------------------------------------------------------------
(***************************************************************************)
(* The pipe as the tracker of RuntimeService.                              *)
(***************************************************************************)

helperHolds == \E s \in Stream : "helper" \in writers[s]

\* Every step of the pipe is one of a program, a helper or a tracker, or
\* invisible to RuntimeService, which sees of the pipe its program, whether a
\* helper holds a stream and whether the tracker is past its waits.
LEMMA TrackerImplemented ==
  ASSUME Inv, [Next]_vars
  PROVE  [Service!TrackerWait(1) \/ Service!MainExits(1) \/ Service!HelperExits(1)]_<<Service!host>>
<1>1. ASSUME UNCHANGED <<main, helperHolds, tracker = "read">> PROVE UNCHANGED <<Service!host>>
  BY <1>1 DEF Service!host, helperHolds
<1>2. ASSUME main = "alive", main' = "zombie", UNCHANGED <<helperHolds, tracker = "read">>
      PROVE  Service!MainExits(1)
  BY <1>2 DEF Service!MainExits, Service!dead, Service!Adopted, Service!store, helperHolds
<1>3. ASSUME helperHolds, ~helperHolds', UNCHANGED <<main, tracker = "read">>
      PROVE  Service!HelperExits(1)
  BY <1>3 DEF Service!HelperExits, Service!store, helperHolds
<1>4. ASSUME main = "zombie", main' = "reaped", tracker # "read", tracker' = "read",
             ~helperHolds, UNCHANGED helperHolds
      PROVE  Service!TrackerWait(1)
  BY <1>4 DEF Service!TrackerWait, Service!store, helperHolds
<1>5. ASSUME NEW s \in Stream, Write(s) \/ Copier(s) PROVE UNCHANGED <<Service!host>>
  <2>1. UNCHANGED <<main, writers, tracker>>
    BY <1>5 DEF Write, Copier, Fill, ReadLine, PrintLine, Stop, programs
  <2> QED  BY <1>1, <2>1 DEF helperHolds
<1>6. ASSUME NEW s \in Stream, Close(s)
      PROVE  Service!HelperExits(1) \/ UNCHANGED <<Service!host>>
  <2>1. UNCHANGED <<main, tracker>>
    BY <1>6 DEF Close
  <2>2. helperHolds' => helperHolds
    BY <1>6 DEF Close, helperHolds, Inv, TypeOK
  <2>3. CASE helperHolds /\ ~helperHolds'
    BY <1>3, <2>1, <2>3
  <2>4. CASE UNCHANGED helperHolds
    BY <1>1, <2>1, <2>4
  <2> QED  BY <2>2, <2>3, <2>4 DEF helperHolds
<1>7. CASE MainExits
  <2>1. UNCHANGED <<helperHolds, tracker = "read">>
    BY <1>7 DEF MainExits, helperHolds
  <2>2. Service!MainExits(1)
    BY <1>2, <1>7, <2>1 DEF MainExits
  <2> QED  BY <2>2
<1>8. CASE PipesWait \/ DiskFills \/ UNCHANGED vars
  <2>1. UNCHANGED <<main, writers, tracker = "read">>
    BY <1>8 DEF PipesWait, DiskFills, programs, vars
  <2> QED  BY <1>1, <2>1 DEF helperHolds
<1>9. CASE ProgramWait
  <2>1. ~helperHolds /\ UNCHANGED helperHolds
    BY <1>9 DEF ProgramWait, Inv, StreamsOver, helperHolds
  <2>2. Service!TrackerWait(1)
    BY <1>4, <1>9, <2>1 DEF ProgramWait
  <2> QED  BY <2>2
<1> QED  BY <1>5, <1>6, <1>7, <1>8, <1>9 DEF Next, Tracker

\* With streams, pipes and a log of any size, the tracker goes on from its wait
\* only as RuntimeService has it: when the program has exited and no descendant
\* holds an output stream.
THEOREM TrackerCorrect == Spec => ImplementsTracker
<1>1. Inv /\ [Next]_vars =>
        [Service!TrackerWait(1) \/ Service!MainExits(1) \/ Service!HelperExits(1)]_<<Service!host>>
  BY TrackerImplemented
<1> QED  BY InvCorrect, <1>1, PTL DEF Spec, ImplementsTracker
=============================================================================
