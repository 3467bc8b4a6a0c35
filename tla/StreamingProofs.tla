-------------------------- MODULE StreamingProofs --------------------------
(***************************************************************************)
(* Streaming for any number of chunks: what a session that reports success *)
(* has delivered, and that it leaves no command behind.                    *)
(***************************************************************************)
EXTENDS Streaming, SequenceTheorems, TLAPS

\* Where the handler is tells where its command is.
HandlerInv ==
  /\ handler \in {"asked", "prepared", "start", "first", "second"} => program = "none"
  /\ handler = "wait" => program \in {"alive", "exited"}
  /\ handler = "copied" => program = "reaped"
  /\ handler = "returned" => program \in {"none", "reaped"}
  /\ handler \in {"first", "second"} => kind = "forward"
  /\ kind = "forward" => handler \in {"asked", "prepared", "start", "first", "second", "returned"}
  /\ kind # "forward" => errCh = <<>>

\* A copier that has ended well, other than the one of an input the program
\* stopped reading, has delivered everything.
CopierInv ==
  \A d \in Direction :
    copier[d] = "nil" /\ kind \in {"exec", "sync", "forward"} /\ ~(kind = "exec" /\ d = "in")
      => complete(d)

\* The copiers that were asked for have been started, and a command that was
\* reported as successful was one.
CommandInv ==
  kind \in {"exec", "sync"} =>
    /\ handler \in {"wait", "copied"} => \A d \in wanted : copier[d] # "none"
    /\ handler = "returned" /\ result = "nil" =>
         /\ status = "ok" /\ program = "reaped"
         /\ "out" \in wanted => copier["out"] = "nil"

\* Each copier of a forwarded port that has ended has put its error into errCh,
\* and the handler has taken none, one or both of them out.
ForwardInv ==
  kind = "forward" =>
    /\ wanted = Direction
    /\ handler \in {"asked", "prepared", "start"} =>
         errCh = <<>> /\ \A d \in Direction : copier[d] = "none"
    /\ handler = "first" =>
         \/ errCh = <<>> /\ ~ceased("in") /\ ~ceased("out")
         \/ \E d, e \in Direction : d # e /\ errCh = <<copier[d]>> /\ ceased(d) /\ ~ceased(e)
         \/ \E d, e \in Direction :
              d # e /\ errCh = <<copier[d], copier[e]>> /\ ceased(d) /\ ceased(e)
    /\ handler = "second" =>
         \E d, e \in Direction :
           /\ d # e /\ result = copier[d] /\ ceased(d)
           /\ \/ errCh = <<>> /\ ~ceased(e)
              \/ errCh = <<copier[e]>> /\ ceased(e)
    /\ handler = "returned" /\ result = "nil" =>
         \E d, e \in Direction :
           /\ d # e /\ copier[d] = "nil"
           /\ \/ errCh = <<>> /\ (~ceased(e) \/ copier[e] = "nil")
              \/ errCh # <<>> /\ ceased(e)

Inv == TypeOK /\ HandlerInv /\ CopierInv /\ CommandInv /\ ForwardInv

-----------------------------------------------------------------------------
\* No step puts a value of another type anywhere.
LEMMA TypeStep ==
  ASSUME TypeOK, HandlerInv, [Next]_vars
  PROVE  TypeOK'
<1> USE MaxChunksAssumption
<1>1. ASSUME NEW d \in Direction, Send(d) PROVE TypeOK'
  BY <1>1 DEF Send, TypeOK, held, host, flow, Direction
<1>2. ASSUME NEW d \in Direction, EndSending(d) PROVE TypeOK'
  BY <1>2 DEF EndSending, TypeOK, held, host, flow, Direction
<1>3. ASSUME NEW d \in Direction, StopReceiving(d) PROVE TypeOK'
  BY <1>3 DEF StopReceiving, TypeOK, held, host, flow, Direction
<1>4. ASSUME NEW d \in Direction, CopyRead(d) PROVE TypeOK'
  BY <1>4 DEF CopyRead, TypeOK, held, host, flow, Direction
<1>5. ASSUME NEW d \in Direction, CopyWrite(d) PROVE TypeOK'
  BY <1>5 DEF CopyWrite, TypeOK, held, host, flow, Direction
<1>6. ASSUME NEW d \in Direction, CopyReturns(d) PROVE TypeOK'
  BY <1>6 DEF CopyReturns, TypeOK, held, host, flow, Direction, copyEnds, copyFails, copyError, errChCapacity, HandlerInv
<1>7. ASSUME ProgramExits PROVE TypeOK'
  BY <1>7 DEF ProgramExits, TypeOK, held, host, flow, Direction
<1>8. ASSUME HelperExits PROVE TypeOK'
  BY <1>8 DEF HelperExits, TypeOK, held, host, flow, Direction
<1>9. ASSUME Connect PROVE TypeOK'
  BY <1>9 DEF Connect, TypeOK, held, host, flow, Direction
<1>10. ASSUME ServerCloses PROVE TypeOK'
  BY <1>10 DEF ServerCloses, TypeOK, held, host, flow, Direction, allClosed
<1>11. ASSUME Prepare PROVE TypeOK'
  BY <1>11 DEF Prepare, TypeOK, held, host, flow, Direction
<1>12. ASSUME StartFails PROVE TypeOK'
  BY <1>12 DEF StartFails, TypeOK, held, host, flow, Direction, Return
<1>13. ASSUME Start PROVE TypeOK'
  BY <1>13 DEF Start, TypeOK, held, host, flow, Direction, startCopiers
<1>14. ASSUME Reap PROVE TypeOK'
  BY <1>14 DEF Reap, TypeOK, held, host, flow, Direction, Return
<1>15. ASSUME Copied PROVE TypeOK'
  BY <1>15 DEF Copied, TypeOK, held, host, flow, Direction, Return, commandError
<1>16. ASSUME Dial PROVE TypeOK'
  BY <1>16 DEF Dial, TypeOK, held, host, flow, Direction, startCopiers
<1>17. ASSUME First PROVE TypeOK'
  BY <1>17 DEF First, TypeOK, held, host, flow, Direction
<1>18. ASSUME Second PROVE TypeOK'
  BY <1>18 DEF Second, TypeOK, held, host, flow, Direction, Return, errFwd, allClosed
<1>19. ASSUME SecondTimeout PROVE TypeOK'
  BY <1>19 DEF SecondTimeout, TypeOK, held, host, flow, Direction, Return, allClosed
<1>20. ASSUME ContextEnds PROVE TypeOK'
  BY <1>20 DEF ContextEnds, TypeOK, held, host, flow, Direction
<1>21. ASSUME ContextKills PROVE TypeOK'
  BY <1>21 DEF ContextKills, TypeOK, held, host, flow, Direction
<1>22. CASE UNCHANGED vars
  BY <1>22 DEF vars, host, flow, TypeOK, held, host, flow, Direction
<1> QED
  BY <1>1, <1>2, <1>3, <1>4, <1>5, <1>6, <1>7, <1>8, <1>9, <1>10, <1>11, <1>12, <1>13, <1>14, <1>15, <1>16, <1>17, <1>18, <1>19, <1>20, <1>21, <1>22 DEF Next, Handler, Copier

\* A command is started, waited for and left behind as HandlerInv says.
LEMMA HandlerKept ==
  ASSUME TypeOK, HandlerInv, [Next]_vars
  PROVE  HandlerInv'
<1> USE MaxChunksAssumption
<1>1. ASSUME NEW d \in Direction, Send(d) PROVE HandlerInv'
  BY <1>1 DEF Send, HandlerInv, TypeOK, host, flow, Commands
<1>2. ASSUME NEW d \in Direction, EndSending(d) PROVE HandlerInv'
  BY <1>2 DEF EndSending, HandlerInv, TypeOK, host, flow, Commands
<1>3. ASSUME NEW d \in Direction, StopReceiving(d) PROVE HandlerInv'
  BY <1>3 DEF StopReceiving, HandlerInv, TypeOK, host, flow, Commands
<1>4. ASSUME NEW d \in Direction, CopyRead(d) PROVE HandlerInv'
  BY <1>4 DEF CopyRead, HandlerInv, TypeOK, host, flow, Commands
<1>5. ASSUME NEW d \in Direction, CopyWrite(d) PROVE HandlerInv'
  BY <1>5 DEF CopyWrite, HandlerInv, TypeOK, host, flow, Commands
<1>6. ASSUME NEW d \in Direction, CopyReturns(d) PROVE HandlerInv'
  BY <1>6 DEF CopyReturns, HandlerInv, TypeOK, host, flow, Commands
<1>7. ASSUME ProgramExits PROVE HandlerInv'
  BY <1>7 DEF ProgramExits, HandlerInv, TypeOK, host, flow, Commands
<1>8. ASSUME HelperExits PROVE HandlerInv'
  BY <1>8 DEF HelperExits, HandlerInv, TypeOK, host, flow, Commands
<1>9. ASSUME Connect PROVE HandlerInv'
  BY <1>9 DEF Connect, HandlerInv, TypeOK, host, flow, Commands
<1>10. ASSUME ServerCloses PROVE HandlerInv'
  BY <1>10 DEF ServerCloses, HandlerInv, TypeOK, host, flow, Commands
<1>11. ASSUME Prepare PROVE HandlerInv'
  BY <1>11 DEF Prepare, HandlerInv, TypeOK, host, flow, Commands, Kind
<1>12. ASSUME StartFails PROVE HandlerInv'
  BY <1>12 DEF StartFails, HandlerInv, TypeOK, host, flow, Commands, Return
<1>13. ASSUME Start PROVE HandlerInv'
  BY <1>13 DEF Start, HandlerInv, TypeOK, host, flow, Commands, Kind
<1>14. ASSUME Reap PROVE HandlerInv'
  BY <1>14 DEF Reap, HandlerInv, TypeOK, host, flow, Commands, Return
<1>15. ASSUME Copied PROVE HandlerInv'
  BY <1>15 DEF Copied, HandlerInv, TypeOK, host, flow, Commands, Return
<1>16. ASSUME Dial PROVE HandlerInv'
  BY <1>16 DEF Dial, HandlerInv, TypeOK, host, flow, Commands
<1>17. ASSUME First PROVE HandlerInv'
  BY <1>17 DEF First, HandlerInv, TypeOK, host, flow, Commands
<1>18. ASSUME Second PROVE HandlerInv'
  BY <1>18 DEF Second, HandlerInv, TypeOK, host, flow, Commands, Return
<1>19. ASSUME SecondTimeout PROVE HandlerInv'
  BY <1>19 DEF SecondTimeout, HandlerInv, TypeOK, host, flow, Commands, Return
<1>20. ASSUME ContextEnds PROVE HandlerInv'
  BY <1>20 DEF ContextEnds, HandlerInv, TypeOK, host, flow, Commands
<1>21. ASSUME ContextKills PROVE HandlerInv'
  BY <1>21 DEF ContextKills, HandlerInv, TypeOK, host, flow, Commands
<1>22. CASE UNCHANGED vars
  BY <1>22 DEF vars, host, flow, HandlerInv, TypeOK, host, flow, Commands
<1> QED
  BY <1>1, <1>2, <1>3, <1>4, <1>5, <1>6, <1>7, <1>8, <1>9, <1>10, <1>11, <1>12, <1>13, <1>14, <1>15, <1>16, <1>17, <1>18, <1>19, <1>20, <1>21, <1>22 DEF Next, Handler, Copier

\* Nothing is sent into a direction that is over, so what was complete stays so.
LEMMA CopierKept ==
  ASSUME TypeOK, HandlerInv, CopierInv, [Next]_vars
  PROVE  CopierInv'
<1> USE MaxChunksAssumption
<1>1. ASSUME NEW d \in Direction, Send(d) PROVE CopierInv'
  BY <1>1 DEF Send, CopierInv, complete, over, HandlerInv, TypeOK, host, flow, Direction, Commands
<1>2. ASSUME NEW d \in Direction, EndSending(d) PROVE CopierInv'
  BY <1>2 DEF EndSending, CopierInv, complete, over, HandlerInv, TypeOK, host, flow, Direction, Commands
<1>3. ASSUME NEW d \in Direction, StopReceiving(d) PROVE CopierInv'
  BY <1>3 DEF StopReceiving, CopierInv, complete, over, HandlerInv, TypeOK, host, flow, Direction, Commands
<1>4. ASSUME NEW d \in Direction, CopyRead(d) PROVE CopierInv'
  BY <1>4 DEF CopyRead, CopierInv, complete, over, HandlerInv, TypeOK, host, flow, Direction, Commands
<1>5. ASSUME NEW d \in Direction, CopyWrite(d) PROVE CopierInv'
  BY <1>5 DEF CopyWrite, CopierInv, complete, over, HandlerInv, TypeOK, host, flow, Direction, Commands
<1>6. ASSUME NEW d \in Direction, CopyReturns(d) PROVE CopierInv'
  BY <1>6 DEF CopyReturns, CopierInv, complete, over, HandlerInv, TypeOK, host, flow, Direction, Commands, copyEnds, copyFails, copyError
<1>7. ASSUME ProgramExits PROVE CopierInv'
  BY <1>7 DEF ProgramExits, CopierInv, complete, over, HandlerInv, TypeOK, host, flow, Direction, Commands
<1>8. ASSUME HelperExits PROVE CopierInv'
  BY <1>8 DEF HelperExits, CopierInv, complete, over, HandlerInv, TypeOK, host, flow, Direction, Commands
<1>9. ASSUME Connect PROVE CopierInv'
  BY <1>9 DEF Connect, CopierInv, complete, over, HandlerInv, TypeOK, host, flow, Direction, Commands
<1>10. ASSUME ServerCloses PROVE CopierInv'
  BY <1>10 DEF ServerCloses, CopierInv, complete, over, HandlerInv, TypeOK, host, flow, Direction, Commands
<1>11. ASSUME Prepare PROVE CopierInv'
  BY <1>11 DEF Prepare, CopierInv, complete, over, HandlerInv, TypeOK, host, flow, Direction, Commands
<1>12. ASSUME StartFails PROVE CopierInv'
  BY <1>12 DEF StartFails, CopierInv, complete, over, HandlerInv, TypeOK, host, flow, Direction, Commands, Return
<1>13. ASSUME Start PROVE CopierInv'
  BY <1>13 DEF Start, CopierInv, complete, over, HandlerInv, TypeOK, host, flow, Direction, Commands, startCopiers
<1>14. ASSUME Reap PROVE CopierInv'
  BY <1>14 DEF Reap, CopierInv, complete, over, HandlerInv, TypeOK, host, flow, Direction, Commands, Return
<1>15. ASSUME Copied PROVE CopierInv'
  BY <1>15 DEF Copied, CopierInv, complete, over, HandlerInv, TypeOK, host, flow, Direction, Commands, Return
<1>16. ASSUME Dial PROVE CopierInv'
  BY <1>16 DEF Dial, CopierInv, complete, over, HandlerInv, TypeOK, host, flow, Direction, Commands, startCopiers
<1>17. ASSUME First PROVE CopierInv'
  BY <1>17 DEF First, CopierInv, complete, over, HandlerInv, TypeOK, host, flow, Direction, Commands
<1>18. ASSUME Second PROVE CopierInv'
  BY <1>18 DEF Second, CopierInv, complete, over, HandlerInv, TypeOK, host, flow, Direction, Commands
<1>19. ASSUME SecondTimeout PROVE CopierInv'
  BY <1>19 DEF SecondTimeout, CopierInv, complete, over, HandlerInv, TypeOK, host, flow, Direction, Commands
<1>20. ASSUME ContextEnds PROVE CopierInv'
  BY <1>20 DEF ContextEnds, CopierInv, complete, over, HandlerInv, TypeOK, host, flow, Direction, Commands
<1>21. ASSUME ContextKills PROVE CopierInv'
  BY <1>21 DEF ContextKills, CopierInv, complete, over, HandlerInv, TypeOK, host, flow, Direction, Commands
<1>22. CASE UNCHANGED vars
  BY <1>22 DEF vars, host, flow, CopierInv, complete, over, HandlerInv, TypeOK, host, flow, Direction, Commands
<1> QED
  BY <1>1, <1>2, <1>3, <1>4, <1>5, <1>6, <1>7, <1>8, <1>9, <1>10, <1>11, <1>12, <1>13, <1>14, <1>15, <1>16, <1>17, <1>18, <1>19, <1>20, <1>21, <1>22 DEF Next, Handler, Copier

\* A command is reported as successful only when all of it was.
LEMMA CommandKept ==
  ASSUME TypeOK, HandlerInv, CopierInv, CommandInv, [Next]_vars
  PROVE  CommandInv'
<1> USE MaxChunksAssumption
<1>1. ASSUME NEW d \in Direction, Send(d) PROVE CommandInv'
  BY <1>1 DEF Send, CommandInv, HandlerInv, TypeOK, host, flow, Direction, Commands
<1>2. ASSUME NEW d \in Direction, EndSending(d) PROVE CommandInv'
  BY <1>2 DEF EndSending, CommandInv, HandlerInv, TypeOK, host, flow, Direction, Commands
<1>3. ASSUME NEW d \in Direction, StopReceiving(d) PROVE CommandInv'
  BY <1>3 DEF StopReceiving, CommandInv, HandlerInv, TypeOK, host, flow, Direction, Commands
<1>4. ASSUME NEW d \in Direction, CopyRead(d) PROVE CommandInv'
  BY <1>4 DEF CopyRead, CommandInv, HandlerInv, TypeOK, host, flow, Direction, Commands
<1>5. ASSUME NEW d \in Direction, CopyWrite(d) PROVE CommandInv'
  BY <1>5 DEF CopyWrite, CommandInv, HandlerInv, TypeOK, host, flow, Direction, Commands
<1>6. ASSUME NEW d \in Direction, CopyReturns(d) PROVE CommandInv'
  BY <1>6 DEF CopyReturns, CommandInv, HandlerInv, TypeOK, host, flow, Direction, Commands, copyEnds, copyFails, copyError
<1>7. ASSUME ProgramExits PROVE CommandInv'
  BY <1>7 DEF ProgramExits, CommandInv, HandlerInv, TypeOK, host, flow, Direction, Commands
<1>8. ASSUME HelperExits PROVE CommandInv'
  BY <1>8 DEF HelperExits, CommandInv, HandlerInv, TypeOK, host, flow, Direction, Commands
<1>9. ASSUME Connect PROVE CommandInv'
  BY <1>9 DEF Connect, CommandInv, HandlerInv, TypeOK, host, flow, Direction, Commands
<1>10. ASSUME ServerCloses PROVE CommandInv'
  BY <1>10 DEF ServerCloses, CommandInv, HandlerInv, TypeOK, host, flow, Direction, Commands
<1>11. ASSUME Prepare PROVE CommandInv'
  BY <1>11 DEF Prepare, CommandInv, HandlerInv, TypeOK, host, flow, Direction, Commands
<1>12. ASSUME StartFails PROVE CommandInv'
  BY <1>12 DEF StartFails, CommandInv, HandlerInv, TypeOK, host, flow, Direction, Commands, Return
<1>13. ASSUME Start PROVE CommandInv'
  BY <1>13 DEF Start, CommandInv, HandlerInv, TypeOK, host, flow, Direction, Commands, startCopiers
<1>14. ASSUME Reap PROVE CommandInv'
  BY <1>14 DEF Reap, CommandInv, HandlerInv, TypeOK, host, flow, Direction, Commands, Return
<1>15. ASSUME Copied PROVE CommandInv'
  BY <1>15 DEF Copied, CommandInv, HandlerInv, TypeOK, host, flow, Direction, Commands, Return, commandError, ceased
<1>16. ASSUME Dial PROVE CommandInv'
  BY <1>16 DEF Dial, CommandInv, HandlerInv, TypeOK, host, flow, Direction, Commands, startCopiers
<1>17. ASSUME First PROVE CommandInv'
  BY <1>17 DEF First, CommandInv, HandlerInv, TypeOK, host, flow, Direction, Commands
<1>18. ASSUME Second PROVE CommandInv'
  BY <1>18 DEF Second, CommandInv, HandlerInv, TypeOK, host, flow, Direction, Commands, Return
<1>19. ASSUME SecondTimeout PROVE CommandInv'
  BY <1>19 DEF SecondTimeout, CommandInv, HandlerInv, TypeOK, host, flow, Direction, Commands, Return
<1>20. ASSUME ContextEnds PROVE CommandInv'
  BY <1>20 DEF ContextEnds, CommandInv, HandlerInv, TypeOK, host, flow, Direction, Commands
<1>21. ASSUME ContextKills PROVE CommandInv'
  BY <1>21 DEF ContextKills, CommandInv, HandlerInv, TypeOK, host, flow, Direction, Commands
<1>22. CASE UNCHANGED vars
  BY <1>22 DEF vars, host, flow, CommandInv, HandlerInv, TypeOK, host, flow, Direction, Commands
<1> QED
  BY <1>1, <1>2, <1>3, <1>4, <1>5, <1>6, <1>7, <1>8, <1>9, <1>10, <1>11, <1>12, <1>13, <1>14, <1>15, <1>16, <1>17, <1>18, <1>19, <1>20, <1>21, <1>22 DEF Next, Handler, Copier

\* What errCh can look like before and after an error is put in or taken out.
LEMMA ShortSequences ==
  ASSUME NEW a, NEW b
  PROVE  /\ <<a>> # <<>> /\ Append(<<a>>, b) = <<a, b>>
         /\ Tail(<<a>>) = <<>> /\ Tail(<<a, b>>) = <<b>>
<1>1. <<a>> # <<>>
  OBVIOUS
<1>2. Append(<<a>>, b) = <<a, b>>
  <2> DEFINE S == {a, b}
  <2>1. <<a>> \in Seq(S) /\ <<a, b>> \in Seq(S) /\ b \in S /\ Len(<<a>>) = 1
    OBVIOUS
  <2> HIDE DEF S
  <2>2. /\ Append(<<a>>, b) \in Seq(S) /\ Len(Append(<<a>>, b)) = 2
        /\ Append(<<a>>, b)[1] = a /\ Append(<<a>>, b)[2] = b
    BY <2>1
  <2>3. Len(<<a, b>>) = 2 /\ <<a, b>>[1] = a /\ <<a, b>>[2] = b
    OBVIOUS
  <2>4. \A i \in 1..2 : Append(<<a>>, b)[i] = <<a, b>>[i]
    <3>1. \A i \in 1..2 : i = 1 \/ i = 2
      OBVIOUS
    <3> QED
      BY <2>2, <2>3, <3>1
  <2> DEFINE s == Append(<<a>>, b)
             t == <<a, b>>
  <2>5. s \in Seq(S) /\ t \in Seq(S) /\ Len(s) = Len(t) /\ \A i \in 1..Len(s) : s[i] = t[i]
    BY <2>1, <2>2, <2>3, <2>4
  <2> HIDE DEF s, t
  <2>6. s = t
    BY <2>5, SeqEqual
  <2> QED
    BY <2>6 DEF s, t
<1>3. Tail(<<a>>) = <<>>
  OBVIOUS
<1>4. Tail(<<a, b>>) = <<b>>
  OBVIOUS
<1> QED
  BY <1>1, <1>2, <1>3, <1>4

\* Errors are put into errCh and taken out once each.
LEMMA ForwardKept ==
  ASSUME TypeOK, HandlerInv, ForwardInv, [Next]_vars
  PROVE  ForwardInv'
<1> USE MaxChunksAssumption
<1>1. ASSUME NEW d \in Direction, Send(d) PROVE ForwardInv'
  BY <1>1 DEF Send, ForwardInv, HandlerInv, TypeOK, host, flow, Direction, Commands, ceased
<1>2. ASSUME NEW d \in Direction, EndSending(d) PROVE ForwardInv'
  BY <1>2 DEF EndSending, ForwardInv, HandlerInv, TypeOK, host, flow, Direction, Commands, ceased
<1>3. ASSUME NEW d \in Direction, StopReceiving(d) PROVE ForwardInv'
  BY <1>3 DEF StopReceiving, ForwardInv, HandlerInv, TypeOK, host, flow, Direction, Commands, ceased
<1>4. ASSUME NEW d \in Direction, CopyRead(d) PROVE ForwardInv'
  BY <1>4 DEF CopyRead, ForwardInv, HandlerInv, TypeOK, host, flow, Direction, Commands, ceased
<1>5. ASSUME NEW d \in Direction, CopyWrite(d) PROVE ForwardInv'
  BY <1>5 DEF CopyWrite, ForwardInv, HandlerInv, TypeOK, host, flow, Direction, Commands, ceased
<1>6. ASSUME NEW d \in Direction, CopyReturns(d) PROVE ForwardInv'
  <2> SUFFICES ASSUME kind = "forward" PROVE ForwardInv'
    BY <1>6 DEF CopyReturns, ForwardInv, host, flow
  <2>1. ~ceased(d) /\ copier[d] # "nil"
    BY <1>6 DEF CopyReturns, copyEnds, copyFails, ceased
  <2> PICK c \in {"nil", "error"} : c = copyError(d)
    BY DEF copyError
  <2>2. /\ errCh' = Append(errCh, c) /\ copier' = [copier EXCEPT ![d] = c]
        /\ UNCHANGED <<kind, wanted, handler, result>>
    BY <1>6 DEF CopyReturns
  <2>3. copier'[d] = c /\ ceased(d)' /\ \A e \in Direction \ {d} : copier'[e] = copier[e]
    BY <2>2 DEF TypeOK, ceased
  <2>4. Len(errCh) < 2
    BY <1>6 DEF CopyReturns, errChCapacity
  <2>5. errCh' # <<>>
    BY <2>2 DEF TypeOK
  <2>6. CASE handler = "first"
    <3>1. errCh = <<>> \/ \E f, g \in Direction : f # g /\ errCh = <<copier[f]>> /\ ceased(f) /\ ~ceased(g)
      BY <2>4, <2>6 DEF ForwardInv
    <3>2. CASE errCh = <<>>
      <4>1. errCh' = <<copier'[d]>>
        BY <2>2, <2>3, <3>2
      <4>2. PICK e \in Direction : e # d /\ ~ceased(e)
        BY <2>6, <3>2 DEF ForwardInv, Direction
      <4> QED
        BY <2>2, <2>3, <2>6, <4>1, <4>2 DEF ForwardInv, ceased
    <3>3. ASSUME NEW f \in Direction, NEW g \in Direction,
                 f # g, errCh = <<copier[f]>>, ceased(f), ~ceased(g)
          PROVE  ForwardInv'
      <4>1. g = d
        BY <2>1, <3>3 DEF Direction
      <4>2. copier'[f] = copier[f] /\ copier'[d] = c /\ ceased(f)'
        BY <2>3, <3>3, <4>1 DEF ceased
      <4>3. Append(<<copier[f]>>, c) = <<copier[f], c>>
        BY ShortSequences
      <4>4. errCh' = <<copier'[f], copier'[d]>>
        BY <2>2, <3>3, <4>2, <4>3
      <4> QED
        BY <2>2, <2>3, <2>6, <3>3, <4>1, <4>2, <4>4 DEF ForwardInv
    <3> QED
      BY <3>1, <3>2, <3>3
  <2>7. CASE handler = "second"
    <3>1. PICK f, g \in Direction :
            /\ f # g /\ result = copier[f] /\ ceased(f)
            /\ \/ errCh = <<>> /\ ~ceased(g)
               \/ errCh = <<copier[g]>> /\ ceased(g)
      BY <2>7 DEF ForwardInv
    <3>2. g = d /\ errCh = <<>>
      BY <2>1, <3>1 DEF Direction
    <3>3. errCh' = <<copier'[d]>> /\ copier'[f] = copier[f] /\ ceased(f)'
      BY <2>2, <2>3, <3>1, <3>2 DEF ceased
    <3> QED
      BY <2>2, <2>3, <2>7, <3>1, <3>2, <3>3 DEF ForwardInv
  <2>8. CASE handler = "returned"
    <3>1. SUFFICES ASSUME result = "nil" PROVE ForwardInv'
      BY <2>2, <2>8 DEF ForwardInv
    <3>2. PICK f, g \in Direction :
            /\ f # g /\ copier[f] = "nil"
            /\ \/ errCh = <<>> /\ (~ceased(g) \/ copier[g] = "nil")
               \/ errCh # <<>> /\ ceased(g)
      BY <2>8, <3>1 DEF ForwardInv
    <3>3. g = d
      BY <2>1, <3>2 DEF Direction
    <3>4. copier'[f] = "nil" /\ ceased(g)'
      BY <2>3, <3>2, <3>3
    <3> QED
      BY <2>2, <2>5, <2>8, <3>2, <3>4 DEF ForwardInv
  <2>9. handler \in {"first", "second", "returned", "asked", "prepared", "start"}
    BY DEF HandlerInv
  <2>10. CASE handler \in {"asked", "prepared", "start"}
    BY <2>1, <2>10, <1>6 DEF CopyReturns, copyEnds, copyFails, ForwardInv
  <2> QED
    BY <2>6, <2>7, <2>8, <2>9, <2>10
<1>7. ASSUME ProgramExits PROVE ForwardInv'
  BY <1>7 DEF ProgramExits, ForwardInv, HandlerInv, TypeOK, host, flow, Direction, Commands, ceased
<1>8. ASSUME HelperExits PROVE ForwardInv'
  BY <1>8 DEF HelperExits, ForwardInv, HandlerInv, TypeOK, host, flow, Direction, Commands, ceased
<1>9. ASSUME Connect PROVE ForwardInv'
  BY <1>9 DEF Connect, ForwardInv, HandlerInv, TypeOK, host, flow, Direction, Commands, ceased
<1>10. ASSUME ServerCloses PROVE ForwardInv'
  BY <1>10 DEF ServerCloses, ForwardInv, HandlerInv, TypeOK, host, flow, Direction, Commands, ceased
<1>11. ASSUME Prepare PROVE ForwardInv'
  BY <1>11 DEF Prepare, ForwardInv, HandlerInv, TypeOK, host, flow, Direction, Commands, ceased
<1>12. ASSUME StartFails PROVE ForwardInv'
  BY <1>12 DEF StartFails, ForwardInv, HandlerInv, TypeOK, host, flow, Direction, Commands, ceased, Return
<1>13. ASSUME Start PROVE ForwardInv'
  BY <1>13 DEF Start, ForwardInv, HandlerInv, TypeOK, host, flow, Direction, Commands, ceased, startCopiers
<1>14. ASSUME Reap PROVE ForwardInv'
  BY <1>14 DEF Reap, ForwardInv, HandlerInv, TypeOK, host, flow, Direction, Commands, ceased, Return
<1>15. ASSUME Copied PROVE ForwardInv'
  BY <1>15 DEF Copied, ForwardInv, HandlerInv, TypeOK, host, flow, Direction, Commands, ceased, Return, commandError
<1>16. ASSUME Dial PROVE ForwardInv'
  BY <1>16 DEF Dial, ForwardInv, HandlerInv, TypeOK, host, flow, Direction, Commands, ceased, startCopiers
<1>17. ASSUME First PROVE ForwardInv'
  <2> SUFFICES ASSUME kind = "forward" PROVE ForwardInv'
    BY <1>17 DEF First, ForwardInv
  <2>1. /\ handler = "first" /\ errCh # <<>> /\ result' = Head(errCh) /\ errCh' = Tail(errCh)
        /\ handler' = "second" /\ UNCHANGED <<kind, wanted, copier>>
    BY <1>17 DEF First
  <2>2. PICK d, e \in Direction :
          /\ d # e /\ ceased(d)
          /\ \/ errCh = <<copier[d]>> /\ ~ceased(e)
             \/ errCh = <<copier[d], copier[e]>> /\ ceased(e)
    BY <2>1 DEF ForwardInv
  <2>3. result' = copier'[d]
    BY <2>1, <2>2
  <2>4. \/ errCh' = <<>> /\ ~ceased(e)
        \/ errCh' = <<copier'[e]>> /\ ceased(e)
    <3>1. Tail(<<copier[d]>>) = <<>> /\ Tail(<<copier[d], copier[e]>>) = <<copier[e]>>
      BY ShortSequences
    <3> QED
      BY <2>1, <2>2, <3>1
  <2> QED
    BY <2>1, <2>2, <2>3, <2>4 DEF ForwardInv, ceased
<1>18. ASSUME Second PROVE ForwardInv'
  BY <1>18 DEF Second, ForwardInv, HandlerInv, TypeOK, host, flow, Direction, Commands, ceased, Return, errFwd
<1>19. ASSUME SecondTimeout PROVE ForwardInv'
  <2> SUFFICES ASSUME kind = "forward", result = "nil" PROVE ForwardInv'
    BY <1>19 DEF SecondTimeout, Return, ForwardInv
  <2>1. /\ handler = "second" /\ handler' = "returned"
        /\ UNCHANGED <<kind, wanted, result, copier, errCh>>
    BY <1>19 DEF SecondTimeout, Return
  <2>2. PICK d, e \in Direction :
          /\ d # e /\ result = copier[d] /\ ceased(d)
          /\ \/ errCh = <<>> /\ ~ceased(e)
             \/ errCh = <<copier[e]>> /\ ceased(e)
    BY <2>1 DEF ForwardInv
  <2>3. (errCh = <<>> /\ ~ceased(e)) \/ (errCh # <<>> /\ ceased(e))
    BY <2>2, ShortSequences
  <2> QED
    BY <2>1, <2>2, <2>3 DEF ForwardInv, ceased
<1>20. ASSUME ContextEnds PROVE ForwardInv'
  BY <1>20 DEF ContextEnds, ForwardInv, HandlerInv, TypeOK, host, flow, Direction, Commands, ceased
<1>21. ASSUME ContextKills PROVE ForwardInv'
  BY <1>21 DEF ContextKills, ForwardInv, HandlerInv, TypeOK, host, flow, Direction, Commands, ceased
<1>22. CASE UNCHANGED vars
  BY <1>22 DEF vars, host, flow, ForwardInv, HandlerInv, TypeOK, host, flow, Direction, Commands, ceased
<1> QED
  BY <1>1, <1>2, <1>3, <1>4, <1>5, <1>6, <1>7, <1>8, <1>9, <1>10, <1>11, <1>12, <1>13, <1>14, <1>15, <1>16, <1>17, <1>18, <1>19, <1>20, <1>21, <1>22 DEF Next, Handler, Copier

\* A session starts with nothing running and nothing copied.
LEMMA InvInit == Init => Inv
<1> SUFFICES ASSUME Init PROVE Inv
  OBVIOUS
<1>1. TypeOK
  <2>1. /\ sent \in [Direction -> Nat] /\ delivered \in [Direction -> Nat]
        /\ \A d \in Direction : delivered[d] + held(d) <= sent[d]
    BY DEF Init, held
  <2>2. errCh \in Seq({"nil", "error"}) /\ Len(errCh) <= 2
    BY DEF Init
  <2>3. /\ kind \in Kind /\ wanted \in SUBSET Direction
        /\ ended \in [Direction -> BOOLEAN] /\ broken \in [Direction -> BOOLEAN]
        /\ closed \in [Direction -> BOOLEAN]
        /\ copier \in [Direction -> {"none", "read", "write", "nil", "error"}]
    BY DEF Init
  <2> QED
    BY <2>1, <2>2, <2>3 DEF Init, TypeOK
<1>2. HandlerInv
  BY DEF Init, HandlerInv
<1>3. CopierInv
  BY DEF Init, CopierInv
<1>4. CommandInv
  BY DEF Init, CommandInv
<1>5. ForwardInv
  BY DEF Init, ForwardInv
<1> QED
  BY <1>1, <1>2, <1>3, <1>4, <1>5 DEF Inv

\* Inv is an invariant of a session.
LEMMA InvCorrect == Spec => []Inv
<1>1. Inv /\ [Next]_vars => Inv'
  BY TypeStep, HandlerKept, CopierKept, CommandKept, ForwardKept DEF Inv
<1> QED
  BY InvInit, <1>1, PTL DEF Spec

-----------------------------------------------------------------------------
\* TypeOK: no chunk is delivered that was not sent, and errCh never holds more
\* than the errors of its two copiers.
THEOREM TypeCorrect == Spec => []TypeOK
<1>1. Inv => TypeOK
  BY DEF Inv
<1> QED
  BY <1>1, InvCorrect, PTL

\* ReturnedIsReaped: whatever races, a handler that returns has waited for the
\* command it started.
THEOREM ReturnedIsReapedCorrect == Spec => []ReturnedIsReaped
<1>1. Inv => ReturnedIsReaped
  BY DEF Inv, HandlerInv, ReturnedIsReaped
<1> QED
  BY <1>1, InvCorrect, PTL

\* SuccessIsComplete: for any number of chunks, a command that is reported as
\* successful has ended with status 0 and its output was delivered in full.
THEOREM SuccessIsCompleteCorrect == Spec => []SuccessIsComplete
<1>1. Inv => SuccessIsComplete
  BY DEF Inv, CommandInv, CopierInv, SuccessIsComplete, Direction
<1> QED
  BY <1>1, InvCorrect, PTL

\* ForwardIsComplete: a forwarded port that ends without an error has carried
\* one direction in full, and both when both errors were taken from errCh.
THEOREM ForwardIsCompleteCorrect == Spec => []ForwardIsComplete
<1>1. Inv => ForwardIsComplete
  BY DEF Inv, ForwardInv, CopierInv, ForwardIsComplete, Direction, ceased
<1> QED
  BY <1>1, InvCorrect, PTL
=============================================================================
