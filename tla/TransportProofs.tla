--------------------------- MODULE TransportProofs ---------------------------
(***************************************************************************)
(* Proofs about Transport, for every set of ids and every queue bound, and *)
(* about LineReader.                                                       *)
(*                                                                         *)
(* TypeCorrect needs no assumption on the client.  The safety properties   *)
(* are proved for a client that keeps its request ids unique: for one that *)
(* does not, OwedIsCounted is false.                                      *)
(***************************************************************************)
EXTENDS Transport, LineReader, TLAPS, SequenceTheorems, WellFoundedInduction

\* The frames the server queues have the type of a frame.
LEMMA FrameTypes ==
  /\ Plain \in Frame /\ Ack \in Frame /\ Sentinel \in Frame
  /\ \A i \in Ids : Response(i) \in Frame
  BY DEF Plain, Ack, Sentinel, Response, Frame

\* The ids a line carries.
LEMMA LineTypes ==
  ASSUME NEW l \in Lines
  PROVE  l.id \in Ids \cup {NoId} /\ l.of \in Ids \cup {NoId}
  BY DEF Lines

\* The frame being written, and the ones behind it.
LEMMA HeadTypes ==
  ASSUME QueueTypes, queue # <<>>
  PROVE  /\ Head(queue) \in Frame /\ Head(queue).answers \in Ids \cup {NoId}
         /\ Tail(queue) \in Seq(Frame)
<1>1. queue \in Seq(Frame)
  BY DEF QueueTypes
<1>2. Head(queue) \in Frame /\ Tail(queue) \in Seq(Frame)
  BY <1>1, HeadTailProperties
<1>3. QED
  BY <1>2 DEF Frame

-----------------------------------------------------------------------------
\* A step keeps the types.
LEMMA TypeStep == TypeOK /\ [Next]_vars => TypeOK'
<1> SUFFICES ASSUME TypeOK, [Next]_vars
             PROVE  TypeOK'
  OBVIOUS
<1> USE DEF TypeOK, LifecycleTypes, QueueTypes, SessionTypes, HistoryTypes,
      lifecycleVars, queueVars, readerVars, rmcpVars, exitVars, historyVars
<1>1. ASSUME NEW l \in Lines, ForwardRequest(l) PROVE TypeOK'
  <2>1. LifecycleTypes'
    BY <1>1, LineTypes DEF ForwardRequest
  <2>2. QueueTypes'
    BY <1>1, LineTypes DEF ForwardRequest
  <2>3. SessionTypes'
    BY <1>1, LineTypes DEF ForwardRequest
  <2>4. HistoryTypes'
    BY <1>1, LineTypes DEF ForwardRequest
  <2>5. QED
    BY <2>1, <2>2, <2>3, <2>4
<1>2. ASSUME NEW l \in Lines, ForwardCancelled(l) PROVE TypeOK'
  BY <1>2, LineTypes DEF ForwardCancelled
<1>3. ASSUME NEW l \in Lines, ReadShutdown(l) PROVE TypeOK'
  <2>1. LifecycleTypes'
    BY <1>3, FrameTypes DEF ReadShutdown, Enqueue
  <2>2. QueueTypes'
    BY <1>3, FrameTypes DEF ReadShutdown, Enqueue
  <2>3. SessionTypes'
    BY <1>3, FrameTypes DEF ReadShutdown, Enqueue
  <2>4. HistoryTypes'
    BY <1>3, FrameTypes DEF ReadShutdown, Enqueue
  <2>5. QED
    BY <2>1, <2>2, <2>3, <2>4
<1>4. ASSUME NEW l \in Lines, ReadExit(l) PROVE TypeOK'
  BY <1>4 DEF ReadExit
<1>5. CASE ReadRefused
  BY <1>5, FrameTypes DEF ReadRefused, Enqueue
<1>6. CASE ReadUnreadable
  <2>1. LifecycleTypes'
    BY <1>6, FrameTypes DEF ReadUnreadable, Enqueue, EndSession
  <2>2. QueueTypes'
    BY <1>6, FrameTypes DEF ReadUnreadable, Enqueue, EndSession
  <2>3. SessionTypes'
    BY <1>6, FrameTypes DEF ReadUnreadable, Enqueue, EndSession
  <2>4. HistoryTypes'
    BY <1>6, FrameTypes DEF ReadUnreadable, Enqueue, EndSession
  <2>5. QED
    BY <2>1, <2>2, <2>3, <2>4
<1>7. CASE ReadDeadStdout
  <2>1. LifecycleTypes'
    BY <1>7 DEF ReadDeadStdout, EndSession
  <2>2. QueueTypes'
    BY <1>7 DEF ReadDeadStdout, EndSession
  <2>3. SessionTypes'
    BY <1>7 DEF ReadDeadStdout, EndSession
  <2>4. HistoryTypes'
    BY <1>7 DEF ReadDeadStdout, EndSession
  <2>5. QED
    BY <2>1, <2>2, <2>3, <2>4
<1>8. CASE ReadEof
  BY <1>8 DEF ReadEof, EndSession, DrainVerdict
<1>9. CASE DrainPoll
  BY <1>9 DEF DrainPoll, EndSession, DrainVerdict
<1>10. CASE InitializeSucceeds
  BY <1>10 DEF InitializeSucceeds, Repolled
<1>11. CASE PeerSend
  BY <1>11, FrameTypes DEF PeerSend, Enqueue, Repolled
<1>12. ASSUME NEW i \in Ids, Respond(i) PROVE TypeOK'
  BY <1>12, FrameTypes DEF Respond, Enqueue, Repolled
<1>13. ASSUME NEW i \in Ids, RespondUnencodable(i) PROVE TypeOK'
  BY <1>13 DEF RespondUnencodable, Repolled
<1>14. CASE WriteHead
  <2>1. LifecycleTypes'
    BY <1>14, HeadTypes DEF WriteHead
  <2>2. QueueTypes'
    BY <1>14, HeadTypes DEF WriteHead
  <2>3. SessionTypes'
    BY <1>14, HeadTypes DEF WriteHead
  <2>4. HistoryTypes'
    BY <1>14, HeadTypes DEF WriteHead
  <2>5. QED
    BY <2>1, <2>2, <2>3, <2>4
<1>15. CASE SettleHead
  BY <1>15, HeadTypes DEF SettleHead
<1>16. CASE WriteFails
  BY <1>16 DEF WriteFails
<1>17. CASE WriterEnds
  BY <1>17 DEF WriterEnds
<1>18. CASE StartTerminate
  BY <1>18, FrameTypes DEF StartTerminate, Exit
<1>19. CASE FlushAcked
  BY <1>19 DEF FlushAcked, Exit
<1>20. CASE FlushTimeout
  BY <1>20 DEF FlushTimeout, Exit
<1>21. CASE Close
  <2>1. LifecycleTypes'
    BY <1>21 DEF Close
  <2>2. QueueTypes'
    BY <1>21 DEF Close
  <2>3. SessionTypes'
    BY <1>21 DEF Close
  <2>4. HistoryTypes'
    BY <1>21 DEF Close
  <2>5. QED
    BY <2>1, <2>2, <2>3, <2>4
<1>22. CASE CloseJoined
  BY <1>22 DEF CloseJoined
<1>23. CASE MainReturns
  BY <1>23 DEF MainReturns
<1>24. CASE DrainTimer
  BY <1>24 DEF DrainTimer
<1>25. CASE CloseStdin
  BY <1>25 DEF CloseStdin
<1>26. CASE Gone \/ UNCHANGED vars
  BY <1>26 DEF Gone, vars
<1> HIDE DEF TypeOK, lifecycleVars, queueVars, readerVars, rmcpVars, exitVars,
      historyVars
<1>27. QED
  BY <1>1, <1>2, <1>3, <1>4, <1>5, <1>6, <1>7, <1>8, <1>9, <1>10, <1>11,
     <1>12, <1>13, <1>14, <1>15, <1>16, <1>17, <1>18, <1>19, <1>20, <1>21,
     <1>22, <1>23, <1>24, <1>25, <1>26
     DEF Next, Receive, Handlers, Writer, Ending

-----------------------------------------------------------------------------
\* A step of a session whose client keeps its ids unique keeps IInv.
LEMMA InvStep ==
  ASSUME ~ReuseIds, TypeOK, TypeOK', IInv, [Next]_vars
  PROVE  IInv'
<1> USE ConstantsAssumption
    DEF IInv, TypeOK, LifecycleTypes, QueueTypes, SessionTypes, HistoryTypes,
        lifecycleVars, queueVars, readerVars, rmcpVars, exitVars, historyVars
<1>1. ASSUME NEW l \in Lines, ForwardRequest(l) PROVE IInv'
  <2>1. QueueInv'
    BY <1>1, LineTypes DEF QueueInv, ForwardRequest, MayRead, Polled
  <2>2. CountedInv'
    BY <1>1, LineTypes DEF CountedInv, ForwardRequest, MayRead, Polled
  <2>3. SessionInv'
    BY <1>1, LineTypes DEF SessionInv, ForwardRequest, MayRead, Polled
  <2>4. QED
    BY <1>1, <2>1, <2>2, <2>3
       DEF WriterInv, FlushInv, ShutdownIsAcknowledged, ExitHasOneOwner,
           Sentinels, ForwardRequest, MayRead, Polled
<1>2. ASSUME NEW l \in Lines, ForwardCancelled(l) PROVE IInv'
  <2>1. QueueInv'
    BY <1>2, LineTypes DEF QueueInv, ForwardCancelled, MayRead, Polled
  <2>2. CountedInv'
    BY <1>2, LineTypes DEF CountedInv, ForwardCancelled, MayRead, Polled
  <2>3. SessionInv'
    BY <1>2, LineTypes DEF SessionInv, ForwardCancelled, MayRead, Polled
  <2>4. QED
    BY <1>2, <2>1, <2>2, <2>3
       DEF WriterInv, FlushInv, ShutdownIsAcknowledged, ExitHasOneOwner,
           Sentinels, ForwardCancelled, MayRead, Polled
<1>3. ASSUME NEW l \in Lines, ReadShutdown(l) PROVE IInv'
  <2>1. QueueInv'
    BY <1>3, LineTypes
       DEF QueueInv, ReadShutdown, Enqueue, MayRead, Polled, Ack
  <2>2. WriterInv'
    BY <1>3, LineTypes
       DEF WriterInv, ReadShutdown, Enqueue, MayRead, Polled, Ack
  <2>3. FlushInv'
    <3>1. CASE l.id = NoId \/ writer = "ended"
      BY <1>3, <3>1 DEF FlushInv, Sentinels, ReadShutdown, Enqueue
    <3>2. CASE l.id # NoId /\ writer # "ended"
      <4>1. queue' = Append(queue, Ack)
        BY <1>3, <3>2 DEF ReadShutdown, Enqueue
      <4>2. Sentinels' = Sentinels
        BY <4>1 DEF Sentinels, Ack
      <4>3. CASE terminator = "none"
        <5>1. /\ Len(queue) + 1 \in DOMAIN queue'
              /\ queue'[Len(queue) + 1].kind = "ack"
          BY <4>1 DEF Ack
        <5>2. Sentinels' = {} /\ terminator' = "none"
          BY <1>3, <4>2, <4>3 DEF FlushInv, ReadShutdown
        <5>3. QED
          BY <5>1, <5>2 DEF FlushInv
      <4>4. CASE terminator # "none"
        <5>1. UNCHANGED <<terminator, ackQueued, ackOnWire, writeFailed>>
          BY <1>3, <4>4 DEF ReadShutdown
        <5>2. \A k \in DOMAIN queue : k \in DOMAIN queue' /\ queue'[k] = queue[k]
          BY <4>1
        <5>3. QED
          BY <4>2, <5>1, <5>2 DEF FlushInv
      <4>5. QED
        BY <4>3, <4>4
    <3>3. QED
      BY <3>1, <3>2
  <2>4. ShutdownIsAcknowledged'
    BY <1>3, LineTypes
       DEF ShutdownIsAcknowledged, ReadShutdown, Enqueue, MayRead, Polled,
           Ack
  <2>5. QED
    BY <1>3, <2>1, <2>2, <2>3, <2>4
       DEF CountedInv, SessionInv, ExitHasOneOwner, ReadShutdown, Enqueue,
           MayRead, Polled, Ack
<1>4. ASSUME NEW l \in Lines, ReadExit(l) PROVE IInv'
  <2>1. WriterInv'
    BY <1>4 DEF WriterInv, ReadExit, MayRead, Polled
  <2>2. SessionInv'
    BY <1>4 DEF SessionInv, ReadExit, MayRead, Polled
  <2>3. FlushInv'
    BY <1>4 DEF FlushInv, Sentinels, ReadExit, MayRead, Polled
  <2>4. ExitHasOneOwner'
    BY <1>4 DEF ExitHasOneOwner, ReadExit, MayRead, Polled
  <2>5. QED
    BY <1>4, <2>1, <2>2, <2>3, <2>4
       DEF QueueInv, CountedInv, ShutdownIsAcknowledged, ReadExit, MayRead,
           Polled
<1>5. CASE ReadRefused
  <2>1. QueueInv'
    BY <1>5 DEF QueueInv, ReadRefused, Enqueue, MayRead, Polled, Plain
  <2>2. WriterInv'
    BY <1>5 DEF WriterInv, ReadRefused, Enqueue, MayRead, Polled, Plain
  <2>3. FlushInv'
    BY <1>5
       DEF FlushInv, Sentinels, ReadRefused, Enqueue, MayRead, Polled, Plain
  <2>4. QED
    BY <1>5, <2>1, <2>2, <2>3
       DEF CountedInv, SessionInv, ShutdownIsAcknowledged, ExitHasOneOwner,
           ReadRefused, Enqueue, MayRead, Polled, Plain
<1>6. CASE ReadUnreadable
  <2>1. QueueInv'
    BY <1>6
       DEF QueueInv, ReadUnreadable, Enqueue, EndSession, MayRead, Polled,
           Plain
  <2>2. CountedInv'
    BY <1>6
       DEF CountedInv, ReadUnreadable, Enqueue, EndSession, MayRead, Polled,
           Plain
  <2>3. WriterInv'
    BY <1>6
       DEF WriterInv, ReadUnreadable, Enqueue, EndSession, MayRead, Polled,
           Plain
  <2>4. SessionInv'
    BY <1>6
       DEF SessionInv, ReadUnreadable, Enqueue, EndSession, MayRead, Polled,
           Plain
  <2>5. FlushInv'
    BY <1>6
       DEF FlushInv, Sentinels, ReadUnreadable, Enqueue, EndSession,
           MayRead, Polled, Plain
  <2>6. QED
    BY <1>6, <2>1, <2>2, <2>3, <2>4, <2>5
       DEF ShutdownIsAcknowledged, ExitHasOneOwner, ReadUnreadable, Enqueue,
           EndSession, MayRead, Polled, Plain
<1>7. CASE ReadDeadStdout
  <2>1. QueueInv'
    BY <1>7 DEF QueueInv, ReadDeadStdout, EndSession, Polled
  <2>2. CountedInv'
    BY <1>7 DEF CountedInv, ReadDeadStdout, EndSession, Polled
  <2>3. SessionInv'
    BY <1>7 DEF SessionInv, ReadDeadStdout, EndSession, Polled
  <2>4. QED
    BY <1>7, <2>1, <2>2, <2>3
       DEF WriterInv, FlushInv, ShutdownIsAcknowledged, ExitHasOneOwner,
           Sentinels, ReadDeadStdout, EndSession, Polled
<1>8. CASE ReadEof
  <2>1. QueueInv'
    BY <1>8
       DEF QueueInv, ReadEof, EndSession, Polled, DrainOver, DrainVerdict
  <2>2. CountedInv'
    BY <1>8
       DEF CountedInv, ReadEof, EndSession, Polled, DrainOver, DrainVerdict
  <2>3. SessionInv'
    BY <1>8
       DEF SessionInv, CountedInv, ReadEof, EndSession, Polled, DrainOver,
           DrainVerdict
  <2>4. QED
    BY <1>8, <2>1, <2>2, <2>3
       DEF WriterInv, FlushInv, ShutdownIsAcknowledged, ExitHasOneOwner,
           Sentinels, ReadEof, EndSession, Polled, DrainOver, DrainVerdict
<1>9. CASE DrainPoll
  <2>1. QueueInv'
    BY <1>9 DEF QueueInv, DrainPoll, EndSession, DrainOver, DrainVerdict
  <2>2. CountedInv'
    BY <1>9 DEF CountedInv, DrainPoll, EndSession, DrainOver, DrainVerdict
  <2>3. SessionInv'
    BY <1>9
       DEF SessionInv, CountedInv, DrainPoll, EndSession, DrainOver,
           DrainVerdict
  <2>4. QED
    BY <1>9, <2>1, <2>2, <2>3
       DEF WriterInv, FlushInv, ShutdownIsAcknowledged, ExitHasOneOwner,
           Sentinels, DrainPoll, EndSession, DrainOver, DrainVerdict
<1>10. CASE InitializeSucceeds
  BY <1>10
     DEF QueueInv, CountedInv, WriterInv, SessionInv, FlushInv,
         ShutdownIsAcknowledged, ExitHasOneOwner, Sentinels,
         InitializeSucceeds, Repolled
<1>11. CASE PeerSend
  <2>1. QueueInv'
    BY <1>11 DEF QueueInv, PeerSend, Enqueue, Repolled, Plain
  <2>2. WriterInv'
    BY <1>11 DEF WriterInv, PeerSend, Enqueue, Repolled, Plain
  <2>3. FlushInv'
    BY <1>11 DEF FlushInv, Sentinels, PeerSend, Enqueue, Repolled, Plain
  <2>4. QED
    BY <1>11, <2>1, <2>2, <2>3
       DEF CountedInv, SessionInv, ShutdownIsAcknowledged, ExitHasOneOwner,
           PeerSend, Enqueue, Repolled, Plain
<1>12. ASSUME NEW i \in Ids, Respond(i) PROVE IInv'
  <2>1. QueueInv'
    BY <1>12 DEF QueueInv, CountedInv, Respond, Enqueue, Repolled, Response
  <2>2. CountedInv'
    BY <1>12
       DEF CountedInv, SessionInv, WriterInv, Respond, Enqueue, Repolled,
           Response
  <2>3. WriterInv'
    BY <1>12 DEF WriterInv, Respond, Enqueue, Repolled, Response
  <2>4. FlushInv'
    BY <1>12 DEF FlushInv, Sentinels, Respond, Enqueue, Repolled, Response
  <2>5. QED
    BY <1>12, <2>1, <2>2, <2>3, <2>4
       DEF SessionInv, ShutdownIsAcknowledged, ExitHasOneOwner, Respond,
           Enqueue, Repolled, Response
<1>13. ASSUME NEW i \in Ids, RespondUnencodable(i) PROVE IInv'
  <2>1. QueueInv'
    BY <1>13 DEF QueueInv, RespondUnencodable, Repolled
  <2>2. CountedInv'
    BY <1>13 DEF CountedInv, RespondUnencodable, Repolled
  <2>3. SessionInv'
    BY <1>13 DEF SessionInv, RespondUnencodable, Repolled
  <2>4. QED
    BY <1>13, <2>1, <2>2, <2>3
       DEF WriterInv, FlushInv, ShutdownIsAcknowledged, ExitHasOneOwner,
           Sentinels, RespondUnencodable, Repolled
<1>14. CASE WriteHead
  <2>1. CountedInv'
    BY <1>14, HeadTypes DEF CountedInv, QueueInv, WriteHead
  <2>2. WriterInv'
    BY <1>14, HeadTypes DEF WriterInv, WriteHead
  <2>3. SessionInv'
    BY <1>14, HeadTypes DEF SessionInv, WriteHead
  <2>4. FlushInv'
    BY <1>14, HeadTypes DEF FlushInv, Sentinels, WriteHead
  <2>5. ShutdownIsAcknowledged'
    BY <1>14, HeadTypes DEF ShutdownIsAcknowledged, WriteHead
  <2>6. QED
    BY <1>14, <2>1, <2>2, <2>3, <2>4, <2>5
       DEF QueueInv, ExitHasOneOwner, WriteHead
<1>15. CASE SettleHead
  <2>1. QueueInv'
    BY <1>15, HeadTypes DEF QueueInv, SettleHead
  <2>2. CountedInv'
    BY <1>15, HeadTypes
       DEF CountedInv, QueueInv, WriterInv, SessionInv, FlushInv, SettleHead
  <2>3. WriterInv'
    BY <1>15, HeadTypes DEF WriterInv, SettleHead
  <2>4. SessionInv'
    BY <1>15, HeadTypes DEF SessionInv, SettleHead
  <2>5. FlushInv'
    <3>1. queue # <<>> /\ queue' = Tail(queue)
      BY <1>15 DEF SettleHead
    <3>2. \A j \in DOMAIN queue' : j + 1 \in DOMAIN queue
                                    /\ queue'[j] = queue[j + 1]
      BY <3>1
    <3>3. \A j \in Sentinels' : j + 1 \in Sentinels
      BY <3>2 DEF Sentinels
    <3>4. terminator' \in {"none", "spawned"} => Sentinels' = {}
      BY <1>15, <3>3 DEF SettleHead, FlushInv
    <3>5. ASSUME ackQueued, ~writeFailed, ~ackOnWire
          PROVE  /\ terminator' # "acked"
                 /\ \E k \in DOMAIN queue' : /\ queue'[k].kind = "ack"
                                             /\ \A j \in Sentinels' : k < j
      <4>1. PICK k \in DOMAIN queue : /\ queue[k].kind = "ack"
                                      /\ \A j \in Sentinels : k < j
        BY <3>5 DEF FlushInv
      <4>2. k # 1 /\ 1 \notin Sentinels
        BY <1>15, <3>1, <3>5, <4>1 DEF WriterInv, SettleHead, Sentinels
      <4>3. terminator' # "acked"
        BY <1>15, <3>1, <3>5, <4>2 DEF SettleHead, Sentinels, FlushInv
      <4>4. k - 1 \in DOMAIN queue' /\ queue'[k - 1].kind = "ack"
        BY <3>1, <4>1, <4>2
      <4>5. \A j \in Sentinels' : k - 1 < j
        BY <3>3, <4>1 DEF Sentinels
      <4>6. QED
        BY <4>3, <4>4, <4>5
    <3>6. QED
      BY <1>15, <3>4, <3>5 DEF FlushInv, SettleHead
  <2>6. ExitHasOneOwner'
    BY <1>15, HeadTypes DEF ExitHasOneOwner, SettleHead
  <2>7. QED
    BY <1>15, <2>1, <2>2, <2>3, <2>4, <2>5, <2>6
       DEF ShutdownIsAcknowledged, SettleHead
<1>16. CASE WriteFails
  <2>1. QueueInv'
    BY <1>16 DEF QueueInv, WriteFails, Answered
  <2>2. CountedInv'
    BY <1>16 DEF CountedInv, QueueInv, WriteFails, Answered
  <2>3. WriterInv'
    BY <1>16 DEF WriterInv, WriteFails, Answered
  <2>4. SessionInv'
    BY <1>16 DEF SessionInv, WriteFails, Answered
  <2>5. FlushInv'
    BY <1>16 DEF FlushInv, Sentinels, WriteFails, Answered
  <2>6. ShutdownIsAcknowledged'
    BY <1>16 DEF ShutdownIsAcknowledged, WriteFails, Answered
  <2>7. ExitHasOneOwner'
    BY <1>16 DEF ExitHasOneOwner, WriteFails, Answered
  <2>8. QED
    BY <2>1, <2>2, <2>3, <2>4, <2>5, <2>6, <2>7
<1>17. CASE WriterEnds
  <2>1. WriterInv'
    BY <1>17 DEF WriterInv, WriterEnds
  <2>2. QED
    BY <1>17, <2>1
       DEF QueueInv, CountedInv, SessionInv, FlushInv,
           ShutdownIsAcknowledged, ExitHasOneOwner, Sentinels, WriterEnds
<1>18. CASE StartTerminate
  <2>1. QueueInv'
    BY <1>18 DEF QueueInv, StartTerminate, Exit, Sentinel
  <2>2. WriterInv'
    BY <1>18 DEF WriterInv, StartTerminate, Exit, Sentinel
  <2>3. SessionInv'
    BY <1>18 DEF SessionInv, StartTerminate, Exit, Sentinel
  <2>4. FlushInv'
    <3>1. CASE queue' = queue
      BY <1>18, <3>1 DEF FlushInv, Sentinels, StartTerminate
    <3>2. CASE queue' = Append(queue, Sentinel) /\ terminator' = "flushing"
      <4>1. \A j \in Sentinels' : j \in Sentinels \/ j = Len(queue) + 1
        BY <3>2 DEF Sentinels
      <4>2. \A k \in DOMAIN queue : /\ k \in DOMAIN queue' /\ queue'[k] = queue[k]
                                    /\ k < Len(queue) + 1
        BY <3>2
      <4>3. UNCHANGED <<ackQueued, ackOnWire, writeFailed>>
        BY <1>18 DEF StartTerminate
      <4>4. QED
        BY <3>2, <4>1, <4>2, <4>3 DEF FlushInv
    <3>3. QED
      BY <1>18, <3>1, <3>2 DEF StartTerminate
  <2>5. ShutdownIsAcknowledged'
    <3>1. CASE writer # "ended" /\ attached
      BY <1>18, <3>1 DEF StartTerminate, ShutdownIsAcknowledged
    <3>2. CASE writer = "ended" \/ ~attached
      <4>1. writeFailed
        BY <1>18, <3>2 DEF StartTerminate, WriterInv, SessionInv
      <4>2. QED
        BY <1>18, <4>1 DEF StartTerminate, ShutdownIsAcknowledged
    <3>3. QED
      BY <3>1, <3>2
  <2>6. ExitHasOneOwner'
    BY <1>18 DEF ExitHasOneOwner, StartTerminate, Exit, Sentinel
  <2>7. QED
    BY <1>18, <2>1, <2>2, <2>3, <2>4, <2>5, <2>6
       DEF CountedInv, StartTerminate, Exit, Sentinel
<1>19. CASE FlushAcked
  <2>1. SessionInv'
    BY <1>19 DEF SessionInv, FlushAcked, Exit
  <2>2. ShutdownIsAcknowledged'
    BY <1>19 DEF ShutdownIsAcknowledged, FlushInv, FlushAcked, Exit
  <2>3. ExitHasOneOwner'
    BY <1>19 DEF ExitHasOneOwner, FlushAcked, Exit
  <2>4. QED
    BY <1>19, <2>1, <2>2, <2>3
       DEF QueueInv, CountedInv, WriterInv, FlushInv, Sentinels, FlushAcked,
           Exit
<1>20. CASE FlushTimeout
  <2>1. SessionInv'
    BY <1>20 DEF SessionInv, FlushTimeout, Exit
  <2>2. ShutdownIsAcknowledged'
    BY <1>20 DEF ShutdownIsAcknowledged, FlushTimeout, Exit
  <2>3. ExitHasOneOwner'
    BY <1>20 DEF ExitHasOneOwner, FlushTimeout, Exit
  <2>4. QED
    BY <1>20, <2>1, <2>2, <2>3
       DEF QueueInv, CountedInv, WriterInv, FlushInv, Sentinels,
           FlushTimeout, Exit
<1>21. CASE Close
  <2>1. WriterInv'
    BY <1>21 DEF WriterInv, Close
  <2>2. SessionInv'
    BY <1>21 DEF SessionInv, Close
  <2>3. QED
    BY <1>21, <2>1, <2>2
       DEF QueueInv, CountedInv, FlushInv, ShutdownIsAcknowledged,
           ExitHasOneOwner, Sentinels, Close
<1>22. CASE CloseJoined
  <2>1. SessionInv'
    BY <1>22 DEF SessionInv, WriterInv, CloseJoined
  <2>2. QED
    BY <1>22, <2>1
       DEF QueueInv, CountedInv, WriterInv, FlushInv,
           ShutdownIsAcknowledged, ExitHasOneOwner, Sentinels, CloseJoined
<1>23. CASE MainReturns
  <2>1. SessionInv'
    BY <1>23 DEF SessionInv, MainReturns
  <2>2. ShutdownIsAcknowledged'
    BY <1>23 DEF ShutdownIsAcknowledged, MainReturns
  <2>3. ExitHasOneOwner'
    BY <1>23 DEF ExitHasOneOwner, SessionInv, MainReturns
  <2>4. QED
    BY <1>23, <2>1, <2>2, <2>3
       DEF QueueInv, CountedInv, WriterInv, FlushInv, Sentinels, MainReturns
<1>24. CASE DrainTimer \/ CloseStdin \/ Gone \/ UNCHANGED vars
  BY <1>24 DEF DrainTimer, CloseStdin, Gone, vars, QueueInv, CountedInv, WriterInv,
     SessionInv, FlushInv, Sentinels, ShutdownIsAcknowledged, ExitHasOneOwner
<1>25. QED
  BY <1>1, <1>2, <1>3, <1>4, <1>5, <1>6, <1>7, <1>8, <1>9, <1>10, <1>11,
     <1>12, <1>13, <1>14, <1>15, <1>16, <1>17, <1>18, <1>19, <1>20, <1>21,
     <1>22, <1>23, <1>24
     DEF Next, Receive, Handlers, Writer, Ending

-----------------------------------------------------------------------------
\* Every reachable state has the types the module gives its variables.
THEOREM TypeCorrect == Spec => []TypeOK
<1>1. Init => TypeOK
  <2>1. <<>> \in Seq(Frame)
    OBVIOUS
  <2>2. QED
    BY <2>1 DEF Init, TypeOK, LifecycleTypes, QueueTypes, SessionTypes,
                HistoryTypes
<1>2. QED
  BY <1>1, TypeStep, PTL DEF Spec

\* The inductive invariant holds in every state a client that keeps its ids
\* unique can reach.
THEOREM Inductive ==
  ASSUME ~ReuseIds
  PROVE  Spec => [](TypeOK /\ IInv)
<1>1. Init => IInv
  BY DEF Init, IInv, QueueInv, CountedInv, WriterInv, SessionInv, FlushInv,
         Sentinels, ShutdownIsAcknowledged, ExitHasOneOwner
<1>2. TypeOK /\ TypeOK' /\ IInv /\ [Next]_vars => IInv'
  BY InvStep
<1>3. QED
  BY <1>1, <1>2, TypeCorrect, PTL DEF Spec

\* A request RMCP is still going to answer is in the set that end of input
\* waits on.
THEOREM OwedAlwaysCounted ==
  ASSUME ~ReuseIds
  PROVE  Spec => []OwedIsCounted
<1>1. IInv => OwedIsCounted
  BY DEF IInv, CountedInv, OwedIsCounted
<1>2. QED
  BY <1>1, Inductive, PTL

\* A session that ends because nothing is owed has written every response.
THEOREM EofNeverLoses ==
  ASSUME ~ReuseIds
  PROVE  Spec => []EofLosesNothing
<1>1. IInv => EofLosesNothing
  BY DEF IInv, SessionInv, EofLosesNothing
<1>2. QED
  BY <1>1, Inductive, PTL

\* The acknowledgement of a shutdown precedes the exit it was pipelined with.
THEOREM ShutdownAlwaysAcknowledged ==
  ASSUME ~ReuseIds
  PROVE  Spec => []ShutdownIsAcknowledged
<1>1. IInv => ShutdownIsAcknowledged
  BY DEF IInv
<1>2. QED
  BY <1>1, Inductive, PTL

\* Once exit has been read, main never ends the process in terminate's place.
THEOREM ExitAlwaysOwned ==
  ASSUME ~ReuseIds
  PROVE  Spec => []ExitHasOneOwner
<1>1. IInv => ExitHasOneOwner
  BY DEF IInv
<1>2. QED
  BY <1>1, Inductive, PTL

\* A session whose stdout is gone, or that has read shutdown, hands no further
\* request to RMCP.
THEOREM NothingMoreIsAccepted ==
  ASSUME ~ReuseIds
  PROVE  Spec => NothingMoreAccepted
<1>1. ASSUME TypeOK, IInv, Next, writeFailed \/ shutdown
      PROVE  dispatched' = dispatched
  <2>1. writeFailed => permit \/ session # "open"
    BY <1>1 DEF IInv, SessionInv
  <2>2. ASSUME NEW l \in Lines
        PROVE  ~ForwardRequest(l)
    <3>1. writeFailed => ~MayRead
      BY <2>1 DEF MayRead, Polled
    <3>2. shutdown => Gate(l) # "Forward"
      BY DEF Gate, Answer
    <3>3. QED
      BY <1>1, <3>1, <3>2 DEF ForwardRequest
  <2>3. CASE Receive
    BY <2>2, <2>3 DEF Receive, ForwardCancelled, ReadShutdown, ReadExit,
       ReadRefused, ReadUnreadable, ReadDeadStdout, ReadEof, DrainPoll, historyVars
  <2>4. CASE Handlers
    BY <2>4 DEF Handlers, InitializeSucceeds, PeerSend, Respond,
       RespondUnencodable, historyVars
  <2>5. CASE Writer
    BY <2>5 DEF Writer, WriteHead, SettleHead, WriteFails, WriterEnds, historyVars
  <2>6. CASE Ending
    BY <2>6 DEF Ending, StartTerminate, FlushAcked, FlushTimeout, Close,
       CloseJoined, MainReturns, historyVars
  <2>7. CASE DrainTimer \/ CloseStdin \/ Gone
    BY <2>7 DEF DrainTimer, CloseStdin, Gone, vars, historyVars
  <2>8. QED
    BY <1>1, <2>3, <2>4, <2>5, <2>6, <2>7 DEF Next
<1>2. TypeOK /\ IInv /\ [Next]_vars
        => [writeFailed \/ shutdown => dispatched' = dispatched]_vars
  BY <1>1
<1>3. QED
  BY <1>2, Inductive, PTL DEF Spec, NothingMoreAccepted

-----------------------------------------------------------------------------
(***************************************************************************)
(* Transport implements RequestLedger, for every set of ids: the accounts  *)
(* are read off the history of the session (Account, Closed), and each     *)
(* step of the session moves one account, closes the ledger, or does       *)
(* neither.                                                                *)
(***************************************************************************)

\* What the accounts are made of.  A step that leaves it alone is a stutter.
books == <<dispatched, waived, onWire, ending>>

LEMMA BooksStutter == UNCHANGED books => UNCHANGED Ledger!vars
  BY DEF books, Ledger!vars, Account, Closed

\* A ledger is open exactly while the session is.
LEMMA ClosedValues ==
  ASSUME TypeOK, IInv
  PROVE  /\ session = "open" <=> Closed = "open"
         /\ ending = "answered" <=> Closed = "orderly"
  BY DEF TypeOK, HistoryTypes, IInv, SessionInv, Closed

\* Ending the session closes the ledger: in order only when nothing is owed.
LEMMA EndingCloses ==
  ASSUME TypeOK, TypeOK', IInv, IInv', session = "open",
         ending' # "none", UNCHANGED <<dispatched, waived, onWire>>
  PROVE  Ledger!Next
<1>1. Closed = "open" /\ UNCHANGED Account
  BY ClosedValues DEF Account
<1>2. CASE ending' = "answered"
  <2>1. dispatched \subseteq onWire \cup waived
    BY <1>2 DEF IInv, SessionInv
  <2>2. Ledger!Owed = {}
    BY <2>1 DEF Ledger!Owed, Account
  <2>3. Closed' = "orderly"
    BY <1>2 DEF Closed
  <2>4. QED
    BY <1>1, <2>2, <2>3 DEF Ledger!Next, Ledger!CloseInOrder
<1>3. CASE ending' # "answered"
  <2>1. Closed' = "broken"
    BY <1>3 DEF Closed, TypeOK, HistoryTypes
  <2>2. QED
    BY <1>1, <2>1 DEF Ledger!Next, Ledger!Break
<1>4. QED
  BY <1>2, <1>3

\* A new id of `dispatched` is a request the ledger accepts.
LEMMA DispatchAccepts ==
  ASSUME TypeOK, IInv, session = "open", NEW i \in Ids, i \notin dispatched,
         dispatched' = dispatched \cup {i}, UNCHANGED <<waived, onWire, ending>>
  PROVE  Ledger!Accept(i)
<1>1. Closed = "open" /\ UNCHANGED Closed
  BY ClosedValues DEF Closed
<1>2. i \notin waived /\ i \notin onWire
  BY DEF IInv, CountedInv
<1>3. Account[i] = "new" /\ Account' = [Account EXCEPT ![i] = "owed"]
  BY <1>2 DEF Account
<1>4. QED
  BY <1>1, <1>3 DEF Ledger!Accept

\* A new id of `waived` is a request the ledger waives, or had answered.
LEMMA WaiverWaives ==
  ASSUME TypeOK, IInv, session = "open", NEW i \in Ids, i \in dispatched,
         waived' = waived \cup {i}, UNCHANGED <<dispatched, onWire, ending>>
  PROVE  Ledger!Waive(i) \/ UNCHANGED Ledger!vars
<1>1. Closed = "open" /\ UNCHANGED Closed
  BY ClosedValues DEF Closed
<1>2. CASE i \in onWire \cup waived
  BY <1>1, <1>2 DEF Ledger!vars, Account
<1>3. CASE i \notin onWire \cup waived
  <2>1. Account[i] = "owed" /\ Account' = [Account EXCEPT ![i] = "waived"]
    BY <1>3 DEF Account
  <2>2. QED
    BY <1>1, <2>1 DEF Ledger!Waive
<1>4. QED
  BY <1>2, <1>3

\* A new id on the wire is a request the ledger has answered.
LEMMA WireAnswers ==
  ASSUME NEW i \in Ids, i \in dispatched,
         onWire' = onWire \cup {i}, UNCHANGED <<dispatched, waived, ending>>
  PROVE  Ledger!Answer(i) \/ UNCHANGED Ledger!vars
<1>1. UNCHANGED Closed
  BY DEF Closed
<1>2. CASE i \in onWire
  BY <1>1, <1>2 DEF Ledger!vars, Account
<1>3. CASE i \notin onWire
  <2>1. /\ Account[i] \in {"owed", "waived"}
        /\ Account' = [Account EXCEPT ![i] = "answered"]
    BY <1>3 DEF Account
  <2>2. QED
    BY <1>1, <2>1 DEF Ledger!Answer
<1>4. QED
  BY <1>2, <1>3

\* Every step of the session is a step of the ledger or a stutter.
LEMMA LedgerStep ==
  ASSUME ~ReuseIds, TypeOK, TypeOK', IInv, IInv', [Next]_vars
  PROVE  [Ledger!Next]_Ledger!vars
<1> USE DEF historyVars, books
<1>1. ASSUME NEW l \in Lines, ForwardRequest(l) PROVE [Ledger!Next]_Ledger!vars
  <2>1. l.id \in Ids /\ l.id \notin dispatched /\ session = "open"
    BY <1>1, LineTypes DEF ForwardRequest, MayRead, Polled
  <2>2. Ledger!Accept(l.id)
    BY <1>1, <2>1, DispatchAccepts DEF ForwardRequest
  <2>3. QED
    BY <2>1, <2>2 DEF Ledger!Next
<1>2. ASSUME NEW l \in Lines, ForwardCancelled(l) PROVE [Ledger!Next]_Ledger!vars
  <2>1. CASE l.of \in dispatched
    <3>1. l.of \in Ids /\ session = "open" /\ waived' = waived \cup {l.of}
      BY <1>2, <2>1 DEF ForwardCancelled, MayRead, Polled, TypeOK, HistoryTypes
    <3>2. Ledger!Waive(l.of) \/ UNCHANGED Ledger!vars
      BY <1>2, <2>1, <3>1, WaiverWaives DEF ForwardCancelled
    <3>3. QED
      BY <3>1, <3>2 DEF Ledger!Next
  <2>2. CASE l.of \notin dispatched
    BY <1>2, <2>2, BooksStutter DEF ForwardCancelled
  <2>3. QED
    BY <2>1, <2>2
<1>3. ASSUME NEW i \in Ids, RespondUnencodable(i) PROVE [Ledger!Next]_Ledger!vars
  <2>1. i \in dispatched /\ session = "open"
    BY <1>3 DEF RespondUnencodable, IInv, CountedInv
  <2>2. Ledger!Waive(i) \/ UNCHANGED Ledger!vars
    BY <1>3, <2>1, WaiverWaives DEF RespondUnencodable
  <2>3. QED
    BY <2>2 DEF Ledger!Next
<1>4. CASE WriteHead
  <2>1. DOMAIN queue = 1 .. Len(queue) /\ queue # <<>> /\ Head(queue) = queue[1]
        /\ 1 \in DOMAIN queue
    BY <1>4 DEF WriteHead, TypeOK, QueueTypes
  <2>2. Head(queue).answers \in dispatched \cup {NoId}
    BY <2>1 DEF IInv, QueueInv
  <2>3. CASE Head(queue).answers = NoId
    BY <1>4, <2>3, BooksStutter DEF WriteHead
  <2>4. CASE Head(queue).answers \in dispatched
    <3>1. /\ Head(queue).answers \in Ids
          /\ onWire' = onWire \cup {Head(queue).answers}
      BY <1>4, <2>4, ConstantsAssumption DEF WriteHead, TypeOK, HistoryTypes
    <3>2. Ledger!Answer(Head(queue).answers) \/ UNCHANGED Ledger!vars
      BY <1>4, <2>4, <3>1, WireAnswers DEF WriteHead
    <3>3. QED
      BY <3>1, <3>2 DEF Ledger!Next
  <2>5. QED
    BY <2>2, <2>3, <2>4
<1>5. CASE ReadUnreadable \/ ReadDeadStdout \/ DrainPoll \/ ReadEof
  <2>1. CASE ending' = ending
    <3>1. UNCHANGED books
      BY <1>5, <2>1 DEF ReadUnreadable, ReadDeadStdout, DrainPoll, ReadEof
    <3>2. QED
      BY <3>1, BooksStutter
  <2>2. CASE ending' # ending
    <3>1. session = "open" /\ UNCHANGED <<dispatched, waived, onWire>>
      BY <1>5 DEF ReadUnreadable, ReadDeadStdout, DrainPoll, ReadEof, MayRead,
                  Polled
    <3>2. ending' # "none"
      BY <2>2, <3>1 DEF IInv, SessionInv
    <3>3. QED
      BY <3>1, <3>2, EndingCloses
  <2>3. QED
    BY <2>1, <2>2
<1>6. CASE (\E l \in Lines : ReadShutdown(l) \/ ReadExit(l)) \/ ReadRefused
  BY <1>6, BooksStutter DEF ReadShutdown, ReadExit, ReadRefused
<1>7. CASE InitializeSucceeds \/ PeerSend \/ \E i \in Ids : Respond(i)
  BY <1>7, BooksStutter DEF InitializeSucceeds, PeerSend, Respond
<1>8. CASE SettleHead \/ WriteFails \/ WriterEnds
  BY <1>8, BooksStutter DEF SettleHead, WriteFails, WriterEnds
<1>9. CASE Ending
  BY <1>9, BooksStutter DEF Ending, StartTerminate, FlushAcked, FlushTimeout,
                            Close, CloseJoined, MainReturns
<1>10. CASE DrainTimer \/ CloseStdin
  BY <1>10, BooksStutter DEF DrainTimer, CloseStdin
<1>11. CASE Gone \/ UNCHANGED vars
  BY <1>11, BooksStutter DEF Gone, vars
<1> HIDE DEF historyVars, books
<1>12. QED
  BY <1>1, <1>2, <1>3, <1>4, <1>5, <1>6, <1>7, <1>8, <1>9, <1>10, <1>11
     DEF Next, Receive, Handlers, Writer

\* A session whose client keeps its ids unique implements the ledger.
THEOREM Refinement ==
  ASSUME ~ReuseIds
  PROVE  Spec => ImplementsLedger
<1>1. Init => Ledger!Init
  BY DEF Init, Ledger!Init, Account, Closed
<1>2. /\ TypeOK /\ TypeOK' /\ IInv /\ IInv' /\ [Next]_vars
      => [Ledger!Next]_Ledger!vars
  BY LedgerStep
<1>3. QED
  BY <1>1, <1>2, Inductive, PTL DEF Spec, ImplementsLedger, Ledger!Spec

-----------------------------------------------------------------------------
(***************************************************************************)
(* LineReader, which the transport takes its lines from, for any limits,   *)
(* any input and whatever reads are dropped.  First the bound on `raw`;    *)
(* then how a fold over the bytes is reasoned about; then the lines.       *)
(***************************************************************************)

RawInv == raw \in Seq(Bytes) /\ arrived \in Seq(Bytes) /\ RawIsBounded

LEMMA Smallest ==
  ASSUME NEW ends \in SUBSET Nat, ends # {}
  PROVE  \E k \in ends : \A j \in ends : k <= j
<1> DEFINE R == {ss \in Nat \X Nat : ss[1] < ss[2]}
<1>1. IsWellFoundedOn(R, Nat)
  BY NatLessThanWellFounded DEF OpToRel
<1>2. PICK k \in ends : \A j \in ends : ~(<<j, k>> \in R)
  <2> HIDE DEF R
  <2>1. QED
    BY <1>1, WFMin, Zenon
<1>3. ASSUME NEW j \in ends PROVE k <= j
  <2>1. j \in Nat /\ k \in Nat /\ ~(<<j, k>> \in R)
    BY <1>2
  <2>2. ~(j < k)
    BY <2>1
  <2>3. QED
    BY <2>1, <2>2
<1>4. QED
  BY <1>3

LEMMA DiscardTakesASuffix ==
  ASSUME RawInv, NEW n \in 1 .. Len(arrived), DiscardChunk(n)
  PROVE  arrived' \in Seq(Bytes)
<1> DEFINE ends == {k \in 1 .. n : arrived[k] = "newline"}
           taken == IF ends = {} THEN n ELSE CHOOSE k \in ends : \A j \in ends : k <= j
<1>1. arrived' = SubSeq(arrived, taken + 1, Len(arrived))
  BY DEF DiscardChunk
<1>2. taken \in 1 .. Len(arrived)
  <2>1. ends \in SUBSET Nat /\ ends \subseteq 1 .. n /\ n \in 1 .. Len(arrived)
    OBVIOUS
  <2> HIDE DEF ends
  <2>2. ends # {} => (CHOOSE k \in ends : \A j \in ends : k <= j) \in ends
    BY <2>1, Smallest
  <2>3. CASE ends = {}
    BY <2>1, <2>3
  <2>4. CASE ends # {}
    <3>1. taken \in ends
      BY <2>2, <2>4
    <3> HIDE DEF taken
    <3>2. taken \in 1 .. n
      BY <2>1, <3>1
    <3>3. Len(arrived) \in Nat
      BY DEF RawInv
    <3>4. QED
      BY <2>1, <3>2, <3>3
  <2>5. QED
    BY <2>3, <2>4
<1> HIDE DEF taken
<1>3. QED
  BY <1>1, <1>2 DEF RawInv

LEMMA RawStep == RawInv /\ [ReaderNext]_streamVars => RawInv'
<1> SUFFICES ASSUME RawInv, [ReaderNext]_streamVars PROVE RawInv'
  OBVIOUS
<1>1. ASSUME NEW b \in Bytes, Send(b) PROVE RawInv'
  BY <1>1 DEF Send, RawInv, RawIsBounded
<1>2. CASE ReadByte
  <2>1. Len(raw) <= MaxLine
    BY <1>2, LineReaderAssumption DEF ReadByte, Budget, RawInv
  <2>2. Head(arrived) \in Bytes /\ Tail(arrived) \in Seq(Bytes)
    BY <1>2 DEF ReadByte, RawInv
  <2>3. QED
    BY <1>2, <2>1, <2>2, LineReaderAssumption DEF ReadByte, RawInv, RawIsBounded
<1>3. CASE FinishLine \/ DiscardEof
  <2>1. raw' = <<>> /\ arrived' = arrived
    BY <1>3 DEF FinishLine, DiscardEof
  <2>2. QED
    BY <2>1, LineReaderAssumption DEF RawInv, RawIsBounded
<1>4. ASSUME NEW n \in 1 .. MaxSent, DiscardChunk(n) PROVE RawInv'
  <2>1. n \in 1 .. Len(arrived) /\ raw' \in {raw, <<>>}
    BY <1>4 DEF DiscardChunk
  <2>2. arrived' \in Seq(Bytes)
    BY <1>4, <2>1, DiscardTakesASuffix
  <2>3. CASE raw' = raw
    BY <2>2, <2>3 DEF RawInv, RawIsBounded
  <2>4. CASE raw' = <<>>
    BY <2>2, <2>4, LineReaderAssumption DEF RawInv, RawIsBounded
  <2>5. QED
    BY <2>1, <2>3, <2>4
<1>5. CASE HangUp \/ StartDiscard \/ ReportEof \/ ReadError \/ Cancel \/ Over \/ UNCHANGED streamVars
  BY <1>5 DEF HangUp, StartDiscard, ReportEof, ReadError, Cancel, Over, streamVars, RawInv,
              RawIsBounded
<1>6. QED
  BY <1>1, <1>2, <1>3, <1>4, <1>5 DEF ReaderNext

\* A line takes no more than MAX_LINE_BYTES and one byte of memory, however many reads of it
\* are dropped: what a new read may still take is what the old ones have left.
THEOREM RawAlwaysBounded == ReaderSpec => []RawIsBounded
<1>1. ReaderInit => RawInv
  BY LineReaderAssumption DEF ReaderInit, RawInv, RawIsBounded
<1>2. RawInv => RawIsBounded
  BY DEF RawInv
<1>3. QED
  BY <1>1, <1>2, RawStep, PTL DEF ReaderSpec

-----------------------------------------------------------------------------
(***************************************************************************)
(* The lines themselves.  First, that the framing of a byte stream is what *)
(* one more byte makes of the framing before it: a fold is defined by a    *)
(* CHOOSE over functions, so one must be shown to exist and to be unique.  *)
(***************************************************************************)

LEMMA NatInduct ==
  ASSUME NEW P \in SUBSET Nat, 0 \in P, \A m \in P : m + 1 \in P
  PROVE  P = Nat
<1> SUFFICES ASSUME Nat \ P # {} PROVE FALSE
  OBVIOUS
<1> DEFINE rest == Nat \ P
<1>1. PICK low \in rest : \A j \in rest : low <= j
  <2>1. rest \in SUBSET Nat /\ rest # {}
    OBVIOUS
  <2> HIDE DEF rest
  <2>2. QED
    BY <2>1, Smallest
<1>2. low \in Nat /\ low # 0
  OBVIOUS
<1>3. low - 1 \in Nat /\ ~(low <= low - 1) /\ (low - 1) + 1 = low
  BY <1>2
<1>4. low - 1 \in P
  BY <1>1, <1>3
<1>5. QED
  BY <1>3, <1>4

LEMMA MaxOfRange ==
  ASSUME NEW m \in Nat, NEW T \in SUBSET (1 .. m + 1), m + 1 \in T
  PROVE  Max(T) = m + 1
<1>1. m + 1 \in T /\ \A y \in T : m + 1 >= y
  OBVIOUS
<1>2. \A x \in T : (\A y \in T : x >= y) => x = m + 1
  <2>1. SUFFICES ASSUME NEW x \in T, x >= m + 1 PROVE x = m + 1
    OBVIOUS
  <2>2. x \in 1 .. m + 1
    OBVIOUS
  <2>3. QED
    BY <2>1, <2>2
<1>3. QED
  BY <1>1, <1>2 DEF Max

\* `g` folds the bytes of every set of places, highest place last.
Folds(bytes, n, g) ==
  g = [T \in SUBSET (1 .. n) |->
         IF T = {} THEN NoLines
         ELSE LET x == Max(T) IN TakeByte(g[T \ {x}], bytes[x])]

LEMMA FoldExtends ==
  ASSUME NEW bytes, NEW m \in Nat, NEW g, Folds(bytes, m, g)
  PROVE  \E h : Folds(bytes, m + 1, h)
<1> DEFINE h == [T \in SUBSET (1 .. m + 1) |->
                   IF m + 1 \in T THEN TakeByte(g[T \ {m + 1}], bytes[m + 1]) ELSE g[T]]
<1>1. ASSUME NEW T \in SUBSET (1 .. m + 1)
      PROVE  h[T] = IF T = {} THEN NoLines ELSE TakeByte(h[T \ {Max(T)}], bytes[Max(T)])
  <2>1. CASE m + 1 \in T
    <3>1. Max(T) = m + 1
      BY <2>1, MaxOfRange
    <3>2. T \ {m + 1} \in SUBSET (1 .. m + 1) /\ ~(m + 1 \in T \ {m + 1})
      OBVIOUS
    <3>3. h[T \ {m + 1}] = g[T \ {m + 1}]
      BY <3>2
    <3>4. h[T] = TakeByte(g[T \ {m + 1}], bytes[m + 1])
      BY <2>1
    <3> HIDE DEF h
    <3>5. QED
      BY <2>1, <3>1, <3>3, <3>4
  <2>2. CASE ~(m + 1 \in T)
    <3>1. T \in SUBSET (1 .. m)
      BY <2>2
    <3>2. h[T] = g[T]
      BY <2>2
    <3>3. T \ {Max(T)} \in SUBSET (1 .. m + 1) /\ ~(m + 1 \in T \ {Max(T)})
      BY <2>2
    <3>4. h[T \ {Max(T)}] = g[T \ {Max(T)}]
      BY <3>3
    <3> HIDE DEF h
    <3>5. g[T] = IF T = {} THEN NoLines ELSE TakeByte(g[T \ {Max(T)}], bytes[Max(T)])
      BY <3>1, Zenon DEF Folds
    <3>6. QED
      BY <3>2, <3>4, <3>5
  <2>3. QED
    BY <2>1, <2>2
<1>2. h = [T \in SUBSET (1 .. m + 1) |->
             IF T = {} THEN NoLines ELSE TakeByte(h[T \ {Max(T)}], bytes[Max(T)])]
  <2>1. h = [T \in SUBSET (1 .. m + 1) |-> h[T]]
    OBVIOUS
  <2> HIDE DEF h
  <2>2. QED
    BY <1>1, <2>1, Zenon
<1> HIDE DEF h
<1>3. QED
  BY <1>2, Zenon DEF Folds

LEMMA FoldExists ==
  ASSUME NEW bytes, NEW n \in Nat
  PROVE  \E g : Folds(bytes, n, g)
<1> DEFINE P == {m \in Nat : \E g : Folds(bytes, m, g)}
<1>1. 0 \in P
  <2> DEFINE g == [T \in SUBSET (1 .. 0) |-> NoLines]
  <2>1. \A T \in SUBSET (1 .. 0) : T = {}
    OBVIOUS
  <2>2. g = [T \in SUBSET (1 .. 0) |->
               IF T = {} THEN NoLines ELSE TakeByte(g[T \ {Max(T)}], bytes[Max(T)])]
    BY <2>1, Zenon
  <2> HIDE DEF g
  <2>3. Folds(bytes, 0, g)
    BY <2>2, Zenon DEF Folds
  <2>4. QED
    BY <2>3
<1>2. ASSUME NEW m \in P PROVE m + 1 \in P
  BY FoldExtends
<1>3. P \in SUBSET Nat
  OBVIOUS
<1> HIDE DEF P
<1>4. P = Nat
  BY <1>1, <1>2, <1>3, NatInduct
<1>5. QED
  BY <1>4 DEF P

LEMMA FramingFolds ==
  ASSUME NEW bytes \in Seq(Bytes)
  PROVE  \E g : Folds(bytes, Len(bytes), g) /\ Framing(bytes) = g[1 .. Len(bytes)]
<1>1. DOMAIN bytes = 1 .. Len(bytes) /\ Len(bytes) \in Nat
  OBVIOUS
<1> DEFINE g == CHOOSE iter : Folds(bytes, Len(bytes), iter)
<1>2. Folds(bytes, Len(bytes), g)
  BY <1>1, FoldExists, Zenon
<1>3. Framing(bytes) =
        (CHOOSE iter : iter = [T \in SUBSET DOMAIN bytes |->
                                 IF T = {} THEN NoLines
                                 ELSE LET x == Max(T) IN TakeByte(iter[T \ {x}], bytes[x])])
          [DOMAIN bytes]
  BY Zenon DEF Framing, FoldLeft, MapThenFoldSet
<1>4. Framing(bytes) = g[1 .. Len(bytes)]
  BY <1>1, <1>3, Zenon DEF Folds
<1> HIDE DEF g
<1>5. QED
  BY <1>2, <1>4

\* What a fold finds in the first places depends on the bytes there alone.
LEMMA FoldPrefix ==
  ASSUME NEW s, NEW t, NEW n \in Nat, NEW g, NEW h,
         Folds(s, n, g), Folds(t, n + 1, h), \A k \in 1 .. n : s[k] = t[k]
  PROVE  h[1 .. n] = g[1 .. n]
<1> DEFINE P == {m \in Nat : m <= n => h[1 .. m] = g[1 .. m]}
<1>1. 0 \in P
  <2>1. 1 .. 0 = {}
    OBVIOUS
  <2>2. {} \in SUBSET (1 .. n) /\ {} \in SUBSET (1 .. n + 1)
    OBVIOUS
  <2>3. g[{}] = NoLines
    BY <2>2, Zenon DEF Folds
  <2>4. h[{}] = NoLines
    BY <2>2, Zenon DEF Folds
  <2>5. QED
    BY <2>1, <2>3, <2>4
<1>2. ASSUME NEW m \in P PROVE m + 1 \in P
  <2> SUFFICES ASSUME m + 1 <= n PROVE h[1 .. m + 1] = g[1 .. m + 1]
    OBVIOUS
  <2> DEFINE T == 1 .. m + 1
  <2>1. T \in SUBSET (1 .. n) /\ T \in SUBSET (1 .. n + 1) /\ T # {}
    OBVIOUS
  <2>2. Max(T) = m + 1 /\ T \ {m + 1} = 1 .. m
    BY MaxOfRange
  <2>3. h[1 .. m] = g[1 .. m] /\ s[m + 1] = t[m + 1]
    OBVIOUS
  <2> HIDE DEF T
  <2>4. g[T] = TakeByte(g[T \ {Max(T)}], s[Max(T)])
    BY <2>1, Zenon DEF Folds
  <2>5. h[T] = TakeByte(h[T \ {Max(T)}], t[Max(T)])
    BY <2>1, Zenon DEF Folds
  <2>6. h[T] = g[T]
    BY <2>2, <2>3, <2>4, <2>5
  <2>7. QED
    BY <2>6 DEF T
<1>3. P \in SUBSET Nat
  OBVIOUS
<1> HIDE DEF P
<1>4. P = Nat
  BY <1>1, <1>2, <1>3, NatInduct
<1>5. n \in P /\ n <= n
  BY <1>4
<1>6. QED
  BY <1>5 DEF P

LEMMA FramingEmpty == Framing(<<>>) = NoLines
<1>1. <<>> \in Seq(Bytes) /\ Len(<<>>) = 0 /\ 1 .. 0 = {}
  OBVIOUS
<1>2. PICK g : Folds(<<>>, Len(<<>>), g) /\ Framing(<<>>) = g[1 .. Len(<<>>)]
  BY <1>1, FramingFolds
<1>3. {} \in SUBSET (1 .. 0)
  OBVIOUS
<1>4. Folds(<<>>, 0, g) /\ Framing(<<>>) = g[{}]
  BY <1>1, <1>2
<1>5. g[{}] = NoLines
  BY <1>3, <1>4, Zenon DEF Folds
<1>6. QED
  BY <1>4, <1>5

LEMMA FramingAppend ==
  ASSUME NEW s \in Seq(Bytes), NEW b \in Bytes
  PROVE  Framing(Append(s, b)) = TakeByte(Framing(s), b)
<1> DEFINE n == Len(s)
           t == Append(s, b)
           T == 1 .. n + 1
<1>1. n \in Nat /\ t \in Seq(Bytes) /\ Len(t) = n + 1 /\ t[n + 1] = b
  OBVIOUS
<1>2. \A k \in 1 .. n : s[k] = t[k]
  OBVIOUS
<1>3. PICK g : Folds(s, n, g) /\ Framing(s) = g[1 .. n]
  BY FramingFolds
<1> HIDE DEF t
<1>4. PICK h : Folds(t, n + 1, h) /\ Framing(t) = h[T]
  BY <1>1, FramingFolds
<1> HIDE DEF n
<1>5. h[1 .. n] = g[1 .. n]
  BY <1>1, <1>2, <1>3, <1>4, FoldPrefix
<1>6. T \in SUBSET (1 .. n + 1) /\ T # {} /\ Max(T) = n + 1 /\ T \ {n + 1} = 1 .. n
  BY <1>1, MaxOfRange
<1> HIDE DEF T
<1>7. h[T] = TakeByte(h[T \ {Max(T)}], t[Max(T)])
  BY <1>4, <1>6, Zenon DEF Folds
<1>8. Framing(t) = TakeByte(Framing(s), b)
  BY <1>1, <1>3, <1>4, <1>5, <1>6, <1>7
<1>9. QED
  BY <1>8 DEF t

-----------------------------------------------------------------------------
(***************************************************************************)
(* How what has been answered, what `raw` holds and what has been consumed *)
(* go together, line by line, whatever reads are dropped.                  *)
(***************************************************************************)

LineFrames == [lines : Seq(Seq(Bytes)), open : Seq(Bytes)]

\* The delimiter is in `raw` and the line is still to be answered.
AtDelimiter(f) ==
  /\ f.open = <<>> /\ f.lines # <<>>
  /\ raw = Append(Last(f.lines), "newline")
  /\ results = Verdicts(Front(f.lines)) /\ reading \in {"line", "failed"}

\* The line is still open; one that is too long is no longer kept.
StillOpen(f) ==
  /\ ~Whole /\ results = Verdicts(f.lines)
  /\ Len(raw) <= MaxLine => raw = f.open /\ reading # "discard"
  /\ Len(raw) > MaxLine => Len(f.open) > MaxLine /\ reading # "over"
  /\ reading = "over" => raw = <<>> /\ arrived = <<>> /\ closed

\* The last line had no delimiter and has been answered.
LastAnswered(f) ==
  /\ raw = <<>> /\ arrived = <<>> /\ closed /\ f.open # <<>>
  /\ results = Append(Verdicts(f.lines), Verdict(f.open)) /\ reading # "discard"

\* The session ended in the middle of a line.
CutShort(f) == results = Append(Verdicts(f.lines), Unrecoverable) /\ reading = "over"

AnsweredWith ==
  LET f == Framing(consumed)
  IN f \in LineFrames /\ (AtDelimiter(f) \/ StillOpen(f) \/ LastAnswered(f) \/ CutShort(f))

LinesInv == RawInv /\ consumed \in Seq(Bytes) /\ AnsweredWith

LEMMA VerdictsAppend ==
  ASSUME NEW ls \in Seq(Seq(Bytes)), NEW l \in Seq(Bytes)
  PROVE  Verdicts(Append(ls, l)) = Append(Verdicts(ls), Verdict(l))
<1> DEFINE all == Append(ls, l)
           Some == {Verdict(x) : x \in Seq(Bytes)}
<1>1. DOMAIN ls = 1 .. Len(ls) /\ Len(ls) \in Nat
  OBVIOUS
<1>2. DOMAIN all = 1 .. Len(ls) + 1 /\ all[Len(ls) + 1] = l /\ \A k \in 1 .. Len(ls) : all[k] = ls[k]
  OBVIOUS
<1>3. \A k \in 1 .. Len(ls) : Verdict(ls[k]) \in Some
  OBVIOUS
<1> HIDE DEF all, Some
<1>4. Verdicts(ls) \in Seq(Some) /\ Len(Verdicts(ls)) = Len(ls)
  BY <1>1, <1>3 DEF Verdicts
<1>5. \A k \in 1 .. Len(ls) : Verdicts(ls)[k] = Verdict(ls[k])
  BY <1>1 DEF Verdicts
<1>6. Verdict(l) \in Some
  BY DEF Some
<1> DEFINE v == Verdicts(ls)
           w == Verdict(l)
           u == Verdicts(all)
<1>7. u \in Seq(Some) /\ Len(u) = Len(ls) + 1 /\ \A k \in 1 .. Len(ls) + 1 : u[k] = Verdict(all[k])
  <2>1. \A k \in 1 .. Len(ls) + 1 : Verdict(all[k]) \in Some
    <3> TAKE k \in 1 .. Len(ls) + 1
    <3>1. k \in 1 .. Len(ls) \/ k = Len(ls) + 1
      BY <1>1
    <3>2. QED
      BY <1>2, <1>3, <1>6, <3>1
  <2>2. u = [k \in 1 .. Len(ls) + 1 |-> Verdict(all[k])]
    BY <1>2, Zenon DEF Verdicts
  <2>3. QED
    BY <1>1, <2>1, <2>2
<1>8. v \in Seq(Some) /\ Len(v) = Len(ls) /\ w \in Some
  BY <1>4, <1>6
<1>9. \A k \in 1 .. Len(ls) : u[k] = v[k]
  BY <1>1, <1>2, <1>5, <1>7
<1>10. u[Len(ls) + 1] = w
  BY <1>1, <1>2, <1>7
<1> HIDE DEF u, v, w
<1>11. Append(v, w) \in Seq(Some) /\ Len(Append(v, w)) = Len(ls) + 1
  BY <1>8
<1>12. \A k \in 1 .. Len(ls) + 1 : u[k] = Append(v, w)[k]
  <2> TAKE k \in 1 .. Len(ls) + 1
  <2>1. k \in 1 .. Len(ls) \/ k = Len(ls) + 1
    BY <1>1
  <2>2. QED
    BY <1>1, <1>8, <1>9, <1>10, <2>1
<1>13. u = Append(v, w)
  BY <1>1, <1>7, <1>11, <1>12
<1>14. QED
  BY <1>13 DEF all, u, v, w

LEMMA VerdictsSplit ==
  ASSUME NEW ls \in Seq(Seq(Bytes)), ls # <<>>
  PROVE  Verdicts(ls) = Append(Verdicts(Front(ls)), Verdict(Last(ls)))
<1>1. Front(ls) \in Seq(Seq(Bytes)) /\ Last(ls) \in Seq(Bytes) /\ Append(Front(ls), Last(ls)) = ls
  BY DEF Front, Last
<1>2. QED
  BY <1>1, VerdictsAppend

LEMMA AppendLast ==
  ASSUME NEW a \in Seq(Bytes), NEW c \in Seq(Bytes), NEW x \in Bytes
  PROVE  a \o c \in Seq(Bytes) /\ a \o Append(c, x) = Append(a \o c, x)
OBVIOUS

\* What is still open grows with every byte that is no delimiter.
LEMMA FramingChunk ==
  ASSUME NEW s \in Seq(Bytes), NEW g \in Seq(Bytes), Framing(s) \in LineFrames, NEW n \in 0 .. Len(g),
         \A j \in 1 .. n : g[j] # "newline"
  PROVE  LET f == Framing(s \o SubSeq(g, 1, n))
         IN f \in LineFrames /\ f.lines = Framing(s).lines /\ Len(f.open) = Len(Framing(s).open) + n
<1> DEFINE F(k) == Framing(s \o SubSeq(g, 1, k))
           Grown(k) == /\ F(k) \in LineFrames /\ F(k).lines = Framing(s).lines
                       /\ Len(F(k).open) = Len(Framing(s).open) + k
           P == {k \in Nat : k <= n => Grown(k)}
<1>1. n \in Nat /\ Len(g) \in Nat /\ n <= Len(g)
  OBVIOUS
<1>2. Framing(s).open \in Seq(Bytes) /\ Len(Framing(s).open) \in Nat
  <2>1. Framing(s).open \in Seq(Bytes)
    BY DEF LineFrames
  <2>2. QED
    BY <2>1
<1>3. 0 \in P
  <2>1. s \o SubSeq(g, 1, 0) = s
    OBVIOUS
  <2>2. F(0) = Framing(s)
    BY <2>1
  <2> HIDE DEF F
  <2>3. Len(F(0).open) = Len(Framing(s).open) + 0
    BY <1>2, <2>2
  <2>4. Grown(0)
    BY <2>2, <2>3
  <2> HIDE DEF Grown
  <2>5. QED
    BY <2>4
<1>4. ASSUME NEW k \in P PROVE k + 1 \in P
  <2> HIDE DEF Grown
  <2> SUFFICES ASSUME k + 1 <= n PROVE Grown(k + 1)
    OBVIOUS
  <2>1. k \in Nat /\ Grown(k)
    <3>1. k \in Nat /\ (k <= n => Grown(k))
      OBVIOUS
    <3>2. QED
      BY <1>1, <3>1
  <2> DEFINE t == s \o SubSeq(g, 1, k)
             b == g[k + 1]
             was == F(k)
             is == F(k + 1)
  <2>2. b \in Bytes /\ b # "newline" /\ t \in Seq(Bytes) /\ s \o SubSeq(g, 1, k + 1) = Append(t, b)
    <3>1. k \in 0 .. Len(g) /\ k + 1 \in 1 .. Len(g) /\ k + 1 \in 1 .. n
      BY <1>1, <2>1
    <3> DEFINE c == SubSeq(g, 1, k)
    <3>2. c \in Seq(Bytes) /\ SubSeq(g, 1, k + 1) = Append(c, b)
      BY <3>1
    <3>3. b \in Bytes /\ b # "newline"
      BY <3>1
    <3> HIDE DEF b, c
    <3>4. s \o c \in Seq(Bytes) /\ s \o Append(c, b) = Append(s \o c, b)
      BY <3>2, <3>3, AppendLast
    <3>5. QED
      BY <3>2, <3>3, <3>4 DEF c
  <2>3. is = TakeByte(was, b)
    BY <2>2, FramingAppend
  <2>4. was \in LineFrames /\ was.lines = Framing(s).lines /\ Len(was.open) = Len(Framing(s).open) + k
    BY <2>1 DEF Grown
  <2> HIDE DEF b, is, was
  <2>5. is = [lines |-> was.lines, open |-> Append(was.open, b)]
    BY <2>2, <2>3 DEF TakeByte
  <2>6. was.open \in Seq(Bytes) /\ was.lines \in Seq(Seq(Bytes))
    BY <2>4 DEF LineFrames
  <2>7. Append(was.open, b) \in Seq(Bytes) /\ Len(Append(was.open, b)) = Len(was.open) + 1
    BY <2>2, <2>6
  <2>8. is.lines = was.lines /\ Len(is.open) = Len(was.open) + 1
    BY <2>5, <2>7
  <2>9. is \in LineFrames
    BY <2>5, <2>6, <2>7 DEF LineFrames
  <2>10. Len(is.open) = Len(Framing(s).open) + (k + 1)
    <3> DEFINE had == Len(Framing(s).open)
               mid == Len(was.open)
    <3>1. had \in Nat /\ mid = had + k
      BY <1>2, <2>4
    <3>2. Len(is.open) = mid + 1
      BY <2>8
    <3> HIDE DEF had, mid
    <3>3. Len(is.open) = had + (k + 1)
      BY <2>1, <3>1, <3>2
    <3>4. QED
      BY <3>3 DEF had
  <2>11. QED
    BY <2>4, <2>8, <2>9, <2>10 DEF Grown, is
<1>5. P \in SUBSET Nat
  OBVIOUS
<1> HIDE DEF P
<1>6. P = Nat
  BY <1>3, <1>4, <1>5, NatInduct
<1>7. n \in P
  BY <1>1, <1>6
<1> HIDE DEF Grown
<1>8. Grown(n)
  BY <1>1, <1>7 DEF P
<1>9. QED
  BY <1>8 DEF Grown

LEMMA WholeIsAppended ==
  ASSUME NEW l \in Seq(Bytes), raw = Append(l, "newline")
  PROVE  Whole /\ raw # <<>> /\ Front(raw) = l /\ Len(raw) = Len(l) + 1
BY DEF Whole, Front, Last, Bytes

\* A step that takes nothing from the stream and answers nothing.
LEMMA QuietStep ==
  ASSUME LinesInv, UNCHANGED <<raw, results, consumed>>, RawInv',
         arrived' = arrived \/ ~closed, closed => closed',
         \/ reading' = reading
         \/ /\ reading \in {"line", "discard"} /\ reading' \in {"line", "failed"}
         \/ StartDiscard
  PROVE  LinesInv'
<1> DEFINE f == Framing(consumed)
<1>1. f' = f /\ f \in LineFrames /\ (Whole' <=> Whole)
  BY DEF LinesInv, AnsweredWith, Whole
<1>2. f.open \in Seq(Bytes) /\ f.lines \in Seq(Seq(Bytes))
  BY <1>1 DEF LineFrames
<1>3. AtDelimiter(f) \/ StillOpen(f) \/ LastAnswered(f) \/ CutShort(f)
  BY DEF LinesInv, AnsweredWith
<1> HIDE DEF f
<1>4. ASSUME AtDelimiter(f) PROVE AtDelimiter(f)'
  <2>1. Last(f.lines) \in Seq(Bytes)
    BY <1>2, <1>4 DEF AtDelimiter, Last
  <2>2. Whole
    BY <1>4, <2>1, WholeIsAppended DEF AtDelimiter
  <2>3. reading' \in {"line", "failed"}
    BY <1>4, <2>2 DEF AtDelimiter, StartDiscard
  <2>4. QED
    BY <1>1, <1>4, <2>3 DEF AtDelimiter
<1>5. ASSUME StillOpen(f) PROVE StillOpen(f)'
  BY <1>1, <1>5, LineReaderAssumption DEF StillOpen, StartDiscard
<1>6. ASSUME LastAnswered(f) PROVE LastAnswered(f)'
  <2>1. Len(raw) = 0
    BY <1>6 DEF LastAnswered
  <2>2. ~StartDiscard
    BY <2>1, LineReaderAssumption DEF StartDiscard
  <2>3. QED
    BY <1>1, <1>6, <2>2 DEF LastAnswered
<1>7. ASSUME CutShort(f) PROVE CutShort(f)'
  BY <1>1, <1>7 DEF CutShort, StartDiscard
<1>8. AnsweredWith'
  BY <1>1, <1>3, <1>4, <1>5, <1>6, <1>7 DEF AnsweredWith, f
<1>9. QED
  BY <1>8 DEF LinesInv

LEMMA ReadStep == LinesInv /\ RawInv' /\ ReadByte => LinesInv'
<1> SUFFICES ASSUME LinesInv, RawInv', ReadByte PROVE LinesInv'
  OBVIOUS
<1> DEFINE f == Framing(consumed)
           b == Head(arrived)
<1>1. b \in Bytes /\ consumed \in Seq(Bytes) /\ raw \in Seq(Bytes)
  BY DEF LinesInv, RawInv, ReadByte
<1>2. f' = TakeByte(f, b) /\ f \in LineFrames
  BY <1>1, FramingAppend DEF ReadByte, LinesInv, AnsweredWith
<1>3. f.open \in Seq(Bytes) /\ f.lines \in Seq(Seq(Bytes))
  BY <1>2 DEF LineFrames
<1>4. AtDelimiter(f) \/ StillOpen(f) \/ LastAnswered(f) \/ CutShort(f)
  BY DEF LinesInv, AnsweredWith
<1>5. /\ reading = "line" /\ ~Whole /\ Len(raw) <= MaxLine /\ arrived # <<>>
      /\ raw' = Append(raw, b) /\ consumed' = Append(consumed, b)
      /\ UNCHANGED <<closed, reading, results>>
  BY <1>1, LineReaderAssumption DEF ReadByte, Budget
<1> HIDE DEF f, b
<1>6. ~AtDelimiter(f)
  <2>1. AtDelimiter(f) => Last(f.lines) \in Seq(Bytes)
    BY <1>3 DEF AtDelimiter, Last
  <2>2. QED
    BY <1>5, <2>1, WholeIsAppended DEF AtDelimiter
<1>7. StillOpen(f)
  BY <1>4, <1>5, <1>6 DEF LastAnswered, CutShort
<1>8. raw = f.open /\ results = Verdicts(f.lines)
  BY <1>5, <1>7 DEF StillOpen
<1>9. raw' \in Seq(Bytes) /\ raw' # <<>> /\ Last(raw') = b /\ consumed' \in Seq(Bytes)
  BY <1>1, <1>5 DEF Last
<1>10. CASE b = "newline"
  <2>1. f' = [lines |-> Append(f.lines, f.open), open |-> <<>>]
    BY <1>2, <1>10 DEF TakeByte
  <2> DEFINE ls == Append(f.lines, f.open)
  <2>2. ls \in Seq(Seq(Bytes)) /\ ls # <<>> /\ Last(ls) = f.open /\ Front(ls) = f.lines
    BY <1>3 DEF Last, Front
  <2>3. f'.lines = ls /\ f'.open = <<>>
    BY <2>1
  <2> HIDE DEF ls
  <2>4. f' \in LineFrames
    <3>1. f' = [lines |-> ls, open |-> <<>>] /\ <<>> \in Seq(Bytes)
      BY <2>1 DEF ls
    <3>2. QED
      BY <2>2, <3>1 DEF LineFrames
  <2>5. AtDelimiter(f)'
    BY <1>5, <1>8, <1>10, <2>2, <2>3 DEF AtDelimiter
  <2>6. AnsweredWith'
    BY <2>4, <2>5 DEF AnsweredWith, f
  <2>7. QED
    BY <1>9, <2>6 DEF LinesInv
<1>11. CASE b # "newline"
  <2>1. f' = [lines |-> f.lines, open |-> Append(f.open, b)]
    BY <1>2, <1>11 DEF TakeByte
  <2>2. f'.lines = f.lines /\ f'.open = raw'
    BY <1>5, <1>8, <2>1
  <2>3. f' \in LineFrames
    BY <1>1, <1>3, <2>1 DEF LineFrames
  <2>4. ~Whole'
    BY <1>9, <1>11 DEF Whole
  <2>5. StillOpen(f)'
    BY <1>5, <1>8, <2>2, <2>4 DEF StillOpen
  <2>6. AnsweredWith'
    BY <2>3, <2>5 DEF AnsweredWith, f
  <2>7. QED
    BY <1>9, <2>6 DEF LinesInv
<1>12. QED
  BY <1>10, <1>11

LEMMA FinishStep == LinesInv /\ RawInv' /\ FinishLine => LinesInv'
<1> SUFFICES ASSUME LinesInv, RawInv', FinishLine PROVE LinesInv'
  OBVIOUS
<1> DEFINE f == Framing(consumed)
<1>1. f' = f /\ f \in LineFrames /\ consumed' = consumed
  BY DEF LinesInv, AnsweredWith, FinishLine
<1>2. f.open \in Seq(Bytes) /\ f.lines \in Seq(Seq(Bytes))
  BY <1>1 DEF LineFrames
<1>3. AtDelimiter(f) \/ StillOpen(f) \/ LastAnswered(f) \/ CutShort(f)
  BY DEF LinesInv, AnsweredWith
<1>4. /\ reading = "line" /\ results' = Append(results, Text(Content)) /\ raw' = <<>>
      /\ UNCHANGED <<arrived, closed, reading, discarded, consumed>>
      /\ Whole \/ (arrived = <<>> /\ closed /\ raw # <<>> /\ Len(raw) <= MaxLine)
  BY DEF FinishLine
<1>5. ~Whole' /\ Len(raw') = 0 /\ 0 <= MaxLine /\ ~(0 > MaxLine)
  BY <1>4, LineReaderAssumption DEF Whole
<1> HIDE DEF f
<1>6. CASE AtDelimiter(f)
  <2> DEFINE l == Last(f.lines)
  <2>1. l \in Seq(Bytes) /\ f.lines # <<>>
    BY <1>2, <1>6 DEF AtDelimiter, Last
  <2>2. Whole /\ Content = l /\ Len(l) <= MaxLine
    <3>1. Whole /\ Front(raw) = l /\ Len(raw) = Len(l) + 1
      BY <1>6, <2>1, WholeIsAppended DEF AtDelimiter
    <3>2. Len(raw) <= MaxLine + 1 /\ Len(l) \in Nat
      BY <2>1 DEF LinesInv, RawInv, RawIsBounded
    <3> HIDE DEF l
    <3>3. QED
      BY <3>1, <3>2, LineReaderAssumption DEF Content
  <2>3. Verdict(l) = Text(l)
    <3>1. ~(Len(l) > MaxLine)
      BY <2>1, <2>2, LineReaderAssumption
    <3>2. QED
      BY <3>1 DEF Verdict
  <2>4. results' = Verdicts(f.lines)
    BY <1>2, <1>4, <1>6, <2>1, <2>2, <2>3, VerdictsSplit DEF AtDelimiter
  <2>5. StillOpen(f)'
    BY <1>1, <1>4, <1>5, <1>6, <2>4 DEF StillOpen, AtDelimiter
  <2>6. QED
    BY <1>1, <2>5 DEF LinesInv, AnsweredWith, f
<1>7. CASE StillOpen(f)
  <2>1. raw = f.open /\ Content = f.open /\ Len(f.open) <= MaxLine /\ f.open # <<>>
    BY <1>4, <1>7 DEF StillOpen, Content
  <2>2. Verdict(f.open) = Text(f.open)
    <3>1. ~(Len(f.open) > MaxLine)
      BY <1>2, <2>1, LineReaderAssumption
    <3>2. QED
      BY <3>1 DEF Verdict
  <2>3. LastAnswered(f)'
    BY <1>1, <1>4, <1>7, <2>1, <2>2 DEF StillOpen, LastAnswered
  <2>4. QED
    BY <1>1, <2>3 DEF LinesInv, AnsweredWith, f
<1>8. ~LastAnswered(f) /\ ~CutShort(f)
  BY <1>4 DEF LastAnswered, CutShort, Whole
<1>9. QED
  BY <1>3, <1>6, <1>7, <1>8

LEMMA EofStep == LinesInv /\ RawInv' /\ ReportEof => LinesInv'
<1> SUFFICES ASSUME LinesInv, RawInv', ReportEof PROVE LinesInv'
  OBVIOUS
<1> DEFINE f == Framing(consumed)
<1>1. f' = f /\ f \in LineFrames /\ consumed' = consumed
  BY DEF LinesInv, AnsweredWith, ReportEof
<1>2. AtDelimiter(f) \/ StillOpen(f) \/ LastAnswered(f) \/ CutShort(f)
  BY DEF LinesInv, AnsweredWith
<1>3. /\ reading = "line" /\ raw = <<>> /\ arrived = <<>> /\ closed /\ reading' = "over"
      /\ UNCHANGED <<arrived, closed, raw, discarded, results, consumed>>
  BY DEF ReportEof
<1>4. ~Whole /\ ~Whole' /\ Len(raw) <= MaxLine
  BY <1>3, LineReaderAssumption DEF Whole
<1> HIDE DEF f
<1>5. ~AtDelimiter(f) /\ ~CutShort(f)
  <2>1. AtDelimiter(f) => Last(f.lines) \in Seq(Bytes)
    BY <1>1 DEF AtDelimiter, Last, LineFrames
  <2>2. QED
    BY <1>3, <1>4, <2>1, WholeIsAppended DEF AtDelimiter, CutShort
<1>6. StillOpen(f) => StillOpen(f)'
  BY <1>1, <1>3, <1>4, LineReaderAssumption DEF StillOpen
<1>7. LastAnswered(f) => LastAnswered(f)'
  BY <1>1, <1>3 DEF LastAnswered
<1>8. QED
  BY <1>1, <1>2, <1>5, <1>6, <1>7 DEF LinesInv, AnsweredWith, f

\* A discard goes on in an open line that is too long.
LEMMA DiscardIsInALongLine ==
  ASSUME LinesInv, reading = "discard"
  PROVE  LET f == Framing(consumed)
         IN StillOpen(f) /\ Len(raw) > MaxLine /\ Len(f.open) > MaxLine
<1> DEFINE f == Framing(consumed)
<1>1. AtDelimiter(f) \/ StillOpen(f) \/ LastAnswered(f) \/ CutShort(f)
  BY DEF LinesInv, AnsweredWith
<1> HIDE DEF f
<1>2. StillOpen(f)
  BY <1>1 DEF AtDelimiter, LastAnswered, CutShort
<1>3. Len(raw) \in Nat
  BY DEF LinesInv, RawInv
<1>4. Len(raw) > MaxLine
  BY <1>2, <1>3, LineReaderAssumption DEF StillOpen
<1>5. QED
  BY <1>2, <1>4 DEF StillOpen, f

LEMMA DiscardEofStep == LinesInv /\ RawInv' /\ DiscardEof => LinesInv'
<1> SUFFICES ASSUME LinesInv, RawInv', DiscardEof PROVE LinesInv'
  OBVIOUS
<1> DEFINE f == Framing(consumed)
<1>1. f' = f /\ f \in LineFrames /\ consumed' = consumed
  BY DEF LinesInv, AnsweredWith, DiscardEof
<1>2. /\ arrived = <<>> /\ closed /\ raw' = <<>> /\ reading' = "line"
      /\ results' = Append(results, TooLong) /\ UNCHANGED <<arrived, closed, consumed>>
  BY DEF DiscardEof
<1>3. StillOpen(f) /\ Len(f.open) > MaxLine
  BY DiscardIsInALongLine DEF DiscardEof
<1> HIDE DEF f
<1>4. Verdict(f.open) = TooLong /\ f.open # <<>>
  BY <1>3, LineReaderAssumption DEF Verdict
<1>5. LastAnswered(f)'
  BY <1>1, <1>2, <1>3, <1>4 DEF StillOpen, LastAnswered
<1>6. QED
  BY <1>1, <1>5 DEF LinesInv, AnsweredWith, f

LEMMA DiscardStep ==
  ASSUME LinesInv, RawInv', NEW n \in 1 .. MaxSent, DiscardChunk(n)
  PROVE  LinesInv'
<1> DEFINE f == Framing(consumed)
           ends == {k \in 1 .. n : arrived[k] = "newline"}
           taken == IF ends = {} THEN n ELSE CHOOSE k \in ends : \A j \in ends : k <= j
           gone == SubSeq(arrived, 1, taken)
<1>1. /\ reading = "discard" /\ n \in 1 .. Len(arrived) /\ consumed' = consumed \o gone
      /\ closed' = closed
  BY DEF DiscardChunk
<1>2. /\ ends # {} => raw' = <<>> /\ reading' = "line" /\ results' = Append(results, TooLong)
      /\ ends = {} => \/ raw' = <<>> /\ reading' = "over" /\ results' = Append(results, Unrecoverable)
                      \/ UNCHANGED <<raw, reading, results>>
  BY DEF DiscardChunk
<1>3. /\ arrived \in Seq(Bytes) /\ consumed \in Seq(Bytes) /\ Len(arrived) \in Nat /\ n \in Nat
      /\ n <= Len(arrived)
  BY <1>1 DEF LinesInv, RawInv
<1>4. f \in LineFrames
  BY DEF LinesInv, AnsweredWith
<1>5. StillOpen(f) /\ Len(raw) > MaxLine /\ Len(f.open) > MaxLine
  BY <1>1, DiscardIsInALongLine
<1>6. f.open \in Seq(Bytes) /\ f.lines \in Seq(Seq(Bytes))
  BY <1>4 DEF LineFrames
<1>7. taken \in 1 .. Len(arrived) /\ consumed' \in Seq(Bytes)
  <2>1. ends \in SUBSET Nat /\ ends \subseteq 1 .. n
    BY <1>3
  <2> HIDE DEF ends
  <2>2. ends # {} => taken \in ends
    BY <2>1, Smallest
  <2>3. ends = {} => taken = n
    OBVIOUS
  <2> HIDE DEF taken
  <2>4. taken \in 1 .. n
    <3>1. n \in 1 .. n
      BY <1>1, <1>3
    <3>2. QED
      BY <2>1, <2>2, <2>3, <3>1
  <2>5. taken \in 1 .. Len(arrived)
    BY <1>3, <2>4
  <2>6. QED
    BY <1>1, <1>3, <2>5
<1>8. CASE ends = {}
  <2>1. taken = n /\ \A j \in 1 .. n : arrived[j] # "newline"
    BY <1>8
  <2> HIDE DEF f, ends
  <2>2. f' = Framing(consumed \o SubSeq(arrived, 1, n))
    BY <1>1, <2>1 DEF f
  <2>3. f' \in LineFrames /\ f'.lines = f.lines /\ Len(f'.open) = Len(f.open) + n
    <3>1. n \in 0 .. Len(arrived)
      BY <1>3
    <3>2. QED
      BY <1>3, <1>4, <2>1, <2>2, <3>1, FramingChunk DEF f
  <2>4. Len(f'.open) > MaxLine
    <3>1. Len(f.open) \in Nat
      BY <1>6
    <3>2. QED
      BY <1>3, <1>5, <2>3, <3>1, LineReaderAssumption
  <2> HIDE DEF taken
  <2>5. CASE raw' = <<>> /\ reading' = "over" /\ results' = Append(results, Unrecoverable)
    <3>1. CutShort(f)'
      BY <1>5, <2>3, <2>5 DEF CutShort, StillOpen
    <3>2. QED
      BY <1>7, <2>3, <3>1 DEF LinesInv, AnsweredWith, f
  <2>6. CASE UNCHANGED <<raw, reading, results>>
    <3>1. ~Whole' /\ Len(raw') > MaxLine /\ Len(raw') \in Nat
      BY <1>5, <2>6 DEF StillOpen, Whole, LinesInv, RawInv
    <3>2. StillOpen(f)'
      BY <1>1, <1>5, <2>3, <2>4, <2>6, <3>1, LineReaderAssumption DEF StillOpen
    <3>3. QED
      BY <1>7, <2>3, <3>2 DEF LinesInv, AnsweredWith, f
  <2>7. QED
    BY <1>2, <1>8, <2>5, <2>6
<1>9. CASE ends # {}
  <2>1. ends \in SUBSET Nat
    BY <1>3
  <2>2. taken \in ends /\ \A j \in ends : taken <= j
    <3> HIDE DEF ends
    <3>1. QED
      BY <1>9, <2>1, Smallest
  <2>3. taken \in 1 .. n /\ arrived[taken] = "newline"
    <3> HIDE DEF taken
    <3>1. QED
      BY <2>2
  <2>4. \A j \in 1 .. taken - 1 : arrived[j] # "newline"
    <3> HIDE DEF taken
    <3>1. ASSUME NEW j \in 1 .. taken - 1, arrived[j] = "newline" PROVE FALSE
      <4>1. j \in 1 .. n /\ ~(taken <= j)
        BY <1>3, <2>3
      <4>2. QED
        BY <2>2, <3>1, <4>1
    <3>2. QED
      BY <3>1
  <2> HIDE DEF f, ends, taken
  <2> DEFINE k == taken - 1
             t == consumed \o SubSeq(arrived, 1, k)
             g == Framing(t)
  <2>5. k \in 0 .. Len(arrived) /\ k + 1 = taken /\ k + 1 \in 1 .. Len(arrived)
    BY <1>3, <1>7
  <2>6. g \in LineFrames /\ g.lines = f.lines /\ Len(g.open) = Len(f.open) + k
    BY <1>3, <1>4, <2>4, <2>5, FramingChunk DEF f
  <2>7. t \in Seq(Bytes) /\ consumed' = Append(t, "newline")
    <3> HIDE DEF k
    <3> DEFINE c == SubSeq(arrived, 1, k)
    <3>1. c \in Seq(Bytes) /\ SubSeq(arrived, 1, k + 1) = Append(c, arrived[k + 1])
      BY <1>3, <2>5
    <3>2. arrived[k + 1] = "newline" /\ gone = Append(c, "newline")
      BY <2>3, <2>5, <3>1
    <3> HIDE DEF c, gone
    <3>3. consumed \o c \in Seq(Bytes) /\ consumed \o Append(c, "newline") = Append(consumed \o c, "newline")
      <4>1. "newline" \in Bytes
        BY DEF Bytes
      <4>2. QED
        BY <1>3, <3>1, <4>1, AppendLast
    <3>4. QED
      BY <1>1, <3>2, <3>3 DEF c
  <2>8. f' = TakeByte(g, "newline")
    BY <2>7, FramingAppend DEF f, Bytes
  <2> HIDE DEF t, g
  <2>9. g.open \in Seq(Bytes) /\ g.lines \in Seq(Seq(Bytes)) /\ Len(g.open) \in Nat
    <3>1. g.open \in Seq(Bytes) /\ g.lines \in Seq(Seq(Bytes))
      BY <2>6 DEF LineFrames
    <3>2. QED
      BY <3>1
  <2> DEFINE ls == Append(g.lines, g.open)
  <2>10. f' = [lines |-> ls, open |-> <<>>]
    BY <2>8 DEF TakeByte
  <2>11. ls \in Seq(Seq(Bytes)) /\ Verdicts(ls) = Append(Verdicts(f.lines), Verdict(g.open))
    BY <2>6, <2>9, VerdictsAppend
  <2>12. Verdict(g.open) = TooLong
    <3>1. Len(f.open) \in Nat /\ k \in Nat
      BY <1>6, <2>5
    <3> HIDE DEF k
    <3>2. Len(g.open) > MaxLine
      BY <1>5, <2>6, <2>9, <3>1, LineReaderAssumption
    <3>3. QED
      BY <3>2 DEF Verdict
  <2> HIDE DEF ls
  <2>13. f' \in LineFrames /\ f'.lines = ls /\ f'.open = <<>>
    BY <2>10, <2>11 DEF LineFrames
  <2>14. /\ ~Whole' /\ raw' = <<>> /\ Len(raw') = 0 /\ reading' = "line"
         /\ results' = Append(results, TooLong)
    BY <1>2, <1>9 DEF Whole
  <2>15. StillOpen(f)'
    BY <1>5, <2>11, <2>12, <2>13, <2>14, LineReaderAssumption DEF StillOpen
  <2>16. QED
    BY <1>7, <2>13, <2>15 DEF LinesInv, AnsweredWith, f
<1>10. QED
  BY <1>8, <1>9

LEMMA LinesStep == LinesInv /\ [ReaderNext]_streamVars => LinesInv'
<1> SUFFICES ASSUME LinesInv, [ReaderNext]_streamVars PROVE LinesInv'
  OBVIOUS
<1>1. RawInv'
  BY RawStep DEF LinesInv
<1>2. CASE (\E b \in Bytes : Send(b)) \/ HangUp \/ StartDiscard \/ ReadError \/ Cancel \/ Over
           \/ UNCHANGED streamVars
  BY <1>1, <1>2, QuietStep
     DEF Send, HangUp, StartDiscard, ReadError, Cancel, Over, streamVars
<1>3. CASE ReadByte
  BY <1>1, <1>3, ReadStep
<1>4. CASE FinishLine
  BY <1>1, <1>4, FinishStep
<1>5. CASE ReportEof
  BY <1>1, <1>5, EofStep
<1>6. CASE \E n \in 1 .. MaxSent : DiscardChunk(n)
  BY <1>1, <1>6, DiscardStep
<1>7. CASE DiscardEof
  BY <1>1, <1>7, DiscardEofStep
<1>8. QED
  BY <1>2, <1>3, <1>4, <1>5, <1>6, <1>7 DEF ReaderNext

LEMMA LinesInit == ReaderInit => LinesInv
<1> SUFFICES ASSUME ReaderInit PROVE LinesInv
  OBVIOUS
<1>1. /\ arrived = <<>> /\ raw = <<>> /\ reading = "line" /\ results = <<>> /\ consumed = <<>>
      /\ Framing(consumed) = NoLines
  BY FramingEmpty DEF ReaderInit
<1>2. <<>> \in Seq(Bytes) /\ <<>> \in Seq(Seq(Bytes)) /\ DOMAIN <<>> = {} /\ Len(<<>>) = 0
  OBVIOUS
<1>3. NoLines \in LineFrames /\ NoLines.lines = <<>> /\ NoLines.open = <<>>
  BY <1>2 DEF NoLines, LineFrames
<1>4. Verdicts(<<>>) = <<>>
  BY <1>2 DEF Verdicts
<1>5. StillOpen(NoLines)
  BY <1>1, <1>2, <1>3, <1>4, LineReaderAssumption DEF StillOpen, Whole
<1>6. RawInv
  BY <1>1, <1>2, LineReaderAssumption DEF RawInv, RawIsBounded
<1>7. QED
  BY <1>1, <1>2, <1>3, <1>5, <1>6 DEF LinesInv, AnsweredWith

Outcomes == {Verdict(l) : l \in Seq(Bytes)}

LEMMA VerdictsAreOutcomes ==
  ASSUME NEW ls \in Seq(Seq(Bytes))
  PROVE  Verdicts(ls) \in Seq(Outcomes)
<1>1. DOMAIN ls = 1 .. Len(ls) /\ Len(ls) \in Nat /\ \A k \in 1 .. Len(ls) : ls[k] \in Seq(Bytes)
  OBVIOUS
<1>2. \A k \in 1 .. Len(ls) : Verdict(ls[k]) \in Outcomes
  BY <1>1 DEF Outcomes
<1> HIDE DEF Outcomes
<1>3. QED
  BY <1>1, <1>2 DEF Verdicts

LEMMA NoOutcomeGivesUp == Unrecoverable \notin Outcomes
BY DEF Outcomes, Verdict, Text, Line, MalformedUtf8, TooLong, Unrecoverable

LEMMA BeginsWith ==
  ASSUME NEW S, NEW v \in Seq(S), NEW x \in S
  PROVE  IsPrefix(v, v) /\ IsPrefix(v, Append(v, x))
<1>1. SubSeq(v, 1, Len(v)) = v /\ SubSeq(Append(v, x), 1, Len(v)) = v
  OBVIOUS
<1>2. Len(v) \in Nat /\ Len(Append(v, x)) = Len(v) + 1
  OBVIOUS
<1>3. QED
  BY <1>1, <1>2 DEF IsPrefix

LEMMA LinesInvImplies == LinesInv => LinesAreWhole /\ EofReportsEverything
<1> SUFFICES ASSUME LinesInv PROVE LinesAreWhole /\ EofReportsEverything
  OBVIOUS
<1> DEFINE f == Framing(consumed)
           v == Verdicts(f.lines)
<1>1. f.open \in Seq(Bytes) /\ f.lines \in Seq(Seq(Bytes))
  BY DEF LinesInv, AnsweredWith, LineFrames
<1>2. AtDelimiter(f) \/ StillOpen(f) \/ LastAnswered(f) \/ CutShort(f)
  BY DEF LinesInv, AnsweredWith
<1>3. v \in Seq(Outcomes) /\ Verdict(f.open) \in Outcomes
  BY <1>1, VerdictsAreOutcomes DEF Outcomes
<1>4. /\ f.open = <<>> => Expected(consumed) = v
      /\ f.open # <<>> => Expected(consumed) = Append(v, Verdict(f.open))
  BY <1>1, VerdictsAppend DEF Expected
<1> HIDE DEF f
<1>5. results \in Seq(Outcomes) => ~GaveUp
  BY NoOutcomeGivesUp DEF GaveUp, Last
<1>6. CASE AtDelimiter(f)
  <2> DEFINE w == Verdicts(Front(f.lines))
             x == Verdict(Last(f.lines))
  <2>1. f.lines # <<>> /\ Front(f.lines) \in Seq(Seq(Bytes)) /\ Last(f.lines) \in Seq(Bytes)
    BY <1>1, <1>6 DEF AtDelimiter, Front, Last
  <2>2. w \in Seq(Outcomes) /\ x \in Outcomes /\ v = Append(w, x)
    BY <1>1, <2>1, VerdictsAreOutcomes, VerdictsSplit DEF Outcomes
  <2>3. results = w /\ Expected(consumed) = v /\ reading # "over"
    BY <1>4, <1>6 DEF AtDelimiter
  <2> HIDE DEF v, w, x
  <2>4. IsPrefix(results, Expected(consumed)) /\ ~GaveUp
    BY <1>5, <2>2, <2>3, BeginsWith
  <2>5. QED
    BY <2>3, <2>4 DEF LinesAreWhole, EofReportsEverything
<1>7. CASE StillOpen(f)
  <2>1. results = v
    BY <1>7 DEF StillOpen
  <2> HIDE DEF v
  <2>2. IsPrefix(results, Expected(consumed)) /\ ~GaveUp
    BY <1>3, <1>4, <1>5, <2>1, BeginsWith
  <2>3. ASSUME reading = "over" PROVE arrived = <<>> /\ results = Expected(consumed)
    <3>1. raw = <<>> /\ arrived = <<>>
      BY <1>7, <2>3 DEF StillOpen
    <3>2. f.open = <<>>
      BY <1>7, <3>1, LineReaderAssumption DEF StillOpen
    <3>3. QED
      BY <1>4, <2>1, <3>1, <3>2
  <2>4. QED
    BY <2>2, <2>3 DEF LinesAreWhole, EofReportsEverything
<1>8. CASE LastAnswered(f)
  <2>1. results = Append(v, Verdict(f.open)) /\ results = Expected(consumed) /\ arrived = <<>>
    BY <1>4, <1>8 DEF LastAnswered
  <2> HIDE DEF v
  <2>2. results \in Seq(Outcomes)
    <3> DEFINE x == Verdict(f.open)
    <3>1. v \in Seq(Outcomes) /\ x \in Outcomes /\ results = Append(v, x)
      BY <1>3, <2>1
    <3> HIDE DEF x
    <3>2. QED
      BY <3>1
  <2>3. IsPrefix(results, Expected(consumed)) /\ ~GaveUp
    BY <1>3, <1>5, <2>1, <2>2, BeginsWith
  <2>4. QED
    BY <2>1, <2>3 DEF LinesAreWhole, EofReportsEverything
<1>9. CASE CutShort(f)
  <2>1. results = Append(v, Unrecoverable)
    BY <1>9 DEF CutShort
  <2> HIDE DEF v
  <2>2. GaveUp /\ Front(results) = v
    <3> DEFINE S == Outcomes \union {Unrecoverable}
    <3>1. v \in Seq(S) /\ Unrecoverable \in S
      BY <1>3
    <3> HIDE DEF S
    <3>2. QED
      BY <2>1, <3>1 DEF GaveUp, Last, Front
  <2>3. IsPrefix(v, Expected(consumed))
    BY <1>3, <1>4, BeginsWith
  <2>4. QED
    BY <2>2, <2>3 DEF LinesAreWhole, EofReportsEverything
<1>10. QED
  BY <1>2, <1>6, <1>7, <1>8, <1>9

\* Whatever reads are dropped and however the bytes were cut on their way, what has been
\* answered is a beginning of the verdicts on the lines of the stream, for any limits and any
\* input: no line is answered twice, in two halves, or out of its turn.
THEOREM LinesAlwaysWhole == ReaderSpec => []LinesAreWhole
<1>1. LinesInv => LinesAreWhole
  BY LinesInvImplies
<1>2. QED
  BY <1>1, LinesInit, LinesStep, PTL DEF ReaderSpec

\* When the reader reports the end of its input, every line has been answered, an
\* unterminated last one as well.
THEOREM EofComesLast == ReaderSpec => []EofReportsEverything
<1>1. LinesInv => EofReportsEverything
  BY LinesInvImplies
<1>2. QED
  BY <1>1, LinesInit, LinesStep, PTL DEF ReaderSpec

=============================================================================
