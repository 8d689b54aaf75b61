--------------------------- MODULE RelaySessionProofs ---------------------------
(* Proofs about RelaySession, for any number of records, any queue size and *)
(* any bounds: the hand-over is complete, no record is forgotten, a local   *)
(* session supplies its clock, and the session implements AckOwnership.     *)
EXTENDS RelaySession, SequenceTheorems, FiniteSetTheorems, TLAPS

-----------------------------------------------------------------------------
(* Lemmas about the operators.                                              *)

LEMMA ItemTypes ==
  /\ Clock \in Items /\ ClockIfNeeded \in Items
  /\ \A r \in Records : LocalReply(r) \in Items
  /\ \A r \in Records \cup {NoRecord} : Relayed(r) \in Items
  /\ Clock # ClockIfNeeded
  BY DEF Items, Clock, ClockIfNeeded, LocalReply, Relayed

\* Settling a record keeps a sequence of distinct records, no longer than before.
LEMMA SettleType ==
  ASSUME NEW s \in Seq(Records), NEW r, Distinct(s)
  PROVE  /\ Settle(s, r) \in Seq(Records)
         /\ Len(Settle(s, r)) <= Len(s)
         /\ Distinct(Settle(s, r))
<1>1. CASE ~Contains(s, r)
  BY <1>1 DEF Settle
<1>2. CASE Contains(s, r)
  <2> DEFINE i == CHOOSE j \in DOMAIN s : s[j] = r
             a == SubSeq(s, 1, i - 1)
             b == SubSeq(s, i + 1, Len(s))
  <2>1. i \in 1..Len(s)
    BY <1>2 DEF Contains
  <2>4. Settle(s, r) = a \o b
    BY <1>2 DEF Settle, RemoveAt
  <2> HIDE DEF i
  <2>2. /\ a \in Seq(Records) /\ Len(a) = i - 1
        /\ \A j \in 1..(i - 1) : a[j] = s[j]
    BY <2>1, SubSeqProperties
  <2>3. /\ b \in Seq(Records) /\ Len(b) = Len(s) - i
        /\ \A j \in 1..(Len(s) - i) : b[j] = s[i + j]
    BY <2>1, SubSeqProperties
  <2> HIDE DEF a, b
  <2>5. /\ a \o b \in Seq(Records) /\ Len(a \o b) = Len(s) - 1
        /\ \A j \in 1..(Len(s) - 1) :
             (a \o b)[j] = IF j <= i - 1 THEN s[j] ELSE s[j + 1]
    <3>1. /\ a \o b \in Seq(Records) /\ Len(a \o b) = Len(a) + Len(b)
          /\ \A j \in 1..(Len(a) + Len(b)) :
               (a \o b)[j] = IF j <= Len(a) THEN a[j] ELSE b[j - Len(a)]
      BY <2>2, <2>3, ConcatProperties
    <3>2. ASSUME NEW j \in 1..(Len(s) - 1), j > i - 1
          PROVE  b[j - Len(a)] = s[j + 1]
      <4>1. j - (i - 1) \in 1..(Len(s) - i) /\ i + (j - (i - 1)) = j + 1
        BY <2>1, <3>2
      <4> QED
        BY <4>1, <2>2, <2>3
    <3> QED
      BY <2>1, <2>2, <2>3, <3>1, <3>2
  <2>6. ASSUME NEW j \in 1..(Len(s) - 1), NEW k \in 1..(Len(s) - 1), (a \o b)[j] = (a \o b)[k]
        PROVE  j = k
    <3> DEFINE p(n) == IF n <= i - 1 THEN n ELSE n + 1
    <3>1. p(j) \in 1..Len(s) /\ p(k) \in 1..Len(s) /\ s[p(j)] = s[p(k)]
      BY <2>1, <2>5, <2>6
    <3>2. p(j) = p(k)
      BY <3>1 DEF Distinct
    <3> QED
      BY <2>1, <3>2
  <2>7. DOMAIN (a \o b) = 1..(Len(s) - 1)
    BY <2>5
  <2> QED
    <3>1. Distinct(a \o b)
      BY <2>6, <2>7 DEF Distinct
    <3> QED
      BY <2>4, <2>5, <3>1
<1> QED
  BY <1>1, <1>2

LEMMA SettledType ==
  ASSUME NEW w \in Seq(Items), NEW needed \in BOOLEAN
  PROVE  Settled(w, needed) \in Seq(Items)
  BY ItemTypes DEF Settled

\* What a hand-over makes a task send.
LEMMA FallbackWorkType ==
  ASSUME NEW s \in Seq(Records), NEW extra \in Seq(Items)
  PROVE  [i \in DOMAIN s |-> LocalReply(s[i])] \o <<ClockIfNeeded>> \o extra \in Seq(Items)
<1>1. [i \in 1..Len(s) |-> LocalReply(s[i])] \in Seq(Items)
  BY ItemTypes, IsASeq
<1> QED
  BY <1>1, ItemTypes

LEMMA GoOnType ==
  ASSUME TasksType, NEW t \in Tasks, NEW w \in Seq(Items), NEW place \in Places,
         NEW needed \in BOOLEAN, NEW isCloud, GoOn(t, w, place, needed, isCloud)
  PROVE  TasksType'
<1>1. Settled(w, needed) \in Seq(Items)
  BY SettledType
<1>2. Resumed(t, isCloud) \in Places
  BY DEF Resumed, Places, Tasks
<1> QED
  BY <1>1, <1>2 DEF GoOn, TasksType

LEMMA NoSendType == NoSend \in [task : Tasks \cup {"none"}, item : Items]
  BY ItemTypes DEF NoSend

-----------------------------------------------------------------------------
(* The ways out of _fallback and of the session.                            *)

LEMMA HandOverType ==
  ASSUME SessionType, TasksType, NEW t \in Tasks, NEW extra \in Seq(Items),
         NEW needed \in BOOLEAN, HandOver(t, extra, needed)
  PROVE  SessionType' /\ TasksType'
<1>1. [i \in DOMAIN awaiting |-> LocalReply(awaiting[i])] \o <<ClockIfNeeded>> \o extra
        \in Seq(Items)
  BY FallbackWorkType DEF SessionType
<1>2. TasksType'
  BY <1>1, GoOnType DEF HandOver, Places
<1>3. SessionType'
  BY EmptySeq DEF HandOver, SessionType
<1> QED
  BY <1>2, <1>3

LEMMA DisconnectType ==
  ASSUME SessionType, TasksType, NEW t \in Tasks, Disconnect(t)
  PROVE  SessionType' /\ TasksType'
<1>1. SessionType'
  BY DEF Disconnect, SessionType
<1>2. TasksType'
  BY EmptySeq DEF Disconnect, TasksType, Places
<1> QED
  BY <1>1, <1>2

LEMMA FallbackType ==
  ASSUME SessionType, TasksType, NEW t \in Tasks, Fallback(t)
  PROVE  SessionType' /\ TasksType'
<1>1. CASE HandOver(t, <<>>, clockNeeded)
  BY <1>1, HandOverType, EmptySeq DEF SessionType
<1>2. CASE Disconnect(t)
  BY <1>2, DisconnectType
<1>3. CASE AlreadyHandedOver(t)
  <2>1. TasksType'
    BY <1>3, GoOnType, EmptySeq DEF AlreadyHandedOver, SessionType, Places
  <2>2. SessionType'
    BY <1>3 DEF AlreadyHandedOver, SessionType, session
  <2> QED
    BY <2>1, <2>2
<1> QED
  BY <1>1, <1>2, <1>3 DEF Fallback

LEMMA FinishType ==
  ASSUME SessionType, Finish
  PROVE  SessionType' /\ TasksType' /\ SendingType'
<1>1. SessionType'
  BY DEF Finish, SessionType
<1>2. TasksType'
  BY DEF Finish, TasksType, Places
<1> QED
  BY <1>1, <1>2, NoSendType DEF Finish, SendingType

LEMMA CloudTaskEndsType ==
  ASSUME SessionType, TasksType, CloudTaskEnds
  PROVE  SessionType' /\ TasksType'
<1>1. CASE Fallback("cloud")
  BY <1>1, FallbackType DEF Tasks
<1>2. CASE ~Fallback("cloud")
  <2>1. SessionType'
    BY <1>2 DEF CloudTaskEnds, SessionType, session
  <2>2. work' = [work EXCEPT !["cloud"] = <<>>] /\ pc' = [pc EXCEPT !["cloud"] = "done"]
    BY <1>2 DEF CloudTaskEnds
  <2>3. TasksType'
    BY <2>2, EmptySeq DEF TasksType, Places
  <2> QED
    BY <2>1, <2>3
<1> QED
  BY <1>1, <1>2

\* Parts of the state a step leaves alone keep their type.
LEMMA Unchanged ==
  /\ SessionType /\ UNCHANGED session => SessionType'
  /\ TasksType /\ UNCHANGED <<pc, work>> => TasksType'
  /\ SendingType /\ UNCHANGED sending => SendingType'
  /\ EnvironmentType /\ UNCHANGED environment => EnvironmentType'
  /\ HistoryType /\ UNCHANGED history => HistoryType'
  BY DEF SessionType, TasksType, SendingType, EnvironmentType, HistoryType,
         session, environment, history

\* Settings are read once: no step changes cloud_fallback.
LEMMA SettingsKept == [Next]_vars => UNCHANGED cloudFallback
  BY DEF Next, vars, environment, ConnectCloud, ConnectFails, SessionEnds, WriterCloses,
         ReceiveForward, ReceiveOverflow, ReceiveLocal, UpstreamDrained, UpstreamFails,
         CloudAnswers, CloudSendsClock, CloudFrameAfterHandOver, CloudFrameBlocked, CloudFrame,
         CloudDisconnects, DeadlineExpires, DeadlineStops, SendBegin, SendDone, SendFails, Ended

LEMMA KeepLockType == SendingType /\ KeepLock => SendingType'
  BY NoSendType DEF SendingType, KeepLock

-----------------------------------------------------------------------------
(* Type correctness.                                                        *)

LEMMA InitType == Init => TypeOK
<1> SUFFICES ASSUME Init PROVE TypeOK
  OBVIOUS
<1>1. SessionType
  BY EmptySeq DEF Init, SessionType
<1>2. TasksType
  BY DEF Init, TasksType, Places
<1>3. SendingType
  BY NoSendType DEF Init, SendingType
<1>4. EnvironmentType
  BY DEF Init, EnvironmentType, None
<1>5. HistoryType
  BY DEF Init, HistoryType, None
<1> QED
  BY <1>1, <1>2, <1>3, <1>4, <1>5 DEF TypeOK

LEMMA TypePreserved == TypeOK /\ AwaitingBounded /\ [Next]_vars => TypeOK'
<1> SUFFICES ASSUME TypeOK, AwaitingBounded, [Next]_vars PROVE TypeOK'
  OBVIOUS
<1> USE Unchanged DEF TypeOK
<1>1. CASE ConnectCloud
  <2>1. SessionType'
    BY <1>1 DEF ConnectCloud, SessionType
  <2>2. TasksType'
    BY <1>1 DEF ConnectCloud, TasksType, Places
  <2> QED
    BY <1>1, <2>1, <2>2 DEF ConnectCloud
<1>2. CASE ConnectFails
  BY <1>2, FallbackType, KeepLockType DEF ConnectFails, Tasks
<1>3. CASE SessionEnds
  BY <1>3, FinishType DEF SessionEnds
<1>4. CASE WriterCloses
  BY <1>4 DEF WriterCloses, tasks, SessionType
<1>5. ASSUME NEW r \in Records, ReceiveForward(r) PROVE TypeOK'
  <2>1. SessionType'
    BY <1>5 DEF ReceiveForward, Outstanding, DueAfter, SessionType
  <2>2. TasksType'
    BY <1>5 DEF ReceiveForward, TasksType, Places
  <2>3. EnvironmentType'
    BY <1>5 DEF ReceiveForward, EnvironmentType
  <2>4. HistoryType'
    BY <1>5 DEF ReceiveForward, Receive, HistoryType
  <2> QED
    BY <1>5, <2>1, <2>2, <2>3, <2>4 DEF ReceiveForward
<1>6. ASSUME NEW r \in Records, ReceiveOverflow(r) PROVE TypeOK'
  <2>1. HistoryType'
    BY <1>6 DEF ReceiveOverflow, Receive, HistoryType
  <2>2. <<LocalReply(r)>> \in Seq(Items) /\ DueAfter(r) \in BOOLEAN
    BY ItemTypes DEF DueAfter, SessionType
  <2>3. SessionType' /\ TasksType'
    BY <1>6, <2>2, HandOverType, DisconnectType DEF ReceiveOverflow, Tasks
  <2> QED
    BY <1>6, <2>1, <2>3, KeepLockType DEF ReceiveOverflow
<1>7. ASSUME NEW r \in Records, ReceiveLocal(r) PROVE TypeOK'
  <2>1. SessionType'
    BY <1>7 DEF ReceiveLocal, DueAfter, SessionType
  <2>2. TasksType'
    <3>1. <<LocalReply(r)>> \in Seq(Items) /\ clockNeeded' \in BOOLEAN
      BY <2>1, ItemTypes DEF SessionType
    <3> QED
      BY <1>7, <3>1, GoOnType DEF ReceiveLocal, Places, Tasks
  <2>3. HistoryType'
    BY <1>7 DEF ReceiveLocal, Receive, HistoryType
  <2> QED
    BY <1>7, <2>1, <2>2, <2>3 DEF ReceiveLocal
<1>8. CASE UpstreamDrained
  <2>1. TasksType'
    BY <1>8 DEF UpstreamDrained, TasksType, Places
  <2> QED
    BY <1>8, <2>1 DEF UpstreamDrained
<1>9. CASE UpstreamFails
  BY <1>9, FallbackType, KeepLockType DEF UpstreamFails, Tasks
<1>10. ASSUME NEW r \in Records, CloudAnswers(r) PROVE TypeOK'
  <2>1. EnvironmentType'
    BY <1>10 DEF CloudAnswers, EnvironmentType, CloudFrames
  <2> QED
    BY <1>10, <2>1 DEF CloudAnswers, tasks
<1>11. CASE CloudSendsClock
  <2>1. EnvironmentType'
    BY <1>11 DEF CloudSendsClock, EnvironmentType, CloudFrames
  <2>2. HistoryType'
    BY <1>11 DEF CloudSendsClock, HistoryType
  <2> QED
    BY <1>11, <2>1, <2>2 DEF CloudSendsClock, tasks
<1>12. CASE CloudFrameAfterHandOver
  <2>1. EnvironmentType'
    BY <1>12 DEF CloudFrameAfterHandOver, CloudTaskReads, EnvironmentType
  <2>2. TasksType'
    BY <1>12 DEF CloudFrameAfterHandOver, TasksType, Places
  <2> QED
    BY <1>12, <2>1, <2>2 DEF CloudFrameAfterHandOver
<1>13. CASE CloudFrameBlocked
  <2>1. EnvironmentType'
    BY <1>13 DEF CloudFrameBlocked, CloudTaskReads, EnvironmentType
  <2> QED
    BY <1>13, <2>1 DEF CloudFrameBlocked, tasks
<1>14. CASE CloudFrame
  <2>1. Head(fromCloud) \in CloudFrames /\ EnvironmentType'
    BY <1>14 DEF CloudFrame, CloudTaskReads, EnvironmentType
  <2>2. SessionType'
    BY <1>14, SettleType DEF CloudFrame, AwaitingBounded, SessionType
  <2>3. (IF Head(fromCloud).kind = "ack" THEN Head(fromCloud).rec ELSE NoRecord)
          \in Records \cup {NoRecord}
    BY <2>1 DEF CloudFrames
  <2>4. TasksType'
    <3> DEFINE relayed == Relayed(IF Head(fromCloud).kind = "ack" THEN Head(fromCloud).rec
                                  ELSE NoRecord)
    <3>1. <<relayed>> \in Seq(Items)
      BY <2>3, ItemTypes
    <3>2. GoOn("cloud", <<relayed>>, "relay", FALSE, TRUE)
      BY <1>14 DEF CloudFrame
    <3> QED
      BY <3>1, <3>2, GoOnType DEF Places, Tasks
  <2> QED
    BY <1>14, <2>1, <2>2, <2>4 DEF CloudFrame
<1>15. CASE CloudDisconnects
  BY <1>15, CloudTaskEndsType DEF CloudDisconnects
<1>16. CASE DeadlineExpires
  BY <1>16, FallbackType DEF DeadlineExpires, Tasks
<1>17. CASE DeadlineStops
  <2>1. TasksType'
    BY <1>17 DEF DeadlineStops, TasksType, Places
  <2> QED
    BY <1>17, <2>1 DEF DeadlineStops
<1>18. ASSUME NEW t \in Tasks, SendBegin(t) PROVE TypeOK'
  <2>1. Head(work[t]) \in Items /\ Tail(work[t]) \in Seq(Items)
    BY <1>18 DEF SendBegin, TasksType
  <2>2. TasksType'
    BY <1>18, <2>1 DEF SendBegin, TasksType
  <2>3. SendingType'
    BY <1>18, <2>1 DEF SendBegin, SendingType
  <2>4. HistoryType'
    <3>1. CASE Head(work[t]).rec \in Records
      <4> DEFINE owner == IF Head(work[t]).kind = "cloud" THEN "cloud" ELSE "local"
      <4>1. answers' = [answers EXCEPT ![owner][Head(work[t]).rec] = @ + 1]
        BY <1>18, <3>1 DEF SendBegin
      <4>2. owner \in Owners
        BY DEF Owners
      <4> HIDE DEF owner
      <4>3. answers[owner][Head(work[t]).rec] + 1 \in Nat
        BY <3>1, <4>2 DEF HistoryType
      <4>4. answers' \in [Owners -> [Records -> Nat]]
        BY <3>1, <4>1, <4>2, <4>3 DEF HistoryType
      <4> QED
        BY <1>18, <4>4 DEF SendBegin, HistoryType
    <3>2. CASE Head(work[t]).rec \notin Records
      BY <1>18, <3>2 DEF SendBegin, HistoryType
    <3> QED
      BY <3>1, <3>2
  <2> QED
    BY <1>18, <2>2, <2>3, <2>4 DEF SendBegin
<1>19. ASSUME NEW t \in Tasks, SendDone(t) PROVE TypeOK'
  <2> DEFINE follow == IF sending.item.kind = "local" /\ sending.item.rec \in Announces
                       THEN <<Clock>> ELSE <<>>
  <2>1. SessionType'
    BY <1>19 DEF SendDone, SessionType
  <2>2. follow \o work[t] \in Seq(Items) /\ pc[t] \in Places
    BY ItemTypes DEF TasksType
  <2>3. clockNeeded' \in BOOLEAN
    BY <2>1 DEF SessionType
  <2>4. TasksType'
    BY <1>19, <2>2, <2>3, GoOnType DEF SendDone
  <2> QED
    BY <1>19, <2>1, <2>4, NoSendType DEF SendDone, SendingType
<1>20. ASSUME NEW t \in Tasks, SendFails(t) PROVE TypeOK'
  <2>1. HistoryType' /\ SendingType'
    BY <1>20, NoSendType DEF SendFails, HistoryType, SendingType
  <2>2. CASE t = "device"
    BY <1>20, <2>1, <2>2, FinishType DEF SendFails
  <2>3. CASE t = "cloud" /\ pc["cloud"] = "relay"
    BY <1>20, <2>1, <2>3, CloudTaskEndsType DEF SendFails
  <2>4. CASE t # "device" /\ ~(t = "cloud" /\ pc["cloud"] = "relay")
    <3>1. work' = [work EXCEPT ![t] = <<>>] /\ pc' = [pc EXCEPT ![t] = "done"]
          /\ UNCHANGED session
      BY <1>20, <2>4 DEF SendFails
    <3>2. TasksType'
      BY <3>1, EmptySeq DEF TasksType, Places
    <3> QED
      BY <1>20, <2>1, <3>1, <3>2 DEF SendFails
  <2> QED
    BY <2>2, <2>3, <2>4
<1>21. CASE Ended \/ UNCHANGED vars
  BY <1>21 DEF Ended, vars, tasks
<1> QED
  BY <1>1, <1>2, <1>3, <1>4, <1>5, <1>6, <1>7, <1>8, <1>9, <1>10, <1>11, <1>12, <1>13,
     <1>14, <1>15, <1>16, <1>17, <1>18, <1>19, <1>20, <1>21 DEF Next

-----------------------------------------------------------------------------
(* Which steps touch the ownership of acknowledgements.                     *)

\* Steps that leave the owner, the outstanding records and the end of the
\* session alone.
Quiet == UNCHANGED <<open, cloud, fellBack, awaiting>>

LEMMA FallbackCases ==
  ASSUME NEW t \in Tasks, Fallback(t)
  PROVE  HandOver(t, <<>>, clockNeeded) \/ Disconnect(t) \/ Quiet
  BY DEF Fallback, AlreadyHandedOver, session, Quiet

LEMMA OwnershipSteps ==
  ASSUME [Next]_vars
  PROVE  \/ Quiet
         \/ ConnectCloud
         \/ Finish
         \/ \E r \in Records : ReceiveForward(r)
         \/ CloudFrame
         \/ \E t \in Tasks : Disconnect(t)
         \/ \E t \in Tasks : \E extra, needed : HandOver(t, extra, needed)
<1> DEFINE Goal == \/ Quiet
                   \/ ConnectCloud
                   \/ Finish
                   \/ \E r \in Records : ReceiveForward(r)
                   \/ CloudFrame
                   \/ \E t \in Tasks : Disconnect(t)
                   \/ \E t \in Tasks : \E extra, needed : HandOver(t, extra, needed)
<1> SUFFICES Goal
  OBVIOUS
<1>1. ASSUME NEW t \in Tasks, Fallback(t) PROVE Goal
  BY <1>1, FallbackCases
<1>2. CASE ConnectCloud \/ SessionEnds \/ CloudFrame
  BY <1>2 DEF SessionEnds
<1>3. CASE ConnectFails \/ UpstreamFails \/ DeadlineExpires
  BY <1>1, <1>3 DEF ConnectFails, UpstreamFails, DeadlineExpires, Tasks
<1>4. CASE WriterCloses \/ UpstreamDrained \/ CloudSendsClock \/ CloudFrameAfterHandOver
           \/ CloudFrameBlocked \/ DeadlineStops \/ Ended \/ UNCHANGED vars
  BY <1>4 DEF WriterCloses, UpstreamDrained, CloudSendsClock, CloudFrameAfterHandOver,
              CloudFrameBlocked, DeadlineStops, Ended, vars, session, Quiet
<1>5. ASSUME NEW r \in Records,
             ReceiveForward(r) \/ ReceiveOverflow(r) \/ ReceiveLocal(r) \/ CloudAnswers(r)
      PROVE  Goal
  <2>1. CASE ReceiveOverflow(r)
    BY <2>1 DEF ReceiveOverflow, Tasks
  <2>2. CASE ReceiveLocal(r) \/ CloudAnswers(r)
    BY <2>2 DEF ReceiveLocal, CloudAnswers, session, Quiet
  <2> QED
    BY <1>5, <2>1, <2>2
<1>6. CASE CloudTaskEnds
  <2>1. CASE Fallback("cloud")
    BY <1>1, <2>1 DEF Tasks
  <2>2. CASE UNCHANGED session
    BY <2>2 DEF session, Quiet
  <2> QED
    BY <1>6, <2>1, <2>2 DEF CloudTaskEnds
<1>7. ASSUME NEW t \in Tasks, SendBegin(t) \/ SendDone(t) \/ SendFails(t) PROVE Goal
  <2>1. CASE SendBegin(t) \/ SendDone(t)
    BY <2>1 DEF SendBegin, SendDone, session, Quiet
  <2>2. CASE SendFails(t)
    <3>1. Finish \/ CloudTaskEnds \/ UNCHANGED session
      BY <2>2 DEF SendFails
    <3> QED
      BY <1>6, <3>1 DEF session, Quiet
  <2> QED
    BY <1>7, <2>1, <2>2
<1> HIDE DEF Goal
<1> QED
  BY <1>2, <1>3, <1>4, <1>5, <1>6, <1>7 DEF Next, CloudDisconnects

-----------------------------------------------------------------------------
(* The hand-over is complete.                                               *)

LEMMA AwaitingPreserved == TypeOK /\ AwaitingBounded /\ [Next]_vars => AwaitingBounded'
<1> SUFFICES ASSUME TypeOK, AwaitingBounded, [Next]_vars PROVE AwaitingBounded'
  OBVIOUS
<1>1. CASE awaiting' = awaiting
  BY <1>1 DEF AwaitingBounded, Distinct
<1>2. CASE awaiting' = <<>>
  BY <1>2, SessionAssumption DEF AwaitingBounded, Distinct
<1>3. ASSUME NEW r \in Records, ReceiveForward(r) PROVE AwaitingBounded'
  <2>1. CASE awaiting' = awaiting
    BY <2>1, <1>1
  <2>2. CASE awaiting' # awaiting
    <3>1. awaiting' = Append(awaiting, r) /\ ~Contains(awaiting, r) /\ Len(awaiting) < QueueSize
      BY <1>3, <2>2, SessionAssumption DEF ReceiveForward, Outstanding, TypeOK, SessionType
    <3>2. awaiting \in Seq(Records)
      BY DEF TypeOK, SessionType
    <3>3. Len(awaiting') <= QueueSize
      BY <3>1, <3>2, SessionAssumption
    <3>4. Distinct(awaiting')
      BY <3>1, <3>2 DEF AwaitingBounded, Distinct, Contains
    <3> QED
      BY <3>3, <3>4 DEF AwaitingBounded
  <2> QED
    BY <2>1, <2>2
<1>4. CASE CloudFrame
  <2>1. CASE awaiting' = Settle(awaiting, Head(fromCloud).rec)
    BY <2>1, SettleType, SessionAssumption DEF AwaitingBounded, TypeOK, SessionType
  <2>2. CASE awaiting' = awaiting
    BY <2>2, <1>1
  <2> QED
    BY <1>4, <2>1, <2>2 DEF CloudFrame
<1> QED
  BY <1>1, <1>2, <1>3, <1>4, OwnershipSteps
     DEF Quiet, ConnectCloud, Finish, Disconnect, HandOver

LEMMA HandOverPreserved ==
  HandOverIsComplete /\ ConnectingIsFirst /\ [Next]_vars => HandOverIsComplete'
<1> SUFFICES ASSUME HandOverIsComplete, ConnectingIsFirst, [Next]_vars
             PROVE  HandOverIsComplete'
  OBVIOUS
<1>1. CASE Quiet
  BY <1>1, SettingsKept DEF Quiet, HandOverIsComplete
<1>2. CASE ConnectCloud
  BY <1>2 DEF ConnectCloud, ConnectingIsFirst, Connecting, HandOverIsComplete
<1>3. CASE Finish
  BY <1>3, SettingsKept DEF Finish, HandOverIsComplete
<1>4. ASSUME NEW r \in Records, ReceiveForward(r) PROVE HandOverIsComplete'
  BY <1>4 DEF ReceiveForward, Outstanding, HandOverIsComplete
<1>5. CASE CloudFrame
  BY <1>5 DEF CloudFrame, HandOverIsComplete
<1>6. ASSUME NEW t \in Tasks, Disconnect(t) PROVE HandOverIsComplete'
  BY <1>6, SettingsKept DEF Disconnect, HandOverIsComplete
<1>7. ASSUME NEW t \in Tasks, NEW extra, NEW needed, HandOver(t, extra, needed)
      PROVE  HandOverIsComplete'
  BY <1>7 DEF HandOver, HandOverIsComplete
<1> QED
  BY <1>1, <1>2, <1>3, <1>4, <1>5, <1>6, <1>7, OwnershipSteps

-----------------------------------------------------------------------------
(* Opening the connection to the cloud comes first.                         *)

\* A task that goes on never returns to opening the connection.
LEMMA GoOnLeavesConnecting ==
  ASSUME TasksType, NEW t \in Tasks, NEW w, NEW place, NEW needed, NEW isCloud,
         GoOn(t, w, place, needed, isCloud), t = "device" => place # "connect"
  PROVE  Connecting' => Connecting
  BY DEF GoOn, TasksType, Connecting, Resumed, Tasks

LEMMA HandOverLeavesConnecting ==
  ASSUME TasksType, NEW t \in Tasks, NEW extra, NEW needed, HandOver(t, extra, needed)
  PROVE  Connecting' => Connecting
<1>1. ASSUME NEW w, GoOn(t, w, "fallback", needed, FALSE) PROVE Connecting' => Connecting
  BY <1>1 DEF GoOn, TasksType, Connecting, Resumed, Tasks
<1> QED
  BY <1>1 DEF HandOver

LEMMA FallbackLeavesConnecting ==
  ASSUME TasksType, NEW t \in Tasks, Fallback(t)
  PROVE  Connecting' => Connecting /\ t # "device"
<1>1. ASSUME NEW w, NEW needed, NEW isCloud, GoOn(t, w, "fallback", needed, isCloud)
      PROVE  Connecting' => Connecting /\ t # "device"
  BY <1>1 DEF GoOn, TasksType, Connecting, Resumed, Tasks
<1>2. CASE Disconnect(t)
  BY <1>2 DEF Disconnect, TasksType, Connecting, Tasks
<1> QED
  BY <1>1, <1>2 DEF Fallback, HandOver, AlreadyHandedOver

\* While connecting, only the outcome of the attempt or the end of the session
\* can happen.
LEMMA ConnectingSteps ==
  ASSUME ConnectingIsFirst, Connecting, [Next]_vars
  PROVE  ConnectCloud \/ ConnectFails \/ SessionEnds \/ WriterCloses \/ UNCHANGED vars
  BY DEF ConnectingIsFirst, Connecting, Next, Receive, ReceiveForward, ReceiveOverflow,
         ReceiveLocal, UpstreamDrained, UpstreamFails, CloudAnswers, CloudSendsClock,
         CloudTaskReads, CloudFrameAfterHandOver, CloudFrameBlocked, CloudFrame,
         CloudDisconnects, DeadlineExpires, DeadlineStops, SendBegin, SendDone, SendFails,
         Ended

\* The session never goes back to connecting.
LEMMA ConnectingIsOver ==
  ASSUME TypeOK, ~Connecting, [Next]_vars
  PROVE  ~Connecting'
<1> USE DEF TypeOK
<1>1. ASSUME NEW t \in Tasks, Fallback(t) PROVE ~Connecting'
  BY <1>1, FallbackLeavesConnecting
<1>2. CASE Finish
  BY <1>2 DEF Finish, Connecting, Tasks
<1>3. CASE UNCHANGED pc
  BY <1>3 DEF Connecting
<1>4. CASE ConnectCloud \/ SessionEnds \/ WriterCloses
  BY <1>2, <1>3, <1>4 DEF ConnectCloud, SessionEnds, WriterCloses, tasks, Connecting
<1>5. CASE ConnectFails \/ UpstreamFails \/ DeadlineExpires
  BY <1>1, <1>5 DEF ConnectFails, UpstreamFails, DeadlineExpires, Tasks
<1>6. ASSUME NEW r \in Records,
             ReceiveForward(r) \/ ReceiveOverflow(r) \/ ReceiveLocal(r) \/ CloudAnswers(r)
      PROVE  ~Connecting'
  <2>1. CASE ReceiveForward(r)
    BY <2>1 DEF ReceiveForward, TasksType, Connecting, Tasks
  <2>2. CASE ReceiveOverflow(r)
    <3>1. CASE HandOver("device", <<LocalReply(r)>>, DueAfter(r))
      BY <3>1, HandOverLeavesConnecting DEF Tasks
    <3>2. CASE Disconnect("device")
      BY <3>2 DEF Disconnect, Connecting, Tasks
    <3> QED
      BY <2>2, <3>1, <3>2 DEF ReceiveOverflow
  <2>3. CASE ReceiveLocal(r)
    BY <2>3, GoOnLeavesConnecting DEF ReceiveLocal, Tasks
  <2>4. CASE CloudAnswers(r)
    BY <2>4, <1>3 DEF CloudAnswers, tasks
  <2> QED
    BY <1>6, <2>1, <2>2, <2>3, <2>4
<1>7. CASE UpstreamDrained \/ CloudFrameAfterHandOver \/ DeadlineStops
  BY <1>7 DEF UpstreamDrained, CloudFrameAfterHandOver, DeadlineStops, TasksType, Connecting, Tasks
<1>8. CASE CloudSendsClock \/ CloudFrameBlocked \/ Ended \/ UNCHANGED vars
  BY <1>3, <1>8 DEF CloudSendsClock, CloudFrameBlocked, Ended, vars, tasks
<1>9. CASE CloudFrame
  BY <1>9, GoOnLeavesConnecting DEF CloudFrame, Tasks
<1>10. CASE CloudTaskEnds
  <2>1. CASE Fallback("cloud")
    BY <1>1, <2>1 DEF Tasks
  <2>2. CASE pc' = [pc EXCEPT !["cloud"] = "done"]
    BY <2>2 DEF TasksType, Connecting, Tasks
  <2> QED
    BY <1>10, <2>1, <2>2 DEF CloudTaskEnds
<1>11. ASSUME NEW t \in Tasks, SendBegin(t) \/ SendDone(t) \/ SendFails(t) PROVE ~Connecting'
  <2>1. CASE SendBegin(t)
    BY <2>1, <1>3 DEF SendBegin
  <2>2. CASE SendDone(t)
    BY <2>2, GoOnLeavesConnecting DEF SendDone, Connecting
  <2>3. CASE SendFails(t)
    <3>1. Finish \/ CloudTaskEnds \/ pc' = [pc EXCEPT ![t] = "done"]
      BY <2>3 DEF SendFails
    <3>2. CASE pc' = [pc EXCEPT ![t] = "done"]
      <4>1. pc'["device"] = IF t = "device" THEN "done" ELSE pc["device"]
        BY <3>2 DEF TasksType, Tasks
      <4> QED
        BY <4>1 DEF Connecting
    <3> QED
      BY <1>2, <1>10, <3>1, <3>2
  <2> QED
    BY <1>11, <2>1, <2>2, <2>3
<1> QED
  BY <1>4, <1>5, <1>6, <1>7, <1>8, <1>9, <1>10, <1>11 DEF Next, CloudDisconnects

LEMMA ConnectingStays ==
  ASSUME TypeOK, ConnectingIsFirst, [Next]_vars, Connecting'
  PROVE  Connecting /\ (WriterCloses \/ UNCHANGED vars)
<1>1. Connecting
  BY ConnectingIsOver
<1>2. ~ConnectCloud
  BY DEF ConnectCloud, Connecting, Tasks
<1>3. ~ConnectFails
  BY FallbackLeavesConnecting DEF ConnectFails, TypeOK, Tasks
<1>4. ~SessionEnds
  BY DEF SessionEnds, Finish, Connecting, Tasks
<1> QED
  BY <1>1, <1>2, <1>3, <1>4, ConnectingSteps

LEMMA ConnectingPreserved == TypeOK /\ ConnectingIsFirst /\ [Next]_vars => ConnectingIsFirst'
<1> SUFFICES ASSUME TypeOK, ConnectingIsFirst, [Next]_vars, Connecting'
             PROVE  ConnectingIsFirst'
  BY DEF ConnectingIsFirst
<1>1. Connecting /\ (WriterCloses \/ UNCHANGED vars)
  BY ConnectingStays
<1> QED
  BY <1>1 DEF WriterCloses, vars, session, tasks, ConnectingIsFirst, Connecting

-----------------------------------------------------------------------------
(* With cloud_fallback disabled only the cloud answers.                     *)

OnlyRelays(w) == \A i \in DOMAIN w : w[i].kind = "cloud"

\* A task with nothing but frames of the cloud to send goes on with those.
LEMMA GoOnRelays ==
  ASSUME TasksType, NEW t \in Tasks, NEW w \in Seq(Items), OnlyRelays(w),
         NEW place, NEW needed, NEW isCloud, GoOn(t, w, place, needed, isCloud),
         \A u \in Tasks : OnlyRelays(work[u])
  PROVE  \A u \in Tasks : OnlyRelays(work'[u])
<1>1. Settled(w, needed) = w
  <2>1. w # <<>> => Head(w).kind = "cloud"
    BY DEF OnlyRelays
  <2> QED
    BY <2>1 DEF Settled, ClockIfNeeded
<1> QED
  BY <1>1 DEF GoOn, TasksType

\* The three parts of CloudKeepsSession and the answers given, one at a time.
RelayedWork == \A t \in Tasks : OnlyRelays(work[t])
RelayedSend == sending # NoSend => sending.item.kind = "cloud"
RunsForCloud == open /\ ~Connecting => cloud

LEMMA CloudKeepsParts ==
  CloudKeepsSession <=> (~cloudFallback => RunsForCloud /\ RelayedSend /\ RelayedWork)
  BY DEF CloudKeepsSession, RunsForCloud, RelayedSend, RelayedWork, OnlyRelays

LEMMA EmptyRelays == OnlyRelays(<<>>)
  BY DEF OnlyRelays

LEMMA NoHandOver ==
  ASSUME ~cloudFallback, NEW t, NEW extra, NEW needed
  PROVE  ~HandOver(t, extra, needed)
  BY DEF HandOver

LEMMA FallbackRelays ==
  ASSUME ~cloudFallback, TasksType, RelayedWork, NEW t \in Tasks, Fallback(t)
  PROVE  RelayedWork'
<1>1. CASE Disconnect(t)
  BY <1>1, EmptyRelays DEF Disconnect, TasksType, RelayedWork
<1>2. CASE AlreadyHandedOver(t)
  BY <1>2, EmptyRelays, EmptySeq, GoOnRelays DEF AlreadyHandedOver, RelayedWork
<1> QED
  BY <1>1, <1>2, NoHandOver DEF Fallback

LEMMA RunsForCloudPreserved ==
  ASSUME ~cloudFallback, TypeOK, ConnectingIsFirst, RunsForCloud, [Next]_vars
  PROVE  RunsForCloud'
<1>1. CASE Connecting
  <2>1. CASE ConnectFails
    BY <1>1, <2>1, NoHandOver
       DEF ConnectFails, Fallback, AlreadyHandedOver, ConnectingIsFirst, Disconnect, RunsForCloud
  <2> QED
    BY <1>1, <2>1, ConnectingSteps
       DEF ConnectCloud, SessionEnds, Finish, WriterCloses, tasks, vars, session, RunsForCloud,
           Connecting
<1>2. CASE ~Connecting
  BY <1>2, NoHandOver, OwnershipSteps
     DEF Quiet, ConnectCloud, Finish, ReceiveForward, CloudFrame, Disconnect, RunsForCloud
<1> QED
  BY <1>1, <1>2

\* Any step keeps the work of the tasks to frames of the cloud.
LEMMA RelayedWorkPreserved ==
  ASSUME ~cloudFallback, TypeOK, ConnectingIsFirst, RunsForCloud, RelayedSend, RelayedWork,
         [Next]_vars
  PROVE  RelayedWork'
<1> USE DEF TypeOK
<1>1. ASSUME NEW t \in Tasks, Fallback(t) PROVE RelayedWork'
  BY <1>1, FallbackRelays
<1>2. CASE UNCHANGED work
  BY <1>2 DEF RelayedWork
<1>3. CASE Finish
  BY <1>3, EmptyRelays DEF Finish, RelayedWork
<1>4. CASE CloudTaskEnds
  <2>1. CASE Fallback("cloud")
    BY <1>1, <2>1 DEF Tasks
  <2>2. CASE work' = [work EXCEPT !["cloud"] = <<>>]
    BY <2>2, EmptyRelays DEF RelayedWork, TasksType
  <2> QED
    BY <1>4, <2>1, <2>2 DEF CloudTaskEnds
<1>5. CASE ConnectFails \/ UpstreamFails \/ DeadlineExpires
  BY <1>1, <1>5 DEF ConnectFails, UpstreamFails, DeadlineExpires, Tasks
<1>6. CASE ConnectCloud \/ WriterCloses \/ UpstreamDrained \/ CloudSendsClock
           \/ CloudFrameAfterHandOver \/ CloudFrameBlocked \/ DeadlineStops \/ Ended
           \/ UNCHANGED vars
  BY <1>2, <1>6 DEF ConnectCloud, WriterCloses, UpstreamDrained, CloudSendsClock,
                    CloudFrameAfterHandOver, CloudFrameBlocked, DeadlineStops, Ended, vars, tasks
<1>7. ASSUME NEW r \in Records,
             ReceiveForward(r) \/ ReceiveOverflow(r) \/ ReceiveLocal(r) \/ CloudAnswers(r)
      PROVE  RelayedWork'
  <2>1. CASE ReceiveOverflow(r)
    BY <2>1, NoHandOver, EmptyRelays DEF ReceiveOverflow, Disconnect, RelayedWork
  <2>2. ~ReceiveLocal(r)
    BY DEF ReceiveLocal, Receive, RunsForCloud, Connecting
  <2> QED
    BY <1>2, <1>7, <2>1, <2>2 DEF ReceiveForward, CloudAnswers, tasks
<1>8. CASE CloudFrame
  <2> DEFINE relayed == Relayed(IF Head(fromCloud).kind = "ack" THEN Head(fromCloud).rec
                                ELSE NoRecord)
  <2>1. Head(fromCloud) \in CloudFrames
    BY <1>8 DEF CloudFrame, CloudTaskReads, EnvironmentType
  <2>2. (IF Head(fromCloud).kind = "ack" THEN Head(fromCloud).rec ELSE NoRecord)
          \in Records \cup {NoRecord}
    BY <2>1 DEF CloudFrames
  <2>3. <<relayed>> \in Seq(Items) /\ OnlyRelays(<<relayed>>)
    BY <2>2, ItemTypes DEF OnlyRelays, Relayed
  <2>4. GoOn("cloud", <<relayed>>, "relay", FALSE, TRUE)
    BY <1>8 DEF CloudFrame
  <2> HIDE DEF relayed
  <2>5. \A u \in Tasks : OnlyRelays(work'[u])
    BY <2>3, <2>4, GoOnRelays DEF RelayedWork, Tasks
  <2> QED
    BY <2>5 DEF RelayedWork
<1>9. ASSUME NEW t \in Tasks, SendBegin(t) PROVE RelayedWork'
  <2>1. work[t] \in Seq(Items) /\ work[t] # <<>> /\ work' = [work EXCEPT ![t] = Tail(@)]
    BY <1>9 DEF SendBegin, TasksType
  <2>2. OnlyRelays(Tail(work[t]))
    BY <2>1 DEF RelayedWork, OnlyRelays
  <2> QED
    BY <2>1, <2>2 DEF RelayedWork, TasksType
<1>10. ASSUME NEW t \in Tasks, SendDone(t) PROVE RelayedWork'
  <2>1. sending.item.kind = "cloud"
    BY <1>10 DEF SendDone, RelayedSend
  <2>2. GoOn(t, <<>> \o work[t], pc[t], clockNeeded', cloud)
    BY <1>10, <2>1 DEF SendDone
  <2>3. <<>> \o work[t] = work[t] /\ work[t] \in Seq(Items)
    BY ConcatEmptySeq DEF TasksType
  <2>4. \A u \in Tasks : OnlyRelays(work'[u])
    BY <2>2, <2>3, GoOnRelays DEF RelayedWork
  <2> QED
    BY <2>4 DEF RelayedWork
<1>11. ASSUME NEW t \in Tasks, SendFails(t) PROVE RelayedWork'
  <2>1. Finish \/ CloudTaskEnds \/ work' = [work EXCEPT ![t] = <<>>]
    BY <1>11 DEF SendFails
  <2>2. CASE work' = [work EXCEPT ![t] = <<>>]
    BY <2>2, EmptyRelays DEF RelayedWork, TasksType
  <2> QED
    BY <1>3, <1>4, <2>1, <2>2
<1>12. CASE SessionEnds
  BY <1>3, <1>12 DEF SessionEnds
<1> QED
  BY <1>4, <1>5, <1>6, <1>7, <1>8, <1>9, <1>10, <1>11, <1>12 DEF Next, CloudDisconnects

\* What is being written, and has been, came from the cloud.
LEMMA SendingSteps ==
  ASSUME [Next]_vars
  PROVE  \/ UNCHANGED <<sending, answers>>
         \/ sending' = NoSend /\ UNCHANGED answers
         \/ \E t \in Tasks : SendBegin(t)
  BY DEF Next, vars, tasks, history, ConnectCloud, ConnectFails, SessionEnds, Finish, WriterCloses,
         ReceiveForward, ReceiveOverflow, ReceiveLocal, KeepLock, UpstreamDrained, UpstreamFails,
         CloudAnswers, CloudSendsClock, CloudFrameAfterHandOver, CloudFrameBlocked, CloudFrame,
         CloudDisconnects, DeadlineExpires, DeadlineStops, SendDone, SendFails, Ended

LEMMA RelayedSendPreserved ==
  ASSUME ~cloudFallback, TypeOK, RelayedSend, RelayedWork, OnlyTheCloudAnswers, [Next]_vars
  PROVE  RelayedSend' /\ OnlyTheCloudAnswers'
<1>1. ASSUME NEW t \in Tasks, SendBegin(t) PROVE RelayedSend' /\ OnlyTheCloudAnswers'
  <2>1. Head(work[t]).kind = "cloud"
    BY <1>1 DEF SendBegin, RelayedWork, OnlyRelays, TypeOK, TasksType
  <2>2. RelayedSend'
    BY <1>1, <2>1 DEF SendBegin, RelayedSend
  <2>3. answers'["local"] = answers["local"]
    BY <1>1, <2>1 DEF SendBegin, TypeOK, HistoryType, Owners
  <2> QED
    BY <2>2, <2>3 DEF OnlyTheCloudAnswers
<1>2. CASE UNCHANGED <<sending, answers>>
  BY <1>2 DEF RelayedSend, OnlyTheCloudAnswers
<1>3. CASE sending' = NoSend /\ UNCHANGED answers
  BY <1>3 DEF RelayedSend, OnlyTheCloudAnswers
<1> QED
  BY <1>1, <1>2, <1>3, SendingSteps

-----------------------------------------------------------------------------
(* What the tasks have to send.                                             *)

\* Where a task awaits with nothing left to send.
Awaits == {"connect", "off", "read", "upstream", "watch", "done"}

Relaying(t) == t = "cloud" /\ pc["cloud"] = "relay"

\* The items of a task: the frame it relays, or else local answers and clocks.
Fits(x, relaying) ==
  /\ x.kind = "cloud" <=> relaying
  /\ x.kind = "local" => x.rec \in Records
  /\ x.kind \in {"clock", "check"} => x.rec = NoRecord

\* A fallback checks the clock once, at its end.
OneCheck(w) == \A i, j \in DOMAIN w : w[i] = ClockIfNeeded /\ w[j] = ClockIfNeeded => i = j

Proper(w, relaying) == OneCheck(w) /\ \A i \in DOMAIN w : Fits(w[i], relaying)

TaskShape(t) ==
  /\ pc[t] \in Awaits => work[t] = <<>> /\ sending.task # t
  /\ Proper(work[t], Relaying(t))
  /\ sending.task = t => Fits(sending.item, Relaying(t)) /\ sending.item # ClockIfNeeded
  /\ Relaying(t) => Len(work[t]) <= 1 /\ (sending.task = t => work[t] = <<>>)
  /\ work[t] # <<>> /\ Head(work[t]) = ClockIfNeeded => sending.task = t

WorkShape ==
  /\ \A t \in Tasks : TaskShape(t)
  /\ sending.task = "none" => sending = NoSend
  /\ ~open => ~cloud /\ ~writerOpen /\ \A t \in Tasks : pc[t] = "done"

\* Until it falls back a session belongs to the cloud; with cloud_fallback
\* disabled falling back closes the connection.
FallbackShape ==
  /\ open /\ ~Connecting /\ ~fellBack => cloud
  /\ fellBack /\ ~cloudFallback => ~writerOpen

\* A clock a local session owes is about to be sent, or follows an answer.
BringsClock(x) == x \in {Clock, ClockIfNeeded} \cup {LocalReply(r) : r \in Announces}
ClockOnItsWay ==
  writerOpen /\ stalls = 0 /\ fellBack /\ cloudFallback /\ clockNeeded =>
    \/ sending # NoSend /\ BringsClock(sending.item)
    \/ \E t \in Tasks : \E i \in DOMAIN work[t] : BringsClock(work[t][i])

LEMMA ProperEmpty == \A b : Proper(<<>>, b)
  BY DEF Proper, OneCheck

\* Writing the first item leaves the others in order.
LEMMA TailProper ==
  ASSUME NEW w \in Seq(Items), w # <<>>, NEW b, Proper(w, b)
  PROVE  /\ Tail(w) \in Seq(Items) /\ Proper(Tail(w), b) /\ Fits(Head(w), b)
         /\ Len(Tail(w)) = Len(w) - 1
         /\ Head(w) = ClockIfNeeded => \A i \in DOMAIN Tail(w) : Tail(w)[i] # ClockIfNeeded
<1>1. /\ Len(w) \in Nat \ {0} /\ DOMAIN w = 1..Len(w) /\ Head(w) = w[1]
      /\ Tail(w) \in Seq(Items) /\ Len(Tail(w)) = Len(w) - 1
      /\ DOMAIN Tail(w) = 1..(Len(w) - 1)
      /\ \A i \in 1..(Len(w) - 1) : Tail(w)[i] = w[i + 1]
  OBVIOUS
<1>2. \A i \in 1..(Len(w) - 1) : i + 1 \in 1..Len(w) /\ i + 1 # 1
  BY <1>1
<1>3. OneCheck(Tail(w))
  <2>1. \A i, j \in 1..(Len(w) - 1) : i + 1 = j + 1 => i = j
    OBVIOUS
  <2> QED
    BY <1>1, <1>2, <2>1 DEF Proper, OneCheck
<1>4. \A i \in DOMAIN Tail(w) : Fits(Tail(w)[i], b)
  BY <1>1, <1>2 DEF Proper
<1>5. 1 \in DOMAIN w /\ Fits(Head(w), b)
  BY <1>1 DEF Proper
<1>6. Head(w) = ClockIfNeeded => \A i \in DOMAIN Tail(w) : Tail(w)[i] # ClockIfNeeded
  BY <1>1, <1>2, <1>5 DEF Proper, OneCheck
<1> QED
  BY <1>1, <1>3, <1>4, <1>5, <1>6 DEF Proper

\* An item put in front of others.
LEMMA PrependProper ==
  ASSUME NEW w \in Seq(Items), NEW x \in Items, NEW b, Proper(w, b), Fits(x, b), x # ClockIfNeeded
  PROVE  /\ <<x>> \o w \in Seq(Items) /\ Proper(<<x>> \o w, b)
         /\ Len(<<x>> \o w) = Len(w) + 1 /\ Head(<<x>> \o w) = x
<1> DEFINE v == <<x>> \o w
<1>1. /\ v \in Seq(Items) /\ Len(w) \in Nat /\ Len(v) = Len(w) + 1 /\ DOMAIN v = 1..(Len(w) + 1)
      /\ DOMAIN w = 1..Len(w)
      /\ v[1] = x /\ \A i \in 2..(Len(w) + 1) : v[i] = w[i - 1]
  OBVIOUS
<1> HIDE DEF v
<1>2. Head(v) = x
  BY <1>1
<1>3. \A i \in 1..(Len(w) + 1) : i = 1 \/ (i \in 2..(Len(w) + 1) /\ i - 1 \in 1..Len(w))
  BY <1>1
<1>4. \A i \in 1..(Len(w) + 1) : Fits(v[i], b)
  BY <1>1, <1>3 DEF Proper
<1>5. \A i, j \in 2..(Len(w) + 1) : i - 1 = j - 1 => i = j
  BY <1>1
<1>6. OneCheck(v)
  <2> SUFFICES ASSUME NEW i \in 1..(Len(w) + 1), NEW j \in 1..(Len(w) + 1),
                      v[i] = ClockIfNeeded, v[j] = ClockIfNeeded
               PROVE  i = j
    BY <1>1 DEF OneCheck
  <2>1. i - 1 \in DOMAIN w /\ j - 1 \in DOMAIN w /\ w[i - 1] = ClockIfNeeded /\ w[j - 1] = ClockIfNeeded
    BY <1>1, <1>3
  <2>2. i - 1 = j - 1
    BY <2>1 DEF Proper, OneCheck
  <2> QED
    BY <1>1, <2>2
<1> QED
  BY <1>1, <1>2, <1>4, <1>6 DEF Proper, v

LEMMA SettledProper ==
  ASSUME NEW w \in Seq(Items), NEW needed \in BOOLEAN, NEW b, Proper(w, b)
  PROVE  /\ Settled(w, needed) \in Seq(Items) /\ Proper(Settled(w, needed), b)
         /\ Len(Settled(w, needed)) <= Len(w)
         /\ Settled(w, needed) # <<>> => Head(Settled(w, needed)) # ClockIfNeeded
<1>1. CASE w # <<>> /\ Head(w) = ClockIfNeeded
  <2>1. /\ Tail(w) \in Seq(Items) /\ Proper(Tail(w), b) /\ Fits(ClockIfNeeded, b)
        /\ Len(Tail(w)) = Len(w) - 1 /\ Len(w) \in Nat
        /\ \A i \in DOMAIN Tail(w) : Tail(w)[i] # ClockIfNeeded
    BY <1>1, TailProper
  <2>2. Fits(Clock, b) /\ Clock \in Items /\ Clock # ClockIfNeeded
    BY <2>1, ItemTypes DEF Fits, Clock, ClockIfNeeded
  <2>3. CASE needed
    <3>1. Settled(w, needed) = <<Clock>> \o Tail(w)
      BY <1>1, <2>3 DEF Settled
    <3> DEFINE v == <<Clock>> \o Tail(w)
    <3>2. /\ v \in Seq(Items) /\ Proper(v, b)
          /\ Len(v) = Len(Tail(w)) + 1 /\ Head(v) = Clock
      BY <2>1, <2>2, PrependProper
    <3> HIDE DEF v
    <3>3. Len(v) <= Len(w)
      BY <2>1, <3>2
    <3> QED
      BY <2>2, <3>1, <3>2, <3>3 DEF v
  <2>4. CASE ~needed
    <3>1. Settled(w, needed) = Tail(w)
      BY <1>1, <2>1, <2>4, ConcatEmptySeq DEF Settled
    <3>2. Tail(w) # <<>> => 1 \in DOMAIN Tail(w) /\ Head(Tail(w)) = Tail(w)[1]
      BY <2>1
    <3>3. Len(Tail(w)) <= Len(w)
      BY <2>1
    <3> QED
      BY <2>1, <3>1, <3>2, <3>3
  <2> QED
    BY <2>3, <2>4
<1>2. CASE ~(w # <<>> /\ Head(w) = ClockIfNeeded)
  BY <1>2 DEF Settled
<1> QED
  BY <1>1, <1>2

\* What a hand-over makes a task send: an answer to each outstanding record, the
\* clock check, and perhaps the answer to one more record.
HandedOver(s, extra) == [i \in DOMAIN s |-> LocalReply(s[i])] \o <<ClockIfNeeded>> \o extra

LEMMA HandedOverItems ==
  ASSUME NEW s \in Seq(Records), NEW extra \in Seq(Items)
  PROVE  /\ HandedOver(s, extra) \in Seq(Items)
         /\ Len(HandedOver(s, extra)) = Len(s) + 1 + Len(extra)
         /\ \A i \in 1..Len(s) : HandedOver(s, extra)[i] = LocalReply(s[i])
         /\ HandedOver(s, extra)[Len(s) + 1] = ClockIfNeeded
         /\ \A i \in 1..Len(extra) : HandedOver(s, extra)[Len(s) + 1 + i] = extra[i]
<1> DEFINE a == [i \in 1..Len(s) |-> LocalReply(s[i])]
           c == a \o <<ClockIfNeeded>>
           h == c \o extra
<1>1. a \in Seq(Items) /\ Len(a) = Len(s) /\ \A i \in 1..Len(s) : a[i] = LocalReply(s[i])
  BY ItemTypes, IsASeq
<1>2. h = HandedOver(s, extra)
  <2>1. DOMAIN s = 1..Len(s)
    OBVIOUS
  <2> QED
    BY <2>1 DEF HandedOver
<1>3. Len(s) \in Nat /\ Len(extra) \in Nat
  OBVIOUS
<1> HIDE DEF a
<1>4. /\ c \in Seq(Items) /\ Len(c) = Len(s) + 1
      /\ \A i \in 1..Len(s) : c[i] = LocalReply(s[i])
      /\ c[Len(s) + 1] = ClockIfNeeded
  BY <1>1, <1>3, ItemTypes
<1> HIDE DEF c
<1>5. /\ h \in Seq(Items) /\ Len(h) = Len(s) + 1 + Len(extra)
      /\ \A i \in 1..(Len(s) + 1) : h[i] = c[i]
      /\ \A i \in 1..Len(extra) : h[Len(s) + 1 + i] = extra[i]
  BY <1>3, <1>4
<1> HIDE DEF h
<1>6. Len(s) + 1 \in 1..(Len(s) + 1) /\ \A i \in 1..Len(s) : i \in 1..(Len(s) + 1)
  BY <1>3
<1> QED
  BY <1>2, <1>3, <1>4, <1>5, <1>6

LEMMA HandedOverProper ==
  ASSUME NEW s \in Seq(Records), NEW extra \in Seq(Items),
         \A i \in DOMAIN extra : extra[i] \in {LocalReply(r) : r \in Records}
  PROVE  Proper(HandedOver(s, extra), FALSE)
<1> DEFINE h == HandedOver(s, extra)
<1>1. /\ h \in Seq(Items) /\ Len(h) = Len(s) + 1 + Len(extra)
      /\ \A i \in 1..Len(s) : h[i] = LocalReply(s[i])
      /\ h[Len(s) + 1] = ClockIfNeeded
      /\ \A i \in 1..Len(extra) : h[Len(s) + 1 + i] = extra[i]
      /\ Len(s) \in Nat /\ Len(extra) \in Nat
  BY HandedOverItems
<1> HIDE DEF h
<1>2. \A i \in DOMAIN h : \/ i = Len(s) + 1 /\ h[i] = ClockIfNeeded
                          \/ i # Len(s) + 1 /\ h[i] \in {LocalReply(r) : r \in Records}
  <2> TAKE i \in DOMAIN h
  <2>1. i \in 1..(Len(s) + 1 + Len(extra))
    BY <1>1
  <2>2. CASE i \in 1..Len(s)
    BY <1>1, <2>2
  <2>3. CASE i > Len(s) + 1
    <3>0. \A n, m \in Nat : \A k \in 1..(n + 1 + m) :
            k > n + 1 => k - (n + 1) \in 1..m /\ n + 1 + (k - (n + 1)) = k
      OBVIOUS
    <3>1. i - (Len(s) + 1) \in 1..Len(extra) /\ Len(s) + 1 + (i - (Len(s) + 1)) = i
      BY <1>1, <2>1, <2>3, <3>0
    <3>2. h[i] = extra[i - (Len(s) + 1)] /\ i - (Len(s) + 1) \in DOMAIN extra
      BY <1>1, <3>1
    <3>3. i # Len(s) + 1
      BY <1>1, <2>1, <2>3
    <3> QED
      BY <3>2, <3>3
  <2> QED
    BY <1>1, <2>1, <2>2, <2>3
<1>3. \A r : LocalReply(r) # ClockIfNeeded
  BY DEF LocalReply, ClockIfNeeded
<1>4. OneCheck(h)
  BY <1>2, <1>3 DEF OneCheck
<1>5. \A i \in DOMAIN h : Fits(h[i], FALSE)
  BY <1>2 DEF Fits, LocalReply, ClockIfNeeded
<1> QED
  BY <1>4, <1>5 DEF Proper, h

\* A task that goes on with proper work keeps all tasks in shape; the write
\* being drained is another's, or was its own and is over.
LEMMA GoOnShape ==
  ASSUME TasksType, \A u \in Tasks : TaskShape(u), NEW t \in Tasks, NEW w \in Seq(Items),
         NEW needed \in BOOLEAN, NEW isCloud, NEW place \in {"reply", "relay", "fallback"},
         NEW b \in BOOLEAN, b <=> (t = "cloud" /\ place = "relay"), Proper(w, b),
         b => Len(w) <= 1,
         sending' = IF sending.task = t THEN NoSend ELSE sending,
         GoOn(t, w, place, needed, isCloud)
  PROVE  \A u \in Tasks : TaskShape(u)'
<1> DEFINE rest == Settled(w, needed)
<1>1. /\ rest \in Seq(Items) /\ Proper(rest, b) /\ Len(rest) <= Len(w)
      /\ rest # <<>> => Head(rest) # ClockIfNeeded
  BY SettledProper
<1>2. /\ work'[t] = rest
      /\ pc'[t] = IF rest = <<>> THEN Resumed(t, isCloud) ELSE place
      /\ \A u \in Tasks \ {t} : work'[u] = work[u] /\ pc'[u] = pc[u]
  BY DEF GoOn, TasksType
<1>3. Resumed(t, isCloud) \in Awaits \ {"connect", "off"}
  BY DEF Resumed, Awaits, Tasks
<1>4. sending'.task # t
  BY DEF NoSend, Tasks
<1> HIDE DEF rest
<1>5. TaskShape(t)'
  <2>1. CASE rest = <<>>
    <3>1. work'[t] = <<>> /\ pc'[t] \in Awaits
      BY <1>2, <1>3, <2>1
    <3>2. Proper(work'[t], Relaying(t)') /\ Len(work'[t]) <= 1
      BY <3>1, ProperEmpty
    <3> QED
      BY <1>4, <3>1, <3>2 DEF TaskShape
  <2>2. CASE rest # <<>>
    <3>1. work'[t] = rest /\ pc'[t] = place /\ place \notin Awaits
      BY <1>2, <2>2 DEF Awaits
    <3>2. Relaying(t)' <=> b
      BY <3>1 DEF Relaying
    <3>3. Proper(work'[t], Relaying(t)')
      BY <1>1, <3>1, <3>2 DEF Proper, Fits
    <3>4. b => Len(rest) <= 1
      BY <1>1
    <3> QED
      BY <1>1, <1>4, <3>1, <3>2, <3>3, <3>4 DEF TaskShape
  <2> QED
    BY <2>1, <2>2
<1>6. ASSUME NEW u \in Tasks \ {t} PROVE TaskShape(u)'
  <2>1. work'[u] = work[u] /\ pc'[u] = pc[u] /\ (u = "cloud" => pc'["cloud"] = pc["cloud"])
    BY <1>2
  <2>2. Relaying(u)' <=> Relaying(u)
    BY <2>1 DEF Relaying
  <2>3. sending'.task = u <=> sending.task = u
    BY DEF NoSend, Tasks
  <2>4. sending.task = u => sending' = sending
    OBVIOUS
  <2>5. TaskShape(u)
    OBVIOUS
  <2> QED
    BY <2>1, <2>2, <2>3, <2>4, <2>5 DEF TaskShape, Proper, Fits
<1> QED
  BY <1>5, <1>6

\* A task that stops has nothing to send.
LEMMA StopShape ==
  ASSUME TasksType, \A u \in Tasks : TaskShape(u), NEW t \in Tasks,
         sending' = IF sending.task = t THEN NoSend ELSE sending,
         pc' = [pc EXCEPT ![t] = "done"], work' = [work EXCEPT ![t] = <<>>]
  PROVE  \A u \in Tasks : TaskShape(u)'
<1>1. /\ work'[t] = <<>> /\ pc'[t] = "done"
      /\ \A u \in Tasks \ {t} : work'[u] = work[u] /\ pc'[u] = pc[u]
  BY DEF TasksType
<1>2. TaskShape(t)'
  BY <1>1, ProperEmpty DEF TaskShape, Awaits, NoSend, Tasks, Relaying
<1>3. ASSUME NEW u \in Tasks \ {t} PROVE TaskShape(u)'
  <2>1. work'[u] = work[u] /\ pc'[u] = pc[u] /\ (u = "cloud" => pc'["cloud"] = pc["cloud"])
    BY <1>1
  <2>2. Relaying(u)' <=> Relaying(u)
    BY <2>1 DEF Relaying
  <2>3. sending'.task = u <=> sending.task = u
    BY DEF NoSend, Tasks
  <2>4. (sending.task = u => sending' = sending) /\ TaskShape(u)
    OBVIOUS
  <2> QED
    BY <2>1, <2>2, <2>3, <2>4 DEF TaskShape, Proper, Fits
<1> QED
  BY <1>2, <1>3

\* A session that is over is in shape.
LEMMA OverShape ==
  ASSUME pc' = [t \in Tasks |-> "done"], work' = [t \in Tasks |-> <<>>], sending' = NoSend
  PROVE  \A u \in Tasks : TaskShape(u)'
<1> SUFFICES ASSUME NEW u \in Tasks PROVE TaskShape(u)'
  OBVIOUS
<1>1. work'[u] = <<>> /\ pc'[u] = "done" /\ sending'.task # u
  BY DEF NoSend, Tasks
<1>2. Proper(work'[u], Relaying(u)')
  BY <1>1, ProperEmpty
<1> QED
  BY <1>1, <1>2 DEF TaskShape, Awaits

\* So is one in which no task's work, place or write has changed.
LEMMA SameShape ==
  ASSUME \A u \in Tasks : TaskShape(u), UNCHANGED tasks
  PROVE  \A u \in Tasks : TaskShape(u)'
  BY DEF tasks, TaskShape, Relaying

\* A task that waits for something else, with nothing to send.
LEMMA MoveShape ==
  ASSUME TasksType, \A u \in Tasks : TaskShape(u), NEW t \in Tasks, NEW p \in Awaits,
         pc[t] \in Awaits, pc' = [pc EXCEPT ![t] = p], UNCHANGED <<work, sending>>
  PROVE  \A u \in Tasks : TaskShape(u)'
<1> SUFFICES ASSUME NEW u \in Tasks PROVE TaskShape(u)'
  OBVIOUS
<1>1. TaskShape(u)
  OBVIOUS
<1>2. CASE u = t
  <2>1. work'[u] = <<>> /\ pc'[u] = p /\ sending'.task # u
    BY <1>1, <1>2 DEF TaskShape, TasksType
  <2>2. Proper(work'[u], Relaying(u)')
    BY <2>1, ProperEmpty
  <2> QED
    BY <2>1, <2>2 DEF TaskShape
<1>3. CASE u # t
  <2>1. pc'[u] = pc[u] /\ (u = "cloud" => pc'["cloud"] = pc["cloud"])
    BY <1>3 DEF TasksType
  <2>2. Relaying(u)' <=> Relaying(u)
    BY <2>1 DEF Relaying
  <2> QED
    BY <1>1, <2>1, <2>2 DEF TaskShape, Proper, Fits
<1> QED
  BY <1>2, <1>3

LEMMA HandOverShape ==
  ASSUME TypeOK, \A u \in Tasks : TaskShape(u), NEW t \in Tasks, NEW extra \in Seq(Items),
         NEW needed \in BOOLEAN, HandOver(t, extra, needed),
         \A i \in DOMAIN extra : extra[i] \in {LocalReply(r) : r \in Records},
         sending' = IF sending.task = t THEN NoSend ELSE sending
  PROVE  \A u \in Tasks : TaskShape(u)'
<1>1. GoOn(t, HandedOver(awaiting, extra), "fallback", needed, FALSE)
  BY DEF HandOver, HandedOver
<1>2. awaiting \in Seq(Records) /\ TasksType
  BY DEF TypeOK, SessionType
<1>3. HandedOver(awaiting, extra) \in Seq(Items) /\ Proper(HandedOver(awaiting, extra), FALSE)
  BY <1>2, HandedOverItems, HandedOverProper
<1> QED
  BY <1>1, <1>2, <1>3, GoOnShape

LEMMA FallbackTasks ==
  ASSUME TypeOK, \A u \in Tasks : TaskShape(u), NEW t \in Tasks, Fallback(t),
         sending' = IF ~open' \/ sending.task = t THEN NoSend ELSE sending, open
  PROVE  \A u \in Tasks : TaskShape(u)'
<1> USE DEF TypeOK
<1>0. <<>> \in Seq(Items) /\ \A i \in DOMAIN <<>> : <<>>[i] \in {LocalReply(r) : r \in Records}
  OBVIOUS
<1>1. CASE HandOver(t, <<>>, clockNeeded)
  <2>1. open' /\ clockNeeded \in BOOLEAN
    BY <1>1 DEF HandOver, SessionType
  <2>2. sending' = IF sending.task = t THEN NoSend ELSE sending
    BY <2>1
  <2> QED
    BY <1>0, <1>1, <2>1, <2>2, HandOverShape
<1>2. CASE Disconnect(t)
  <2>1. CASE t = "device"
    BY <1>2, <2>1, OverShape DEF Disconnect
  <2>2. CASE t # "device"
    BY <1>2, <2>2, StopShape DEF Disconnect
  <2> QED
    BY <2>1, <2>2
<1>3. CASE AlreadyHandedOver(t)
  <2>1. GoOn(t, <<>>, "fallback", clockNeeded, cloud) /\ open' /\ clockNeeded \in BOOLEAN
    BY <1>3 DEF AlreadyHandedOver, session, SessionType
  <2>2. sending' = IF sending.task = t THEN NoSend ELSE sending
    BY <2>1
  <2>3. Proper(<<>>, FALSE)
    BY ProperEmpty
  <2> QED
    BY <1>0, <2>1, <2>2, <2>3, GoOnShape
<1> QED
  BY <1>1, <1>2, <1>3 DEF Fallback

\* Nothing happens in a session that is over.
LEMMA OverIsOver ==
  ASSUME TypeOK, WorkShape, ~open, [Next]_vars
  PROVE  UNCHANGED vars
<1>1. \A t \in Tasks : pc[t] = "done" /\ work[t] = <<>> /\ sending.task # t
  BY DEF WorkShape, TaskShape, Awaits
<1>2. "device" \in Tasks /\ "cloud" \in Tasks /\ "deadline" \in Tasks
  BY DEF Tasks
<1>3. sending = NoSend
  BY <1>1 DEF WorkShape, TypeOK, SendingType
<1> QED
  BY <1>1, <1>2, <1>3
     DEF Next, ConnectCloud, ConnectFails, SessionEnds, WriterCloses, Receive, ReceiveForward,
         ReceiveOverflow, ReceiveLocal, UpstreamDrained, UpstreamFails, CloudAnswers,
         CloudSendsClock, CloudTaskReads, CloudFrameAfterHandOver, CloudFrameBlocked, CloudFrame,
         CloudDisconnects, DeadlineExpires, DeadlineStops, SendBegin, SendDone, SendFails, Ended

LEMMA FallbackKeepsOpen ==
  ASSUME NEW t \in Tasks \ {"device"}, open, Fallback(t)
  PROVE  open'
  BY DEF Fallback, HandOver, Disconnect, AlreadyHandedOver, session

\* Relaying a frame is the whole of what the cloud task has to send.
LEMMA CloudFrameShape ==
  ASSUME TypeOK, \A u \in Tasks : TaskShape(u), CloudFrame
  PROVE  \A u \in Tasks : TaskShape(u)'
<1> DEFINE rec == IF Head(fromCloud).kind = "ack" THEN Head(fromCloud).rec ELSE NoRecord
<1>1. /\ GoOn("cloud", <<Relayed(rec)>>, "relay", FALSE, TRUE) /\ UNCHANGED sending
      /\ pc["cloud"] = "read" /\ "cloud" \in Tasks
  BY DEF CloudFrame, CloudTaskReads, Tasks
<1>2. Relayed(rec) \in Items
  <2>1. Head(fromCloud) \in CloudFrames
    BY DEF CloudFrame, CloudTaskReads, TypeOK, EnvironmentType
  <2>2. rec \in Records \cup {NoRecord}
    BY <2>1 DEF CloudFrames
  <2> QED
    BY <2>2, ItemTypes
<1> HIDE DEF rec
<1>3. <<Relayed(rec)>> \in Seq(Items) /\ Len(<<Relayed(rec)>>) <= 1
  BY <1>2
<1>4. Proper(<<Relayed(rec)>>, TRUE)
  BY DEF Proper, OneCheck, Fits, Relayed
<1>5. sending.task # "cloud" /\ TasksType
  BY <1>1 DEF TaskShape, Awaits, TypeOK
<1> QED
  BY <1>1, <1>3, <1>4, <1>5, GoOnShape

LEMMA SendBeginShape ==
  ASSUME TypeOK, \A u \in Tasks : TaskShape(u), NEW t \in Tasks, SendBegin(t)
  PROVE  \A u \in Tasks : TaskShape(u)'
<1>1. /\ sending = NoSend /\ work[t] \in Seq(Items) /\ work[t] # <<>> /\ TaskShape(t)
      /\ sending'.task = t /\ sending'.item = Head(work[t])
      /\ work'[t] = Tail(work[t]) /\ \A u \in Tasks \ {t} : work'[u] = work[u]
      /\ pc' = pc
  BY DEF SendBegin, TypeOK, TasksType
<1>2. \A u \in Tasks : sending.task # u
  BY <1>1 DEF NoSend, Tasks
<1>3. \A u \in Tasks : Relaying(u)' <=> Relaying(u)
  BY <1>1 DEF Relaying
<1>4. /\ Tail(work[t]) \in Seq(Items) /\ Proper(Tail(work[t]), Relaying(t))
      /\ Fits(Head(work[t]), Relaying(t)) /\ Len(Tail(work[t])) = Len(work[t]) - 1
  BY <1>1, TailProper DEF TaskShape
<1>5. Len(work[t]) \in Nat /\ (Len(work[t]) <= 1 => Tail(work[t]) = <<>>)
  <2>1. Len(work[t]) \in Nat
    BY <1>1
  <2>2. \A n \in Nat : n <= 1 /\ n # 0 => n - 1 = 0
    OBVIOUS
  <2>3. Len(work[t]) # 0
    BY <1>1
  <2>4. Len(work[t]) <= 1 => Len(Tail(work[t])) = 0
    BY <1>4, <2>1, <2>2, <2>3
  <2> DEFINE v == Tail(work[t])
  <2>5. v \in Seq(Items)
    BY <1>4
  <2> HIDE DEF v
  <2>6. Len(v) = 0 => v = <<>>
    BY <2>5, EmptySeq
  <2> QED
    BY <2>1, <2>4, <2>6 DEF v
<1>6. TaskShape(t)'
  <2>1. pc[t] \notin Awaits /\ Head(work[t]) # ClockIfNeeded
    BY <1>1, <1>2 DEF TaskShape
  <2>2. Relaying(t) => Len(work'[t]) <= 1 /\ work'[t] = <<>>
    BY <1>1, <1>4, <1>5 DEF TaskShape
  <2>3. Proper(work'[t], Relaying(t)') /\ Fits(sending'.item, Relaying(t)')
    BY <1>1, <1>3, <1>4 DEF Proper, Fits
  <2> QED
    BY <1>1, <1>3, <2>1, <2>2, <2>3 DEF TaskShape
<1>7. ASSUME NEW u \in Tasks \ {t} PROVE TaskShape(u)'
  BY <1>1, <1>2, <1>3 DEF TaskShape, Proper, Fits
<1> QED
  BY <1>6, <1>7

\* A task that sends is where it has something to send.
LEMMA SenderPlace ==
  ASSUME TasksType, NEW t \in Tasks, TaskShape(t), sending.task = t
  PROVE  pc[t] \in {"reply", "relay", "fallback"}
  BY DEF TaskShape, Awaits, TasksType, Places

LEMMA SendDoneShape ==
  ASSUME TypeOK, \A u \in Tasks : TaskShape(u), NEW t \in Tasks, SendDone(t)
  PROVE  \A u \in Tasks : TaskShape(u)'
<1> DEFINE follow == IF sending.item.kind = "local" /\ sending.item.rec \in Announces
                     THEN <<Clock>> ELSE <<>>
<1> USE DEF TypeOK
<1>1. /\ sending.task = t /\ sending' = NoSend
      /\ GoOn(t, follow \o work[t], pc[t], clockNeeded', cloud)
      /\ clockNeeded' \in BOOLEAN
  BY DEF SendDone, SessionType
<1>2. pc[t] \in {"reply", "relay", "fallback"} /\ work[t] \in Seq(Items) /\ TaskShape(t)
  BY <1>1, SenderPlace DEF TasksType
<1>3. Fits(sending.item, Relaying(t)) /\ Proper(work[t], Relaying(t))
  BY <1>1, <1>2 DEF TaskShape
<1>4. CASE Relaying(t)
  <2>1. follow = <<>> /\ work[t] = <<>> /\ pc[t] = "relay" /\ t = "cloud"
    BY <1>1, <1>2, <1>3, <1>4 DEF Fits, TaskShape, Relaying
  <2>2. follow \o work[t] = <<>>
    BY <2>1
  <2>3. <<>> \in Seq(Items) /\ Len(<<>>) <= 1 /\ Proper(<<>>, TRUE)
    <3>1. <<>> \in Seq(Items) /\ Len(<<>>) = 0
      OBVIOUS
    <3>2. \A n : n = 0 => n <= 1
      OBVIOUS
    <3> QED
      BY <3>1, <3>2, ProperEmpty
  <2>4. GoOn(t, <<>>, "relay", clockNeeded', cloud)
    BY <1>1, <2>1, <2>2
  <2> QED
    BY <1>1, <2>1, <2>3, <2>4, GoOnShape
<1>5. CASE ~Relaying(t)
  <2>1. Proper(work[t], FALSE)
    BY <1>3, <1>5 DEF Proper, Fits
  <2>2. follow \o work[t] \in Seq(Items) /\ Proper(follow \o work[t], FALSE)
    <3>1. CASE follow = <<>>
      <4>1. follow \o work[t] = work[t]
        BY <1>2, <3>1, ConcatEmptySeq
      <4> QED
        BY <1>2, <2>1, <4>1
    <3>2. CASE follow = <<Clock>>
      <4>1. Fits(Clock, FALSE) /\ Clock \in Items /\ Clock # ClockIfNeeded
        BY ItemTypes DEF Fits, Clock
      <4> QED
        BY <1>2, <2>1, <3>2, <4>1, PrependProper
    <3> QED
      BY <3>1, <3>2
  <2> HIDE DEF follow
  <2>3. ~(t = "cloud" /\ pc[t] = "relay")
    BY <1>5 DEF Relaying
  <2>4. TasksType /\ sending' = IF sending.task = t THEN NoSend ELSE sending
    BY <1>1
  <2> QED
    BY <1>1, <1>2, <2>2, <2>3, <2>4, GoOnShape
<1> QED
  BY <1>4, <1>5

LEMMA CloudTaskEndsShape ==
  ASSUME TypeOK, \A u \in Tasks : TaskShape(u), open, CloudTaskEnds,
         sending' = IF sending.task = "cloud" THEN NoSend ELSE sending
  PROVE  \A u \in Tasks : TaskShape(u)'
<1>0. "cloud" \in Tasks \ {"device"} /\ TasksType
  BY DEF Tasks, TypeOK
<1>1. CASE Fallback("cloud")
  <2>1. open'
    BY <1>0, <1>1, FallbackKeepsOpen
  <2> QED
    BY <1>0, <1>1, <2>1, FallbackTasks
<1>2. CASE ~Fallback("cloud")
  <2>1. pc' = [pc EXCEPT !["cloud"] = "done"] /\ work' = [work EXCEPT !["cloud"] = <<>>]
    BY <1>2 DEF CloudTaskEnds
  <2> QED
    BY <1>0, <2>1, StopShape
<1> QED
  BY <1>1, <1>2

LEMMA SendFailsShape ==
  ASSUME TypeOK, \A u \in Tasks : TaskShape(u), open, NEW t \in Tasks, SendFails(t)
  PROVE  \A u \in Tasks : TaskShape(u)'
<1>1. sending' = NoSend /\ sending.task = t /\ TasksType
  BY DEF SendFails, TypeOK
<1>2. CASE t = "device"
  BY <1>1, <1>2, OverShape DEF SendFails, Finish
<1>3. CASE t = "cloud" /\ pc["cloud"] = "relay"
  BY <1>1, <1>3, CloudTaskEndsShape DEF SendFails
<1>4. CASE t # "device" /\ ~(t = "cloud" /\ pc["cloud"] = "relay")
  BY <1>1, <1>4, StopShape DEF SendFails
<1> QED
  BY <1>2, <1>3, <1>4

\* Every step keeps the tasks in shape.
LEMMA TasksStayInShape ==
  ASSUME TypeOK, \A u \in Tasks : TaskShape(u), ConnectingIsFirst, open, [Next]_vars
  PROVE  \A u \in Tasks : TaskShape(u)'
<1> DEFINE Goal == \A u \in Tasks : TaskShape(u)'
<1> SUFFICES Goal
  OBVIOUS
<1>0. TasksType /\ "device" \in Tasks /\ "cloud" \in Tasks /\ "deadline" \in Tasks
  BY DEF TypeOK, Tasks
<1>1. ASSUME NEW t \in Tasks, pc[t] \in Awaits, Fallback(t), KeepLock PROVE Goal
  <2>1. sending.task # t
    BY <1>1 DEF TaskShape
  <2>2. sending' = IF ~open' \/ sending.task = t THEN NoSend ELSE sending
    BY <1>1, <2>1 DEF KeepLock
  <2> QED
    BY <1>1, <2>2, FallbackTasks
<1>2. CASE ConnectCloud
  <2>1. sending = NoSend /\ sending' = sending /\ work' = work /\ \A t \in Tasks : work[t] = <<>>
    BY <1>2 DEF ConnectCloud, ConnectingIsFirst, Connecting
  <2>2. pc' = [t \in Tasks |-> IF t = "deadline" THEN "watch" ELSE "read"]
    BY <1>2 DEF ConnectCloud
  <2>3. \A t \in Tasks : sending'.task # t /\ pc'[t] \in Awaits /\ work'[t] = <<>>
    BY <2>1, <2>2 DEF NoSend, Tasks, Awaits
  <2>4. \A t \in Tasks : Proper(work'[t], Relaying(t)')
    BY <2>3, ProperEmpty
  <2>5. \A t \in Tasks : ~Relaying(t)'
    BY <2>2 DEF Relaying, Tasks
  <2> QED
    BY <2>3, <2>4, <2>5 DEF TaskShape
<1>3. CASE ConnectFails \/ UpstreamFails
  <2>1. Fallback("device") /\ KeepLock /\ pc["device"] \in Awaits
    BY <1>3 DEF ConnectFails, UpstreamFails, Awaits
  <2> QED
    BY <1>0, <1>1, <2>1
<1>4. CASE SessionEnds
  BY <1>4, OverShape DEF SessionEnds, Finish
<1>5. CASE WriterCloses \/ CloudSendsClock \/ CloudFrameBlocked \/ Ended \/ UNCHANGED vars
           \/ \E r \in Records : CloudAnswers(r)
  <2>1. UNCHANGED tasks
    BY <1>5 DEF WriterCloses, CloudSendsClock, CloudFrameBlocked, Ended, vars, CloudAnswers
  <2> QED
    BY <2>1, SameShape
<1>6. ASSUME NEW r \in Records, ReceiveForward(r) PROVE Goal
  <2>1. pc["device"] \in Awaits /\ "upstream" \in Awaits
    BY <1>6 DEF ReceiveForward, Receive, Awaits
  <2> QED
    BY <1>0, <1>6, <2>1, MoveShape DEF ReceiveForward
<1>7. ASSUME NEW r \in Records, ReceiveOverflow(r) PROVE Goal
  <2>1. pc["device"] \in Awaits /\ sending.task # "device" /\ KeepLock
    <3>1. pc["device"] \in Awaits
      BY <1>7 DEF ReceiveOverflow, Receive, Awaits
    <3> QED
      BY <1>0, <1>7, <3>1 DEF ReceiveOverflow, TaskShape
  <2>2. CASE HandOver("device", <<LocalReply(r)>>, DueAfter(r))
    <3>1. open' /\ sending' = sending
      BY <2>1, <2>2 DEF HandOver, KeepLock
    <3>2. DueAfter(r) \in BOOLEAN /\ <<LocalReply(r)>> \in Seq(Items)
      BY ItemTypes DEF DueAfter, TypeOK, SessionType
    <3>3. \A i \in DOMAIN <<LocalReply(r)>> : <<LocalReply(r)>>[i] \in {LocalReply(q) : q \in Records}
      OBVIOUS
    <3>4. sending' = IF sending.task = "device" THEN NoSend ELSE sending
      BY <2>1, <3>1
    <3> QED
      BY <1>0, <2>2, <3>2, <3>3, <3>4, HandOverShape
  <2>3. CASE Disconnect("device")
    BY <1>1, <1>0, <2>1, <2>3 DEF Fallback
  <2> QED
    BY <1>7, <2>2, <2>3 DEF ReceiveOverflow
<1>8. ASSUME NEW r \in Records, ReceiveLocal(r) PROVE Goal
  <2>1. /\ GoOn("device", <<LocalReply(r)>>, "reply", clockNeeded', FALSE) /\ sending' = sending
        /\ pc["device"] \in Awaits
    BY <1>8 DEF ReceiveLocal, Receive, Awaits
  <2>2. clockNeeded' \in BOOLEAN
    BY <1>8 DEF ReceiveLocal, DueAfter, TypeOK, SessionType
  <2>3. <<LocalReply(r)>> \in Seq(Items) /\ Proper(<<LocalReply(r)>>, FALSE)
    BY ItemTypes DEF Proper, OneCheck, Fits, LocalReply
  <2>4. sending' = IF sending.task = "device" THEN NoSend ELSE sending
    BY <1>0, <2>1 DEF TaskShape
  <2> QED
    BY <1>0, <2>1, <2>2, <2>3, <2>4, GoOnShape
<1>9. CASE UpstreamDrained
  <2>1. pc["device"] \in Awaits /\ "read" \in Awaits
    BY <1>9 DEF UpstreamDrained, Awaits
  <2> QED
    BY <1>0, <1>9, <2>1, MoveShape DEF UpstreamDrained
<1>10. CASE CloudFrameAfterHandOver
  <2>1. pc["cloud"] \in Awaits /\ "done" \in Awaits
    BY <1>10 DEF CloudFrameAfterHandOver, CloudTaskReads, Awaits
  <2> QED
    BY <1>0, <1>10, <2>1, MoveShape DEF CloudFrameAfterHandOver
<1>11. CASE DeadlineStops
  <2>1. pc["deadline"] \in Awaits /\ "done" \in Awaits
    BY <1>11 DEF DeadlineStops, Awaits
  <2> QED
    BY <1>0, <1>11, <2>1, MoveShape DEF DeadlineStops
<1>12. CASE CloudDisconnects
  <2>1. pc["cloud"] \in Awaits
    BY <1>12 DEF CloudDisconnects, Awaits
  <2>2. sending.task # "cloud"
    BY <1>0, <2>1 DEF TaskShape
  <2> QED
    BY <1>12, <2>2, CloudTaskEndsShape DEF CloudDisconnects
<1>13. CASE DeadlineExpires
  <2>1. Fallback("deadline") /\ sending' = sending /\ pc["deadline"] \in Awaits
    BY <1>13 DEF DeadlineExpires, Awaits
  <2>2. open'
    BY <2>1, FallbackKeepsOpen DEF Tasks
  <2> QED
    BY <1>0, <1>1, <2>1, <2>2 DEF KeepLock
<1>14. CASE CloudFrame
  BY <1>14, CloudFrameShape
<1>15. ASSUME NEW t \in Tasks, SendBegin(t) \/ SendDone(t) \/ SendFails(t) PROVE Goal
  BY <1>15, SendBeginShape, SendDoneShape, SendFailsShape
<1> HIDE DEF Goal
<1> QED
  BY <1>2, <1>3, <1>4, <1>5, <1>6, <1>7, <1>8, <1>9, <1>10, <1>11, <1>12, <1>13, <1>14, <1>15
     DEF Next

LEMMA WorkShapePreserved == TypeOK /\ WorkShape /\ ConnectingIsFirst /\ [Next]_vars => WorkShape'
<1> SUFFICES ASSUME TypeOK, WorkShape, ConnectingIsFirst, [Next]_vars PROVE WorkShape'
  OBVIOUS
<1>1. CASE ~open
  <2>1. UNCHANGED vars
    BY <1>1, OverIsOver
  <2> QED
    BY <2>1 DEF vars, tasks, session, WorkShape, TaskShape, Relaying
<1>2. CASE open
  <2>1. \A t \in Tasks : TaskShape(t)'
    BY <1>2, TasksStayInShape DEF WorkShape
  <2>2. sending'.task = "none" => sending' = NoSend
    BY SendingSteps DEF WorkShape, SendBegin, Tasks
  <2>3. ~open' => ~cloud' /\ ~writerOpen' /\ \A t \in Tasks : pc'[t] = "done"
    BY <1>2, OwnershipSteps
       DEF Quiet, ConnectCloud, Finish, ReceiveForward, CloudFrame, Disconnect, HandOver
  <2> QED
    BY <2>1, <2>2, <2>3 DEF WorkShape
<1> QED
  BY <1>1, <1>2

-----------------------------------------------------------------------------
(* Nothing a task has to send is lost.                                      *)

Has(w, x) == \E i \in DOMAIN w : w[i] = x

LEMMA TailHas ==
  ASSUME NEW w \in Seq(Items), w # <<>>, NEW x, Has(w, x), x # Head(w)
  PROVE  Has(Tail(w), x)
<1>1. PICK i \in 1..Len(w) : w[i] = x
  BY DEF Has
<1>2. i # 1
  BY <1>1
<1>3. \A n \in Nat : \A k \in 1..n : k # 1 => k - 1 \in 1..(n - 1) /\ (k - 1) + 1 = k
  OBVIOUS
<1>4. i - 1 \in 1..(Len(w) - 1) /\ (i - 1) + 1 = i
  BY <1>1, <1>2, <1>3
<1>5. /\ DOMAIN Tail(w) = 1..(Len(w) - 1)
      /\ \A j \in 1..(Len(w) - 1) : Tail(w)[j] = w[j + 1]
  OBVIOUS
<1> QED
  BY <1>1, <1>4, <1>5 DEF Has

LEMMA PrependHas ==
  ASSUME NEW w \in Seq(Items), NEW y \in Items
  PROVE  Has(<<y>> \o w, y) /\ \A x : Has(w, x) => Has(<<y>> \o w, x)
<1> DEFINE v == <<y>> \o w
<1>1. /\ Len(w) \in Nat /\ DOMAIN v = 1..(Len(w) + 1) /\ DOMAIN w = 1..Len(w) /\ v[1] = y
      /\ \A i \in 1..Len(w) : v[i + 1] = w[i]
  OBVIOUS
<1>2. 1 \in 1..(Len(w) + 1) /\ \A i \in 1..Len(w) : i + 1 \in 1..(Len(w) + 1)
  BY <1>1
<1> HIDE DEF v
<1> QED
  BY <1>1, <1>2 DEF Has, v

\* Making the clock check keeps every other item, and puts a clock in its place
\* if one is due.
LEMMA SettledHas ==
  ASSUME NEW w \in Seq(Items), NEW needed \in BOOLEAN, NEW x, Has(w, x)
  PROVE  \/ Has(Settled(w, needed), x)
         \/ x = ClockIfNeeded /\ (needed => Has(Settled(w, needed), Clock))
<1>1. CASE w # <<>> /\ Head(w) = ClockIfNeeded
  <2>1. Tail(w) \in Seq(Items) /\ (x # ClockIfNeeded => Has(Tail(w), x))
    BY <1>1, TailHas
  <2>2. CASE needed
    BY <1>1, <2>1, <2>2, PrependHas, ItemTypes DEF Settled
  <2>3. CASE ~needed
    BY <1>1, <2>1, <2>3, ConcatEmptySeq DEF Settled
  <2> QED
    BY <2>2, <2>3
<1>2. CASE ~(w # <<>> /\ Head(w) = ClockIfNeeded)
  BY <1>2 DEF Settled
<1> QED
  BY <1>1, <1>2

\* So what a task goes on with is what it has to send.
LEMMA GoOnHas ==
  ASSUME TasksType, NEW t \in Tasks, NEW w \in Seq(Items), NEW needed \in BOOLEAN,
         NEW place, NEW isCloud, GoOn(t, w, place, needed, isCloud), NEW x, Has(w, x)
  PROVE  \/ Has(work'[t], x)
         \/ x = ClockIfNeeded /\ (needed => Has(work'[t], Clock))
<1>1. work'[t] = Settled(w, needed)
  BY DEF GoOn, TasksType
<1> QED
  BY <1>1, SettledHas

\* A hand-over brings an answer to every outstanding record, a check of the
\* clock and what else the task has to send.
LEMMA HandOverHas ==
  ASSUME TypeOK, NEW t \in Tasks, NEW extra \in Seq(Items), NEW needed \in BOOLEAN,
         HandOver(t, extra, needed)
  PROVE  /\ \A r \in Records : Contains(awaiting, r) => Has(work'[t], LocalReply(r))
         /\ \A r \in Records : Has(extra, LocalReply(r)) => Has(work'[t], LocalReply(r))
         /\ needed => Has(work'[t], Clock) \/ Has(work'[t], ClockIfNeeded)
<1> DEFINE h == HandedOver(awaiting, extra)
<1>1. awaiting \in Seq(Records) /\ TasksType
  BY DEF TypeOK, SessionType
<1>2. /\ h \in Seq(Items) /\ Len(h) = Len(awaiting) + 1 + Len(extra)
      /\ \A i \in 1..Len(awaiting) : h[i] = LocalReply(awaiting[i])
      /\ h[Len(awaiting) + 1] = ClockIfNeeded
      /\ \A i \in 1..Len(extra) : h[Len(awaiting) + 1 + i] = extra[i]
      /\ Len(awaiting) \in Nat /\ Len(extra) \in Nat
  BY <1>1, HandedOverItems
<1>3. GoOn(t, h, "fallback", needed, FALSE)
  BY DEF HandOver, HandedOver
<1> HIDE DEF h
<1>4. \A n, m \in Nat : /\ n + 1 \in 1..(n + 1 + m)
                        /\ \A i \in 1..n : i \in 1..(n + 1 + m)
                        /\ \A i \in 1..m : n + 1 + i \in 1..(n + 1 + m)
  OBVIOUS
<1>5. DOMAIN h = 1..(Len(awaiting) + 1 + Len(extra)) /\ DOMAIN extra = 1..Len(extra)
  BY <1>2
<1>6. \A x : Has(h, x) => \/ Has(work'[t], x)
                          \/ x = ClockIfNeeded /\ (needed => Has(work'[t], Clock))
  BY <1>1, <1>2, <1>3, GoOnHas DEF Places
<1>7. \A r : LocalReply(r) # ClockIfNeeded
  BY DEF LocalReply, ClockIfNeeded
<1>8. ASSUME NEW r \in Records, Contains(awaiting, r) PROVE Has(h, LocalReply(r))
  <2>1. PICK i \in 1..Len(awaiting) : awaiting[i] = r
    BY <1>8 DEF Contains
  <2> QED
    BY <1>2, <1>4, <1>5, <2>1 DEF Has
<1>9. ASSUME NEW r \in Records, Has(extra, LocalReply(r)) PROVE Has(h, LocalReply(r))
  <2>1. PICK i \in 1..Len(extra) : extra[i] = LocalReply(r)
    BY <1>5, <1>9 DEF Has
  <2> QED
    BY <1>2, <1>4, <1>5, <2>1 DEF Has
<1>10. Has(h, ClockIfNeeded)
  BY <1>2, <1>4, <1>5 DEF Has
<1> QED
  BY <1>6, <1>7, <1>8, <1>9, <1>10

\* A closed writer stays closed and failures stay counted.
LEMMA NothingReopens ==
  ASSUME TypeOK, [Next]_vars
  PROVE  (writerOpen' => writerOpen) /\ (stalls' = 0 => stalls = 0)
<1>1. \A t \in Tasks : Fallback(t) => (writerOpen' => writerOpen)
  BY DEF Fallback, HandOver, Disconnect, AlreadyHandedOver, session
<1>2. CloudTaskEnds => (writerOpen' => writerOpen)
  BY <1>1 DEF CloudTaskEnds, session, Tasks
<1>3. ASSUME NEW t \in Tasks, SendFails(t)
      PROVE  (writerOpen' => writerOpen) /\ stalls' # 0
  <2>1. \A n \in Nat : n + 1 # 0
    OBVIOUS
  <2>2. stalls' # 0
    BY <1>3, <2>1 DEF SendFails, TypeOK, HistoryType
  <2>3. Finish \/ CloudTaskEnds \/ UNCHANGED session
    BY <1>3 DEF SendFails
  <2> QED
    BY <1>2, <2>2, <2>3 DEF Finish, session
<1>4. CASE UNCHANGED <<writerOpen, stalls>>
  BY <1>4
<1>5. CASE ConnectFails \/ UpstreamFails \/ DeadlineExpires \/ CloudDisconnects
  BY <1>1, <1>2, <1>5 DEF ConnectFails, UpstreamFails, DeadlineExpires, CloudDisconnects,
                          history, Tasks
<1>6. CASE SessionEnds \/ WriterCloses \/ \E r \in Records : ReceiveOverflow(r)
  <2>1. CASE SessionEnds \/ WriterCloses
    BY <2>1 DEF SessionEnds, Finish, WriterCloses, history
  <2>2. ASSUME NEW r \in Records, ReceiveOverflow(r) PROVE stalls' = stalls /\ (writerOpen' => writerOpen)
    <3>1. CASE HandOver("device", <<LocalReply(r)>>, DueAfter(r))
      BY <2>2, <3>1 DEF ReceiveOverflow, HandOver
    <3>2. CASE Disconnect("device")
      BY <2>2, <3>2 DEF ReceiveOverflow, Disconnect
    <3> QED
      BY <2>2, <3>1, <3>2 DEF ReceiveOverflow
  <2> QED
    BY <1>6, <2>1, <2>2
<1>7. CASE ConnectCloud \/ UpstreamDrained \/ CloudSendsClock \/ CloudFrameAfterHandOver
           \/ CloudFrameBlocked \/ DeadlineStops \/ CloudFrame \/ Ended \/ UNCHANGED vars
  BY <1>4, <1>7 DEF ConnectCloud, UpstreamDrained, CloudSendsClock, CloudFrameAfterHandOver,
                    CloudFrameBlocked, DeadlineStops, CloudFrame, Ended, vars, session, history
<1>8. CASE \/ \E r \in Records : ReceiveForward(r) \/ ReceiveLocal(r) \/ CloudAnswers(r)
           \/ \E t \in Tasks : SendBegin(t) \/ SendDone(t)
  BY <1>4, <1>8 DEF ReceiveForward, ReceiveLocal, CloudAnswers, SendBegin, SendDone, session, history
<1> QED
  BY <1>3, <1>5, <1>6, <1>7, <1>8 DEF Next

\* The steps that leave what tasks have to send alone, but for a task that had
\* nothing to send.
Keeps == /\ UNCHANGED sending
         /\ \A u \in Tasks : work[u] # <<>> => work'[u] = work[u]

LEMMA WorkSteps ==
  ASSUME TypeOK, WorkShape, ConnectingIsFirst, [Next]_vars, writerOpen', stalls' = stalls
  PROVE  Keeps \/ \E t \in Tasks : SendBegin(t) \/ SendDone(t)
<1> DEFINE Goal == Keeps \/ \E t \in Tasks : SendBegin(t) \/ SendDone(t)
<1> SUFFICES Goal
  OBVIOUS
<1>0. TasksType /\ "device" \in Tasks /\ "cloud" \in Tasks /\ "deadline" \in Tasks
  BY DEF TypeOK, Tasks
<1>1. ~Finish
  BY DEF Finish
<1>2. ASSUME NEW t \in Tasks, pc[t] \in Awaits, UNCHANGED sending,
             NEW w, work' = [work EXCEPT ![t] = w]
      PROVE  Goal
  BY <1>0, <1>2 DEF WorkShape, TaskShape, TasksType, Keeps
<1>3. ASSUME NEW t \in Tasks, NEW w, NEW p, NEW n, NEW c, GoOn(t, w, p, n, c)
      PROVE  \E v : work' = [work EXCEPT ![t] = v]
  BY <1>3 DEF GoOn
<1>4. ASSUME NEW t \in Tasks, pc[t] \in Awaits, UNCHANGED sending, Fallback(t) PROVE Goal
  <2>1. \E v : work' = [work EXCEPT ![t] = v]
    BY <1>3, <1>4 DEF Fallback, HandOver, Disconnect, AlreadyHandedOver
  <2> QED
    BY <1>2, <1>4, <2>1
<1>5. CASE UNCHANGED <<work, sending>>
  BY <1>5 DEF Keeps
<1>6. CASE ConnectFails \/ UpstreamFails
  <2>1. Fallback("device") /\ KeepLock /\ pc["device"] \in Awaits /\ open
    BY <1>6 DEF ConnectFails, UpstreamFails, Awaits, WorkShape, Tasks
  <2>2. open'
    BY <2>1 DEF Fallback, HandOver, Disconnect, AlreadyHandedOver, session
  <2> QED
    BY <1>0, <1>4, <2>1, <2>2 DEF KeepLock
<1>7. ASSUME NEW r \in Records, ReceiveOverflow(r) PROVE Goal
  <2>1. HandOver("device", <<LocalReply(r)>>, DueAfter(r))
    BY <1>7 DEF ReceiveOverflow, Disconnect
  <2>2. open' /\ pc["device"] \in Awaits
    BY <1>7, <2>1 DEF ReceiveOverflow, Receive, HandOver, Awaits
  <2>3. \E v : work' = [work EXCEPT !["device"] = v]
    BY <1>0, <1>3, <2>1 DEF HandOver
  <2> QED
    BY <1>0, <1>2, <1>7, <2>2, <2>3 DEF ReceiveOverflow, KeepLock
<1>8. ASSUME NEW r \in Records, ReceiveLocal(r) PROVE Goal
  BY <1>0, <1>2, <1>3, <1>8 DEF ReceiveLocal, Receive, Awaits
<1>9. CASE CloudFrame
  BY <1>0, <1>2, <1>3, <1>9 DEF CloudFrame, CloudTaskReads, Awaits
<1>10. CASE CloudDisconnects
  <2>1. pc["cloud"] \in Awaits /\ UNCHANGED sending
    BY <1>10 DEF CloudDisconnects, Awaits
  <2> QED
    BY <1>0, <1>2, <1>4, <1>10, <2>1 DEF CloudDisconnects, CloudTaskEnds
<1>11. CASE DeadlineExpires
  BY <1>0, <1>4, <1>11 DEF DeadlineExpires, Awaits
<1>12. ASSUME NEW t \in Tasks, SendFails(t) PROVE Goal
  <2>1. \A n \in Nat : n + 1 # n
    OBVIOUS
  <2> QED
    BY <1>12, <2>1 DEF SendFails, TypeOK, HistoryType
<1> HIDE DEF Goal
<1>13. CASE ConnectCloud \/ WriterCloses \/ UpstreamDrained \/ CloudSendsClock
            \/ CloudFrameAfterHandOver \/ CloudFrameBlocked \/ DeadlineStops \/ Ended
            \/ UNCHANGED vars \/ \E r \in Records : ReceiveForward(r) \/ CloudAnswers(r)
  BY <1>5, <1>13 DEF ConnectCloud, WriterCloses, UpstreamDrained, CloudSendsClock,
              CloudFrameAfterHandOver, CloudFrameBlocked, DeadlineStops, Ended, vars, tasks,
              ReceiveForward, CloudAnswers
<1>14. ASSUME NEW t \in Tasks, SendBegin(t) \/ SendDone(t) PROVE Goal
  BY <1>14 DEF Goal
<1> QED
  BY <1>1, <1>6, <1>7, <1>8, <1>9, <1>10, <1>11, <1>12, <1>13, <1>14 DEF Next, SessionEnds

\* Writing takes the head of the work, and what follows a written item is put
\* in front of the rest: no other item is lost.
LEMMA SendBeginHas ==
  ASSUME TypeOK, NEW t \in Tasks, SendBegin(t), NEW u \in Tasks, NEW x, Has(work[u], x)
  PROVE  \/ Has(work'[u], x)
         \/ u = t /\ x = Head(work[t]) /\ sending'.item = x
<1>1. /\ work[t] \in Seq(Items) /\ work[t] # <<>> /\ sending'.item = Head(work[t])
      /\ work'[t] = Tail(work[t]) /\ \A v \in Tasks \ {t} : work'[v] = work[v]
  BY DEF SendBegin, TypeOK, TasksType
<1>2. CASE u = t /\ x # Head(work[t])
  BY <1>1, <1>2, TailHas
<1> QED
  BY <1>1, <1>2

LEMMA SendDoneHas ==
  ASSUME TypeOK, WorkShape, NEW t \in Tasks, SendDone(t), NEW u \in Tasks, NEW x
  PROVE  /\ Has(work[u], x) => \/ Has(work'[u], x)
                               \/ x = ClockIfNeeded /\ (clockNeeded' => Has(work'[u], Clock))
         /\ sending.item.kind = "local" /\ sending.item.rec \in Announces => Has(work'[t], Clock)
<1> DEFINE follow == IF sending.item.kind = "local" /\ sending.item.rec \in Announces
                     THEN <<Clock>> ELSE <<>>
           w == follow \o work[t]
<1>1. /\ work[t] \in Seq(Items) /\ TasksType /\ clockNeeded' \in BOOLEAN
      /\ GoOn(t, w, pc[t], clockNeeded', cloud)
      /\ \A v \in Tasks \ {t} : work'[v] = work[v]
  BY DEF SendDone, TypeOK, TasksType, SessionType, GoOn
<1>2. CASE follow = <<>>
  <2>1. w = work[t]
    BY <1>1, <1>2, ConcatEmptySeq
  <2>2. GoOn(t, work[t], pc[t], clockNeeded', cloud)
    BY <1>1, <2>1
  <2>3. ~(sending.item.kind = "local" /\ sending.item.rec \in Announces)
    BY <1>2
  <2> HIDE DEF w, follow
  <2> QED
    BY <1>1, <2>2, <2>3, GoOnHas
<1>3. CASE follow = <<Clock>>
  <2>1. w \in Seq(Items) /\ Has(w, Clock) /\ \A y : Has(work[t], y) => Has(w, y)
    BY <1>1, <1>3, PrependHas, ItemTypes
  <2> HIDE DEF w
  <2>2. \A y : Has(w, y) => \/ Has(work'[t], y)
                            \/ y = ClockIfNeeded /\ (clockNeeded' => Has(work'[t], Clock))
    BY <1>1, <2>1, GoOnHas
  <2> QED
    BY <1>1, <2>1, <2>2, ItemTypes
<1> QED
  BY <1>2, <1>3

-----------------------------------------------------------------------------
(* Who answers once a session runs, and the clock it owes.                  *)

LEMMA FallbackShapePreserved ==
  TypeOK /\ ConnectingIsFirst /\ FallbackShape /\ [Next]_vars => FallbackShape'
<1> SUFFICES ASSUME TypeOK, ConnectingIsFirst, FallbackShape, [Next]_vars PROVE FallbackShape'
  OBVIOUS
<1>1. (writerOpen' => writerOpen) /\ cloudFallback' = cloudFallback
  BY NothingReopens, SettingsKept
<1>2. CASE Connecting
  <2>1. ~fellBack
    BY <1>2 DEF ConnectingIsFirst
  <2>2. CASE ConnectCloud
    BY <2>1, <2>2 DEF ConnectCloud, FallbackShape
  <2>3. CASE ConnectFails
    BY <1>1, <2>1, <2>3 DEF ConnectFails, Fallback, HandOver, Disconnect, AlreadyHandedOver,
                            FallbackShape
  <2>4. CASE SessionEnds
    BY <1>1, <2>1, <2>4 DEF SessionEnds, Finish, FallbackShape
  <2>5. CASE WriterCloses \/ UNCHANGED vars
    BY <1>2, <2>1, <2>5 DEF WriterCloses, vars, session, tasks, Connecting, FallbackShape
  <2> QED
    BY <1>2, <2>2, <2>3, <2>4, <2>5, ConnectingSteps
<1>3. CASE ~Connecting
  <2>1. CASE Quiet
    BY <1>1, <1>3, <2>1 DEF Quiet, FallbackShape
  <2>2. CASE ConnectCloud
    BY <1>3, <2>2 DEF ConnectCloud, Connecting
  <2>3. CASE Finish
    BY <1>1, <2>3 DEF Finish, FallbackShape
  <2>4. ASSUME NEW r \in Records, ReceiveForward(r) PROVE FallbackShape'
    BY <1>1, <2>4 DEF ReceiveForward, FallbackShape
  <2>5. CASE CloudFrame
    BY <1>1, <2>5 DEF CloudFrame, FallbackShape
  <2>6. ASSUME NEW t \in Tasks, Disconnect(t) PROVE FallbackShape'
    BY <2>6 DEF Disconnect, FallbackShape
  <2>7. ASSUME NEW t \in Tasks, NEW extra, NEW needed, HandOver(t, extra, needed)
        PROVE  FallbackShape'
    BY <1>1, <2>7 DEF HandOver, FallbackShape
  <2> QED
    BY <2>1, <2>2, <2>3, <2>4, <2>5, <2>6, <2>7, OwnershipSteps
<1> QED
  BY <1>2, <1>3

\* Which steps make a clock due.
LEMMA ClockBecomesDue ==
  ASSUME [Next]_vars, clockNeeded', ~clockNeeded, fellBack
  PROVE  cloud \/ \E r \in Announces : ReceiveLocal(r)
<1>1. ASSUME NEW t \in Tasks, Fallback(t) PROVE FALSE
  BY <1>1 DEF Fallback, HandOver, Disconnect, AlreadyHandedOver, session
<1>2. ~CloudTaskEnds \/ UNCHANGED session
  BY <1>1 DEF CloudTaskEnds, Tasks
<1>3. ASSUME NEW t \in Tasks, SendBegin(t) \/ SendDone(t) \/ SendFails(t) PROVE FALSE
  BY <1>2, <1>3 DEF SendBegin, SendDone, SendFails, Finish, session
<1>4. ~ConnectFails /\ ~UpstreamFails /\ ~DeadlineExpires /\ ~CloudDisconnects
  BY <1>1, <1>2 DEF ConnectFails, UpstreamFails, DeadlineExpires, CloudDisconnects, session, Tasks
<1>5. ~(SessionEnds \/ WriterCloses \/ ConnectCloud \/ UpstreamDrained \/ CloudSendsClock
        \/ CloudFrameAfterHandOver \/ CloudFrameBlocked \/ DeadlineStops \/ CloudFrame \/ Ended
        \/ UNCHANGED vars \/ \E r \in Records : CloudAnswers(r))
  BY DEF SessionEnds, Finish, WriterCloses, ConnectCloud, UpstreamDrained, CloudSendsClock,
         CloudFrameAfterHandOver, CloudFrameBlocked, DeadlineStops, CloudFrame, Ended, vars, session,
         CloudAnswers
<1>6. ASSUME NEW r \in Records, ReceiveForward(r) \/ ReceiveOverflow(r) \/ ReceiveLocal(r)
      PROVE  cloud \/ \E q \in Announces : ReceiveLocal(q)
  BY <1>6 DEF ReceiveForward, ReceiveOverflow, ReceiveLocal, DueAfter
<1> QED
  BY <1>3, <1>4, <1>5, <1>6 DEF Next

\* Which steps make a session fall back.
LEMMA FallingBack ==
  ASSUME [Next]_vars, fellBack' # fellBack
  PROVE  \/ \E t \in Tasks : Disconnect(t) \/ HandOver(t, <<>>, clockNeeded)
         \/ \E r \in Records : /\ ReceiveOverflow(r)
                               /\ HandOver("device", <<LocalReply(r)>>, DueAfter(r))
<1> DEFINE Goal == \/ \E t \in Tasks : Disconnect(t) \/ HandOver(t, <<>>, clockNeeded)
                   \/ \E r \in Records : /\ ReceiveOverflow(r)
                                         /\ HandOver("device", <<LocalReply(r)>>, DueAfter(r))
<1> SUFFICES Goal
  OBVIOUS
<1>1. ASSUME NEW t \in Tasks, Fallback(t) PROVE Goal
  BY <1>1 DEF Fallback, AlreadyHandedOver, session
<1>2. CloudTaskEnds => Goal
  BY <1>1 DEF CloudTaskEnds, session, Tasks
<1>3. ASSUME NEW t \in Tasks, SendBegin(t) \/ SendDone(t) \/ SendFails(t) PROVE Goal
  BY <1>2, <1>3 DEF SendBegin, SendDone, SendFails, Finish, session
<1>4. CASE ConnectFails \/ UpstreamFails \/ DeadlineExpires \/ CloudDisconnects
  BY <1>1, <1>2, <1>4 DEF ConnectFails, UpstreamFails, DeadlineExpires, CloudDisconnects, Tasks
<1>5. ~(SessionEnds \/ WriterCloses \/ ConnectCloud \/ UpstreamDrained \/ CloudSendsClock
        \/ CloudFrameAfterHandOver \/ CloudFrameBlocked \/ DeadlineStops \/ CloudFrame \/ Ended
        \/ UNCHANGED vars)
  BY DEF SessionEnds, Finish, WriterCloses, ConnectCloud, UpstreamDrained, CloudSendsClock,
         CloudFrameAfterHandOver, CloudFrameBlocked, DeadlineStops, CloudFrame, Ended, vars, session
<1>6. ASSUME NEW r \in Records,
             ReceiveForward(r) \/ ReceiveOverflow(r) \/ ReceiveLocal(r) \/ CloudAnswers(r)
      PROVE  Goal
  BY <1>6 DEF ReceiveForward, ReceiveOverflow, ReceiveLocal, CloudAnswers, session, Tasks
<1> HIDE DEF Goal
<1> QED
  BY <1>3, <1>4, <1>5, <1>6 DEF Next

LEMMA DueType ==
  ASSUME TypeOK, NEW r \in Records
  PROVE  DueAfter(r) \in BOOLEAN /\ clockNeeded \in BOOLEAN /\ <<LocalReply(r)>> \in Seq(Items)
         /\ Has(<<LocalReply(r)>>, LocalReply(r))
  BY ItemTypes DEF DueAfter, TypeOK, SessionType, Has

\* What ReceiveLocal makes the device task send.
LEMMA ReceiveLocalHas ==
  ASSUME TypeOK, NEW r \in Records, ReceiveLocal(r)
  PROVE  Has(work'["device"], LocalReply(r))
<1> DEFINE w == <<LocalReply(r)>>
<1>1. /\ GoOn("device", w, "reply", clockNeeded', FALSE) /\ clockNeeded' = DueAfter(r)
      /\ TasksType /\ "device" \in Tasks
  BY DEF ReceiveLocal, TypeOK, Tasks
<1>2. LocalReply(r) # ClockIfNeeded
  BY DEF LocalReply, ClockIfNeeded
<1>3. clockNeeded' \in BOOLEAN /\ w \in Seq(Items) /\ Has(w, LocalReply(r))
  BY <1>1, DueType
<1> HIDE DEF w
<1>4. work'["device"] = Settled(w, clockNeeded')
  BY <1>1 DEF GoOn, TasksType
<1>5. \/ Has(Settled(w, clockNeeded'), LocalReply(r))
      \/ LocalReply(r) = ClockIfNeeded
  BY <1>3, SettledHas
<1> QED
  BY <1>2, <1>4, <1>5

\* A clock that has become due, or was, is still on its way.
ClockComes(w) == \E x : BringsClock(x) /\ Has(w, x)

LEMMA ClockOnItsWayPreserved ==
  ASSUME TypeOK, WorkShape, ConnectingIsFirst, HandOverIsComplete, FallbackShape, ClockOnItsWay,
         [Next]_vars
  PROVE  ClockOnItsWay'
<1> DEFINE Goal == \/ sending' # NoSend /\ BringsClock(sending'.item)
                   \/ \E t \in Tasks : ClockComes(work'[t])
<1>1. SUFFICES ASSUME writerOpen', stalls' = 0, fellBack', cloudFallback', clockNeeded'
               PROVE  Goal
  BY DEF ClockOnItsWay, ClockComes, Has
<1>2. writerOpen /\ stalls = 0 /\ cloudFallback
  BY <1>1, NothingReopens, SettingsKept
<1>3. TasksType /\ "device" \in Tasks
  BY DEF TypeOK, Tasks
<1>4. BringsClock(Clock) /\ BringsClock(ClockIfNeeded) /\ \A r \in Announces : BringsClock(LocalReply(r))
  BY DEF BringsClock
<1>5. CASE ~fellBack
  <2>1. ASSUME NEW t \in Tasks, NEW extra \in Seq(Items), NEW needed \in BOOLEAN,
               HandOver(t, extra, needed)
        PROVE  Goal
    <3>1. needed
      BY <1>1, <2>1 DEF HandOver
    <3> QED
      BY <1>4, <2>1, <3>1, HandOverHas DEF ClockComes
  <2>2. clockNeeded \in BOOLEAN /\ <<>> \in Seq(Items)
    BY DEF TypeOK, SessionType
  <2>3. \A t \in Tasks : ~Disconnect(t)
    BY <1>2 DEF Disconnect
  <2> HIDE DEF Goal
  <2> QED
    BY <1>1, <1>3, <1>5, <2>1, <2>2, <2>3, FallingBack, DueType
<1>6. CASE fellBack /\ ~clockNeeded
  <2>1. ~cloud
    BY <1>2, <1>6 DEF HandOverIsComplete
  <2>2. PICK r \in Announces : ReceiveLocal(r)
    BY <1>1, <1>6, <2>1, ClockBecomesDue
  <2>3. Has(work'["device"], LocalReply(r))
    BY <2>2, ReceiveLocalHas DEF Records
  <2> QED
    BY <1>3, <1>4, <2>3 DEF ClockComes
<1>7. CASE fellBack /\ clockNeeded
  <2>1. \/ sending # NoSend /\ BringsClock(sending.item)
        \/ \E t \in Tasks : ClockComes(work[t])
    BY <1>2, <1>7 DEF ClockOnItsWay, ClockComes, Has
  <2>2. CASE Keeps
    <3>1. ASSUME NEW t \in Tasks, ClockComes(work[t]) PROVE Goal
      <4>1. work[t] # <<>>
        BY <3>1 DEF ClockComes, Has
      <4> QED
        BY <2>2, <3>1, <4>1 DEF Keeps
    <3> QED
      BY <2>1, <2>2, <3>1 DEF Keeps
  <2>3. ASSUME NEW t \in Tasks, SendBegin(t) PROVE Goal
    <3>1. sending = NoSend /\ sending' # NoSend
      BY <2>3 DEF SendBegin, NoSend, Tasks
    <3>2. PICK u \in Tasks : ClockComes(work[u])
      BY <2>1, <3>1
    <3>3. PICK x : BringsClock(x) /\ Has(work[u], x)
      BY <3>2 DEF ClockComes
    <3>4. Has(work'[u], x) \/ sending'.item = x
      BY <2>3, <3>3, SendBeginHas
    <3> QED
      BY <3>1, <3>3, <3>4 DEF ClockComes
  <2>4. ASSUME NEW t \in Tasks, SendDone(t) PROVE Goal
    <3>1. sending.task = t /\ sending.item # Clock /\ sending.item # ClockIfNeeded
      BY <1>1, <2>4 DEF SendDone, WorkShape, TaskShape
    <3>2. CASE BringsClock(sending.item)
      <4>1. sending.item.kind = "local" /\ sending.item.rec \in Announces
        BY <3>1, <3>2 DEF BringsClock, LocalReply
      <4> QED
        BY <1>4, <2>4, <4>1, SendDoneHas DEF ClockComes
    <3>3. ASSUME NEW u \in Tasks, ClockComes(work[u]) PROVE Goal
      <4>1. PICK x : BringsClock(x) /\ Has(work[u], x)
        BY <3>3 DEF ClockComes
      <4>2. Has(work'[u], x) \/ Has(work'[u], Clock)
        BY <1>1, <2>4, <4>1, SendDoneHas
      <4> QED
        BY <1>4, <4>1, <4>2 DEF ClockComes
    <3> QED
      BY <2>1, <3>2, <3>3
  <2> HIDE DEF Goal
  <2> QED
    BY <1>1, <1>2, <2>2, <2>3, <2>4, WorkSteps
<1> QED
  BY <1>5, <1>6, <1>7

-----------------------------------------------------------------------------
(* No record is forgotten.                                                  *)

\* The places of an item in a task's work are counted by InWork.
LEMMA PlacesFinite ==
  ASSUME NEW w \in Seq(Items), NEW x
  PROVE  /\ IsFiniteSet({i \in DOMAIN w : w[i] = x})
         /\ Cardinality({i \in DOMAIN w : w[i] = x}) \in Nat
         /\ Cardinality({i \in DOMAIN w : w[i] = x}) > 0 <=> Has(w, x)
<1> DEFINE places == {i \in DOMAIN w : w[i] = x}
<1>1. IsFiniteSet(DOMAIN w)
  BY FS_Interval
<1>2. IsFiniteSet(places)
  BY <1>1, FS_Subset
<1>3. Cardinality(places) \in Nat
  BY <1>2, FS_CardinalityType
<1>4. Cardinality(places) = 0 <=> places = {}
  BY <1>2, FS_EmptySet
<1>5. places = {} <=> ~Has(w, x)
  BY DEF Has
<1> HIDE DEF places
<1>6. Cardinality(places) > 0 <=> Has(w, x)
  BY <1>3, <1>4, <1>5
<1> QED
  BY <1>2, <1>3, <1>6 DEF places

Answers(r) == {[kind |-> kind, rec |-> r] : kind \in {"cloud", "local"}}
Coming(r) == \E t \in Tasks, x \in Answers(r) : Has(work[t], x)

LEMMA InFlightIsComing == TasksType => \A r : InFlight(r) <=> Coming(r)
<1> SUFFICES ASSUME TasksType, NEW r PROVE InFlight(r) <=> Coming(r)
  OBVIOUS
<1>1. \A t \in Tasks, kind \in {"cloud", "local"} :
        InWork(t, kind, r) > 0 <=> Has(work[t], [kind |-> kind, rec |-> r])
  BY PlacesFinite DEF InWork, TasksType
<1> QED
  BY <1>1 DEF InFlight, Coming, Answers

LEMMA AnswersAreItems ==
  \A r \in Records : \A x \in Answers(r) : x \in Items /\ x # ClockIfNeeded /\ x.rec = r
  BY DEF Answers, Items, ClockIfNeeded

LEMMA AnswerNames == \A r : LocalReply(r) \in Answers(r) /\ Relayed(r) \in Answers(r)
  BY DEF Answers, LocalReply, Relayed

\* Settling a record leaves the others outstanding.
LEMMA SettleOther ==
  ASSUME NEW s \in Seq(Records), NEW r, NEW q, r # q, Contains(s, q)
  PROVE  Contains(Settle(s, r), q)
<1>1. CASE ~Contains(s, r)
  BY <1>1 DEF Settle
<1>2. CASE Contains(s, r)
  <2> DEFINE i == CHOOSE j \in DOMAIN s : s[j] = r
             a == SubSeq(s, 1, i - 1)
             b == SubSeq(s, i + 1, Len(s))
  <2>1. i \in 1..Len(s) /\ s[i] = r
    BY <1>2 DEF Contains
  <2>2. Settle(s, r) = a \o b
    BY <1>2 DEF Settle, RemoveAt
  <2>3. PICK k \in 1..Len(s) : s[k] = q
    BY DEF Contains
  <2> HIDE DEF i
  <2>4. /\ a \in Seq(Records) /\ Len(a) = i - 1
        /\ \A j \in 1..(i - 1) : a[j] = s[j]
    BY <2>1, SubSeqProperties
  <2>5. /\ b \in Seq(Records) /\ Len(b) = Len(s) - i
        /\ \A j \in 1..(Len(s) - i) : b[j] = s[i + j]
    BY <2>1, SubSeqProperties
  <2> HIDE DEF a, b
  <2>6. /\ Len(a \o b) = Len(a) + Len(b)
        /\ \A j \in 1..(Len(a) + Len(b)) :
             (a \o b)[j] = IF j <= Len(a) THEN a[j] ELSE b[j - Len(a)]
    BY <2>4, <2>5, ConcatProperties
  <2>7. CASE k < i
    <3>1. k \in 1..(i - 1) /\ k \in 1..(Len(a) + Len(b)) /\ k <= Len(a)
      BY <2>1, <2>3, <2>4, <2>5, <2>7
    <3> QED
      BY <2>2, <2>3, <2>4, <2>6, <3>1 DEF Contains
  <2>8. CASE k > i
    <3>1. /\ k - 1 \in 1..(Len(a) + Len(b)) /\ ~(k - 1 <= Len(a))
          /\ k - 1 - Len(a) \in 1..(Len(s) - i) /\ i + (k - 1 - Len(a)) = k
      BY <2>1, <2>3, <2>4, <2>5, <2>8
    <3>2. (a \o b)[k - 1] = q
      BY <2>3, <2>5, <2>6, <3>1
    <3> QED
      BY <2>2, <2>6, <3>1, <3>2 DEF Contains
  <2> QED
    BY <2>1, <2>3, <2>7, <2>8
<1> QED
  BY <1>1, <1>2

LEMMA CloudFrameHas ==
  ASSUME TypeOK, CloudFrame, NEW r \in Records, Head(fromCloud).kind = "ack",
         Head(fromCloud).rec = r
  PROVE  Has(work'["cloud"], Relayed(r))
<1> DEFINE w == <<Relayed(r)>>
<1>1. GoOn("cloud", w, "relay", FALSE, TRUE) /\ "cloud" \in Tasks /\ TasksType
  BY DEF CloudFrame, TypeOK, Tasks
<1>2. Relayed(r) # ClockIfNeeded /\ Relayed(r) \in Items
  BY ItemTypes DEF Relayed, ClockIfNeeded
<1>3. w \in Seq(Items) /\ Has(w, Relayed(r))
  BY <1>2 DEF Has
<1> HIDE DEF w
<1>4. work'["cloud"] = Settled(w, FALSE)
  BY <1>1 DEF GoOn, TasksType
<1> QED
  BY <1>2, <1>3, <1>4, SettledHas

\* A record of which the relay still knows, or which it has answered.
Answered(r) == answers["cloud"][r] + answers["local"][r] > 0
Kept(r) == Contains(awaiting, r) \/ Coming(r) \/ Answered(r)

LEMMA OutstandingStays ==
  ASSUME TypeOK, [Next]_vars, writerOpen', NEW r \in Records, Contains(awaiting, r)
  PROVE  Contains(awaiting', r) \/ Coming(r)'
<1> DEFINE Goal == Contains(awaiting', r) \/ Coming(r)'
<1> SUFFICES Goal
  OBVIOUS
<1>0. awaiting \in Seq(Records) /\ <<>> \in Seq(Items) /\ clockNeeded \in BOOLEAN
      /\ "device" \in Tasks /\ "cloud" \in Tasks
  BY DEF TypeOK, SessionType, Tasks
<1>1. CASE fellBack' # fellBack
  <2>1. ASSUME NEW t \in Tasks, NEW extra \in Seq(Items), NEW needed \in BOOLEAN,
               HandOver(t, extra, needed)
        PROVE  Goal
    BY <2>1, HandOverHas, AnswerNames DEF Coming
  <2>2. \A t \in Tasks : ~Disconnect(t)
    BY DEF Disconnect
  <2> HIDE DEF Goal
  <2> QED
    BY <1>0, <1>1, <2>1, <2>2, FallingBack, DueType
<1>2. CASE CloudFrame
  <2>1. CASE Head(fromCloud).kind = "ack" /\ Head(fromCloud).rec = r
    BY <1>0, <1>2, <2>1, CloudFrameHas, AnswerNames DEF Coming
  <2>2. CASE Head(fromCloud).kind = "ack" /\ Head(fromCloud).rec # r
    BY <1>0, <1>2, <2>2, SettleOther DEF CloudFrame
  <2>3. CASE Head(fromCloud).kind # "ack"
    BY <1>2, <2>3 DEF CloudFrame
  <2> QED
    BY <2>1, <2>2, <2>3
<1>3. ASSUME NEW q \in Records, ReceiveForward(q) PROVE Goal
  <2>1. CASE awaiting' = awaiting
    BY <2>1
  <2>2. CASE awaiting' = Append(awaiting, q)
    <3>1. PICK k \in 1..Len(awaiting) : awaiting[k] = r
      BY DEF Contains
    <3>2. k \in 1..Len(awaiting') /\ awaiting'[k] = r
      BY <1>0, <2>2, <3>1
    <3> QED
      BY <3>2 DEF Contains
  <2> QED
    BY <1>3, <2>1, <2>2 DEF ReceiveForward, Outstanding
<1>4. CASE awaiting' = awaiting
  BY <1>4
<1> HIDE DEF Goal
<1>5. (Quiet \/ ConnectCloud) => awaiting' = awaiting
  BY DEF Quiet, ConnectCloud
<1>6. \A t \in Tasks : ~Finish /\ ~Disconnect(t)
  BY DEF Finish, Disconnect
<1>7. ASSUME NEW t, NEW extra, NEW needed, HandOver(t, extra, needed) PROVE fellBack' # fellBack
  <2>1. ~fellBack /\ fellBack' = TRUE
    BY <1>7 DEF HandOver
  <2> QED
    BY <2>1
<1> QED
  BY <1>0, <1>1, <1>2, <1>3, <1>4, <1>5, <1>6, <1>7, OwnershipSteps

LEMMA AnsweredStays ==
  ASSUME TypeOK, [Next]_vars, NEW r \in Records, Answered(r)
  PROVE  Answered(r)'
<1>1. CASE UNCHANGED answers
  BY <1>1 DEF Answered
<1>2. ASSUME NEW t \in Tasks, SendBegin(t) PROVE Answered(r)'
  <2> DEFINE owner == IF Head(work[t]).kind = "cloud" THEN "cloud" ELSE "local"
             q == Head(work[t]).rec
  <2>1. answers' = IF q \in Records THEN [answers EXCEPT ![owner][q] = @ + 1] ELSE answers
    BY <1>2 DEF SendBegin
  <2>2. owner \in Owners /\ "cloud" \in Owners /\ "local" \in Owners
    BY DEF Owners
  <2> HIDE DEF owner, q
  <2>3. \A o \in Owners : answers'[o][r] \in {answers[o][r], answers[o][r] + 1}
    BY <2>1, <2>2 DEF TypeOK, HistoryType
  <2>4. \A o \in Owners : answers[o][r] \in Nat
    BY DEF TypeOK, HistoryType
  <2>5. \A m, n, i, j \in Nat : i + j > 0 /\ m \in {i, i + 1} /\ n \in {j, j + 1} => m + n > 0
    OBVIOUS
  <2> QED
    BY <2>2, <2>3, <2>4, <2>5 DEF Answered
<1> QED
  BY <1>1, <1>2, SendingSteps

LEMMA ComingStays ==
  ASSUME TypeOK, WorkShape, ConnectingIsFirst, [Next]_vars, writerOpen', stalls' = stalls,
         NEW r \in Records, Coming(r)
  PROVE  Coming(r)' \/ Answered(r)'
<1>1. PICK u \in Tasks, x \in Answers(r) : Has(work[u], x)
  BY DEF Coming
<1>2. x # ClockIfNeeded /\ x.rec = r /\ x.kind \in {"cloud", "local"}
  BY AnswersAreItems DEF Answers
<1>3. CASE Keeps
  <2>1. work[u] # <<>>
    BY <1>1 DEF Has
  <2> QED
    BY <1>1, <1>3, <2>1 DEF Keeps, Coming
<1>4. ASSUME NEW t \in Tasks, SendBegin(t) PROVE Coming(r)' \/ Answered(r)'
  <2>1. CASE Has(work'[u], x)
    BY <2>1 DEF Coming
  <2>2. CASE x = Head(work[t])
    <3> DEFINE owner == IF x.kind = "cloud" THEN "cloud" ELSE "local"
    <3>1. answers' = [answers EXCEPT ![owner][r] = @ + 1]
      BY <1>2, <1>4, <2>2 DEF SendBegin
    <3>2. owner \in Owners /\ Owners = {"cloud", "local"}
      BY DEF Owners
    <3> HIDE DEF owner
    <3>3. /\ answers'[owner][r] = answers[owner][r] + 1
          /\ \A o \in Owners \ {owner} : answers'[o][r] = answers[o][r]
      BY <3>1, <3>2 DEF TypeOK, HistoryType
    <3>4. \A o \in Owners : answers[o][r] \in Nat
      BY DEF TypeOK, HistoryType
    <3>5. \A m, n \in Nat : m + 1 + n > 0 /\ m + (n + 1) > 0
      OBVIOUS
    <3> QED
      BY <3>2, <3>3, <3>4, <3>5 DEF Answered
  <2> QED
    BY <1>1, <1>4, <2>1, <2>2, SendBeginHas
<1>5. ASSUME NEW t \in Tasks, SendDone(t) PROVE Coming(r)'
  <2>1. Has(work'[u], x)
    BY <1>1, <1>2, <1>5, SendDoneHas
  <2> QED
    BY <2>1 DEF Coming
<1> QED
  BY <1>3, <1>4, <1>5, WorkSteps

LEMMA ReceiptSteps ==
  [Next]_vars => \/ UNCHANGED received
                 \/ \E r \in Records : ReceiveForward(r) \/ ReceiveOverflow(r) \/ ReceiveLocal(r)
  BY DEF Next, vars, history, ConnectCloud, ConnectFails, SessionEnds, WriterCloses,
         UpstreamDrained, UpstreamFails, CloudAnswers, CloudSendsClock, CloudFrameAfterHandOver,
         CloudFrameBlocked, CloudFrame, CloudDisconnects, DeadlineExpires, DeadlineStops, SendBegin,
         SendDone, SendFails, Ended

\* A record that has just been received is one the relay knows of.
LEMMA ReceivedIsKept ==
  ASSUME TypeOK, HandOverIsComplete, FallbackShape, [Next]_vars, writerOpen',
         NEW r \in Records,
         ReceiveForward(r) \/ ReceiveOverflow(r) \/ ReceiveLocal(r)
  PROVE  Contains(awaiting', r) \/ Coming(r)'
<1>0. awaiting \in Seq(Records) /\ "device" \in Tasks
  BY DEF TypeOK, SessionType, Tasks
<1>1. CASE ReceiveForward(r)
  <2>1. ~fellBack
    BY <1>1, NothingReopens DEF ReceiveForward, HandOverIsComplete, FallbackShape
  <2>2. \/ awaiting' = awaiting /\ Contains(awaiting, r)
        \/ awaiting' = Append(awaiting, r)
    BY <1>0, <1>1, <2>1, SessionAssumption DEF ReceiveForward, Outstanding
  <2>3. CASE awaiting' = Append(awaiting, r)
    <3>1. Len(awaiting) + 1 \in 1..Len(awaiting') /\ awaiting'[Len(awaiting) + 1] = r
      BY <1>0, <2>3
    <3> QED
      BY <3>1 DEF Contains
  <2> QED
    BY <2>2, <2>3
<1>2. CASE ReceiveOverflow(r)
  <2>1. HandOver("device", <<LocalReply(r)>>, DueAfter(r))
    BY <1>2 DEF ReceiveOverflow, Disconnect
  <2>2. Has(work'["device"], LocalReply(r))
    BY <1>0, <2>1, DueType, HandOverHas
  <2> QED
    BY <1>0, <2>2, AnswerNames DEF Coming
<1>3. CASE ReceiveLocal(r)
  BY <1>0, <1>3, ReceiveLocalHas, AnswerNames DEF Coming
<1> QED
  BY <1>1, <1>2, <1>3

LEMMA NoRecordForgottenPreserved ==
  ASSUME TypeOK, TypeOK', WorkShape, ConnectingIsFirst, HandOverIsComplete, FallbackShape,
         NoRecordForgotten, [Next]_vars
  PROVE  NoRecordForgotten'
<1>1. \A r : (InFlight(r) <=> Coming(r)) /\ (InFlight(r)' <=> Coming(r)')
  <2>1. \A r : InFlight(r) <=> Coming(r)
    BY InFlightIsComing DEF TypeOK
  <2>2. (TasksType => \A r : InFlight(r) <=> Coming(r))'
    BY InFlightIsComing, PTL
  <2> QED
    BY <2>1, <2>2 DEF TypeOK
<1>2. SUFFICES ASSUME writerOpen', stalls' = 0, NEW r \in Records, received'[r] > 0
               PROVE  Kept(r)'
  BY <1>1 DEF NoRecordForgotten, Kept, Answered
<1>3. writerOpen /\ stalls = 0
  BY <1>2, NothingReopens
<1>4. CASE received[r] > 0
  <2>1. Kept(r)
    BY <1>1, <1>3, <1>4 DEF NoRecordForgotten, Kept, Answered
  <2> QED
    BY <1>2, <1>3, <2>1, OutstandingStays, ComingStays, AnsweredStays DEF Kept
<1>5. CASE ~(received[r] > 0)
  <2>1. PICK q \in Records : ReceiveForward(q) \/ ReceiveOverflow(q) \/ ReceiveLocal(q)
    BY <1>2, <1>5, ReceiptSteps
  <2>2. r = q
    BY <1>2, <1>5, <2>1
       DEF ReceiveForward, ReceiveOverflow, ReceiveLocal, Receive, TypeOK, HistoryType
  <2> QED
    BY <1>2, <2>1, <2>2, ReceivedIsKept DEF Kept
<1> QED
  BY <1>4, <1>5

-----------------------------------------------------------------------------
(* The theorems.                                                            *)

LEMMA InitIInv == Init => IInv
<1> SUFFICES ASSUME Init PROVE IInv
  OBVIOUS
<1>1. TypeOK
  BY InitType
<1>2. AwaitingBounded /\ HandOverIsComplete /\ OnlyTheCloudAnswers
  BY SessionAssumption
     DEF Init, AwaitingBounded, Distinct, HandOverIsComplete, OnlyTheCloudAnswers, None, Owners
<1>3. ConnectingIsFirst /\ CloudKeepsSession
  BY DEF Init, ConnectingIsFirst, CloudKeepsSession, Connecting, Tasks
<1> QED
  BY <1>1, <1>2, <1>3 DEF IInv

LEMMA IInvPreserved == IInv /\ [Next]_vars => IInv'
<1> SUFFICES ASSUME IInv, [Next]_vars PROVE IInv'
  OBVIOUS
<1> USE DEF IInv
<1>1. TypeOK' /\ AwaitingBounded' /\ HandOverIsComplete' /\ ConnectingIsFirst'
  BY TypePreserved, AwaitingPreserved, HandOverPreserved, ConnectingPreserved
<1>2. CASE cloudFallback
  BY <1>1, <1>2, SettingsKept DEF CloudKeepsSession, OnlyTheCloudAnswers
<1>3. CASE ~cloudFallback
  <2>1. RunsForCloud /\ RelayedSend /\ RelayedWork
    BY <1>3, CloudKeepsParts
  <2>2. RunsForCloud' /\ RelayedSend' /\ RelayedWork' /\ OnlyTheCloudAnswers'
    BY <1>3, <2>1, RunsForCloudPreserved, RelayedWorkPreserved, RelayedSendPreserved
  <2>3. CloudKeepsSession'
    BY <1>3, <2>2, SettingsKept DEF CloudKeepsSession, RunsForCloud, RelayedSend, RelayedWork, OnlyRelays
  <2> QED
    BY <1>1, <2>2, <2>3
<1> QED
  BY <1>2, <1>3

\* The state of a session has its types, for any records, limits and traffic.
THEOREM TypeCorrect == Spec => []TypeOK
<1>1. IInv => TypeOK
  BY DEF IInv
<1> QED
  BY <1>1, InitIInv, IInvPreserved, PTL DEF Spec

\* Outstanding records never exceed queue_size and are never listed twice.
THEOREM OutstandingBounded == Spec => []AwaitingBounded
<1>1. IInv => AwaitingBounded
  BY DEF IInv
<1> QED
  BY <1>1, InitIInv, IInvPreserved, PTL DEF Spec

\* A session that has fallen back has left the cloud for good: no record waits
\* for the cloud, and none will.
THEOREM HandOverCompletes == Spec => []HandOverIsComplete
<1>1. IInv => HandOverIsComplete
  BY DEF IInv
<1> QED
  BY <1>1, InitIInv, IInvPreserved, PTL DEF Spec

\* With cloud_fallback disabled the relay never acknowledges a record itself.
THEOREM DisabledMeansSilent == Spec => []OnlyTheCloudAnswers
<1>1. IInv => OnlyTheCloudAnswers
  BY DEF IInv
<1> QED
  BY <1>1, InitIInv, IInvPreserved, PTL DEF Spec

\* What the two remaining promises rest on: which items a task can have to send,
\* who answers, and the clock a local session owes.
SendsWhatItOwes ==
  IInv /\ WorkShape /\ FallbackShape /\ ClockOnItsWay /\ NoRecordForgotten

LEMMA InitOwes == Init => SendsWhatItOwes
<1> SUFFICES ASSUME Init PROVE SendsWhatItOwes
  OBVIOUS
<1>1. \A t \in Tasks : TaskShape(t)
  <2>1. \A t \in Tasks : pc[t] \in Awaits /\ work[t] = <<>> /\ sending.task # t /\ ~Relaying(t)
    BY DEF Init, Awaits, Tasks, NoSend, Relaying
  <2>2. \A t \in Tasks : Proper(work[t], Relaying(t))
    BY <2>1, ProperEmpty
  <2> QED
    BY <2>1, <2>2 DEF TaskShape
<1>2. WorkShape
  BY <1>1 DEF Init, WorkShape
<1>3. FallbackShape /\ ClockOnItsWay /\ NoRecordForgotten
  BY DEF Init, FallbackShape, ClockOnItsWay, NoRecordForgotten, Connecting, Tasks, None
<1> QED
  BY <1>2, <1>3, InitIInv DEF SendsWhatItOwes

LEMMA OwesPreserved == SendsWhatItOwes /\ [Next]_vars => SendsWhatItOwes'
<1> SUFFICES ASSUME SendsWhatItOwes, [Next]_vars PROVE SendsWhatItOwes'
  OBVIOUS
<1>1. IInv'
  BY IInvPreserved DEF SendsWhatItOwes
<1>2. TypeOK /\ TypeOK' /\ HandOverIsComplete /\ ConnectingIsFirst
  BY <1>1 DEF SendsWhatItOwes, IInv
<1>3. WorkShape' /\ FallbackShape' /\ ClockOnItsWay' /\ NoRecordForgotten'
  BY <1>2, WorkShapePreserved, FallbackShapePreserved, ClockOnItsWayPreserved,
     NoRecordForgottenPreserved DEF SendsWhatItOwes
<1> QED
  BY <1>1, <1>3 DEF SendsWhatItOwes

\* While the datalogger is connected and its socket accepts writes, a record it
\* sent is outstanding, about to be answered, or answered: a settled answer, a
\* hand-over or a refused record never lets one go.
THEOREM RecordsAreRemembered == Spec => []NoRecordForgotten
<1>1. SendsWhatItOwes => NoRecordForgotten
  BY DEF SendsWhatItOwes
<1> QED
  BY <1>1, InitOwes, OwesPreserved, PTL DEF Spec

\* A local session with nothing left to send owes no clock, even when the cloud
\* had acknowledged the announcement that made it due.
THEOREM ClockIsSupplied == Spec => []ClockSupplied
<1>1. SendsWhatItOwes => ClockSupplied
  <2>1. Quiescent => sending = NoSend /\ \A t \in Tasks : DOMAIN work[t] = {}
    BY DEF Quiescent
  <2> QED
    BY <2>1 DEF SendsWhatItOwes, ClockOnItsWay, ClockSupplied
<1> QED
  BY <1>1, InitOwes, OwesPreserved, PTL DEF Spec

-----------------------------------------------------------------------------
(* How often an item occurs.                                                *)

CountOf(w, X) == Cardinality({i \in DOMAIN w : w[i] \in X})

LEMMA CountType ==
  ASSUME NEW S, NEW w \in Seq(S), NEW X
  PROVE  /\ IsFiniteSet({i \in DOMAIN w : w[i] \in X})
         /\ CountOf(w, X) \in Nat
<1>1. IsFiniteSet(DOMAIN w)
  BY FS_Interval
<1>2. IsFiniteSet({i \in DOMAIN w : w[i] \in X})
  BY <1>1, FS_Subset
<1> QED
  BY <1>2, FS_CardinalityType DEF CountOf

LEMMA CountEmpty == \A X : CountOf(<<>>, X) = 0
<1>1. \A X : {i \in DOMAIN <<>> : <<>>[i] \in X} = {}
  OBVIOUS
<1> QED
  BY <1>1, FS_EmptySet DEF CountOf

LEMMA CountAppend ==
  ASSUME NEW S, NEW w \in Seq(S), NEW y \in S, NEW X
  PROVE  CountOf(Append(w, y), X) = CountOf(w, X) + IF y \in X THEN 1 ELSE 0
<1> DEFINE P == {i \in DOMAIN w : w[i] \in X}
           v == Append(w, y)
           Q == {i \in DOMAIN v : v[i] \in X}
<1>1. /\ Len(w) \in Nat /\ DOMAIN w = 1..Len(w) /\ DOMAIN v = 1..(Len(w) + 1)
      /\ \A i \in 1..Len(w) : v[i] = w[i]
      /\ v[Len(w) + 1] = y
  OBVIOUS
<1> HIDE DEF v
<1>2. \A i \in 1..(Len(w) + 1) : i = Len(w) + 1 \/ i \in 1..Len(w)
  BY <1>1
<1>3. Len(w) + 1 \notin 1..Len(w) /\ Len(w) + 1 \in 1..(Len(w) + 1)
      /\ \A i \in 1..Len(w) : i \in 1..(Len(w) + 1)
  BY <1>1
<1>4. Q = IF y \in X THEN P \cup {Len(w) + 1} ELSE P
  BY <1>1, <1>2, <1>3
<1>5. IsFiniteSet(P) /\ Len(w) + 1 \notin P
  BY <1>1, <1>3, CountType
<1>6. CountOf(w, X) = Cardinality(P) /\ CountOf(v, X) = Cardinality(Q) /\ Cardinality(P) \in Nat
  BY <1>5, FS_CardinalityType DEF CountOf
<1> HIDE DEF P, Q
<1>7. CASE y \in X
  BY <1>4, <1>5, <1>6, <1>7, FS_AddElement DEF v
<1>8. CASE y \notin X
  BY <1>4, <1>6, <1>8 DEF v
<1> QED
  BY <1>7, <1>8

\* Moving the places of a set by one does not change how many there are.
LEMMA CountShifted ==
  ASSUME NEW n \in Nat, NEW P \in SUBSET (1..n)
  PROVE  /\ IsFiniteSet({i + 1 : i \in P})
         /\ Cardinality({i + 1 : i \in P}) = Cardinality(P)
<1> DEFINE T == {i + 1 : i \in P}
           f == [i \in P |-> i + 1]
<1>1. IsFiniteSet(P)
  <2>1. IsFiniteSet(1..n)
    BY FS_Interval
  <2> QED
    BY <2>1, FS_Subset
<1>2. f \in Bijection(P, T)
  <2>1. f \in [P -> T]
    OBVIOUS
  <2>2. \A i, j \in P : f[i] = f[j] => i = j
    OBVIOUS
  <2>3. \A x \in T : \E i \in P : f[i] = x
    OBVIOUS
  <2> HIDE DEF f, T
  <2> QED
    BY <2>1, <2>2, <2>3 DEF Bijection, Injection, Surjection, IsInjective
<1>3. ExistsBijection(P, T)
  BY <1>2 DEF ExistsBijection
<1> HIDE DEF T
<1> QED
  BY <1>1, <1>3, FS_Bijection DEF T

LEMMA CountTail ==
  ASSUME NEW S, NEW w \in Seq(S), w # <<>>, NEW X
  PROVE  CountOf(w, X) = CountOf(Tail(w), X) + IF Head(w) \in X THEN 1 ELSE 0
<1> DEFINE t == Tail(w)
           P == {i \in DOMAIN t : t[i] \in X}
           Q == {i \in DOMAIN w : w[i] \in X}
           T == {i + 1 : i \in P}
<1>1. /\ Len(w) \in Nat /\ DOMAIN w = 1..Len(w) /\ DOMAIN t = 1..(Len(w) - 1)
      /\ Len(w) - 1 \in Nat
      /\ \A i \in 1..(Len(w) - 1) : t[i] = w[i + 1]
      /\ Head(w) = w[1] /\ t \in Seq(S)
  OBVIOUS
<1> HIDE DEF t
<1>2. /\ \A i \in 1..Len(w) : i = 1 \/ (i - 1 \in 1..(Len(w) - 1) /\ (i - 1) + 1 = i)
      /\ 1 \in 1..Len(w) /\ \A i \in 1..(Len(w) - 1) : i + 1 \in 1..Len(w) /\ i + 1 # 1
  BY <1>1
<1>3. Q = IF Head(w) \in X THEN T \cup {1} ELSE T
  <2>1. ASSUME NEW i \in Q, i # 1 PROVE i \in T
    <3>1. i - 1 \in 1..(Len(w) - 1) /\ (i - 1) + 1 = i /\ w[i] \in X
      BY <1>1, <1>2, <2>1
    <3>2. i - 1 \in P
      BY <1>1, <3>1
    <3> QED
      BY <3>1, <3>2
  <2>2. \A i \in T : i \in Q /\ i # 1
    BY <1>1, <1>2
  <2>3. 1 \in Q <=> Head(w) \in X
    BY <1>1, <1>2
  <2> HIDE DEF Q, T
  <2>4. Head(w) \in X => Q = T \cup {1}
    BY <2>1, <2>2, <2>3
  <2>5. Head(w) \notin X => Q = T
    BY <2>1, <2>2, <2>3
  <2> QED
    BY <2>4, <2>5
<1>4. 1 \notin T
  BY <1>1, <1>2
<1>5. IsFiniteSet(T) /\ Cardinality(T) = Cardinality(P)
  BY <1>1, CountShifted
<1>6. CountOf(t, X) = Cardinality(P) /\ CountOf(w, X) = Cardinality(Q) /\ Cardinality(P) \in Nat
  BY <1>1, CountType DEF CountOf
<1> HIDE DEF P, Q, T
<1>7. CASE Head(w) \in X
  BY <1>3, <1>4, <1>5, <1>6, <1>7, FS_AddElement DEF t
<1>8. CASE Head(w) \notin X
  BY <1>3, <1>5, <1>6, <1>8 DEF t
<1> QED
  BY <1>7, <1>8

LEMMA CountPrepend ==
  ASSUME NEW S, NEW w \in Seq(S), NEW y \in S, NEW X
  PROVE  CountOf(<<y>> \o w, X) = CountOf(w, X) + IF y \in X THEN 1 ELSE 0
<1> DEFINE v == <<y>> \o w
<1>1. v \in Seq(S) /\ v # <<>> /\ Head(v) = y /\ Tail(v) = w
  <2>1. /\ v \in Seq(S) /\ Len(v) = Len(w) + 1 /\ Len(w) \in Nat
        /\ v[1] = y /\ \A i \in 1..Len(w) : v[i + 1] = w[i]
    OBVIOUS
  <2> HIDE DEF v
  <2>2. v # <<>> /\ Head(v) = y
    BY <2>1
  <2>3. /\ Tail(v) \in Seq(S) /\ Len(Tail(v)) = Len(w)
        /\ \A i \in 1..Len(w) : Tail(v)[i] = v[i + 1]
    BY <2>1, <2>2
  <2>4. Tail(v) = w
    BY <2>1, <2>3, SeqEqual
  <2> QED
    BY <2>1, <2>2, <2>4
<1> HIDE DEF v
<1>2. CountOf(v, X) = CountOf(Tail(v), X) + IF Head(v) \in X THEN 1 ELSE 0
  BY <1>1, CountTail
<1> QED
  BY <1>1, <1>2 DEF v

-----------------------------------------------------------------------------
(* The session implements AckOwnership.  Claims counts the answers the      *)
(* tasks are still to write.                                                *)

\* An answer by owner o to r that has been decided and not yet written.
ClaimedBy(o, r) ==
  IF o = "cloud" THEN InWork("cloud", "cloud", r)
  ELSE InWork("device", "local", r) + InWork("cloud", "local", r) + InWork("deadline", "local", r)

LEMMA ClaimsAre == Claims = [o \in Owners |-> [r \in Records |-> ClaimedBy(o, r)]]
<1>1. /\ DOMAIN Claims = Owners
      /\ Claims["cloud"] = [r \in Records |-> ClaimedBy("cloud", r)]
      /\ Claims["local"] = [r \in Records |-> ClaimedBy("local", r)]
  BY DEF Claims, Owners, ClaimedBy
<1>2. Claims = [o \in Owners |-> Claims[o]]
  BY <1>1 DEF Claims, Owners
<1> QED
  BY <1>1, <1>2 DEF Owners

LEMMA ClaimsAreNext == (Claims = [o \in Owners |-> [r \in Records |-> ClaimedBy(o, r)]])'
  BY ClaimsAre, PTL

LEMMA CountedInWork ==
  \A t, kind, r : InWork(t, kind, r) = CountOf(work[t], {[kind |-> kind, rec |-> r]})
<1> SUFFICES ASSUME NEW t, NEW kind, NEW r
             PROVE  InWork(t, kind, r) = CountOf(work[t], {[kind |-> kind, rec |-> r]})
  OBVIOUS
<1>1. {i \in DOMAIN work[t] : work[t][i] = [kind |-> kind, rec |-> r]}
        = {i \in DOMAIN work[t] : work[t][i] \in {[kind |-> kind, rec |-> r]}}
  OBVIOUS
<1> QED
  BY <1>1 DEF InWork, CountOf

LEMMA ClaimsType ==
  ASSUME TasksType
  PROVE  \A o \in Owners, r \in Records : ClaimedBy(o, r) \in Nat
<1>1. \A t \in Tasks : \A kind, r : InWork(t, kind, r) \in Nat
  BY CountedInWork, CountType DEF TasksType
<1> QED
  BY <1>1 DEF ClaimedBy, Tasks

LEMMA InitRefines == Init => Ownership!Init
<1> SUFFICES ASSUME Init PROVE Ownership!Init
  OBVIOUS
<1>1. \A t \in Tasks : work[t] = <<>>
  BY DEF Init
<1>2. \A o \in Owners, r \in Records : ClaimedBy(o, r) = 0
  <2>1. \A t \in Tasks : \A kind, r : InWork(t, kind, r) = 0
    BY <1>1, CountedInWork, CountEmpty
  <2> QED
    BY <2>1 DEF ClaimedBy, Tasks
<1>3. Claims = [o \in Owners |-> None]
  BY <1>2, ClaimsAre DEF None
<1> QED
  BY <1>3 DEF Init, Ownership!Init, Owner, Owed, Owners, None, Ownership!None, Ownership!Owners

LEMMA ClaimChanges ==
  ASSUME NEW o \in Owners, NEW r \in Records, NEW n,
         \A p \in Owners, q \in Records :
           ClaimedBy(p, q)' = IF p = o /\ q = r THEN n ELSE ClaimedBy(p, q)
  PROVE  Claims' = [Claims EXCEPT ![o][r] = n]
<1> DEFINE f == [p \in Owners |-> [q \in Records |-> ClaimedBy(p, q)]]
           g == [p \in Owners |-> [q \in Records |-> ClaimedBy(p, q)']]
<1>1. Claims = f /\ Claims' = g
  BY ClaimsAre, ClaimsAreNext
<1>2. g = [f EXCEPT ![o][r] = n]
  <2>1. ASSUME NEW p \in Owners PROVE g[p] = [f EXCEPT ![o][r] = n][p]
    <3>1. [f EXCEPT ![o][r] = n][p] = IF p = o THEN [f[o] EXCEPT ![r] = n] ELSE f[p]
      OBVIOUS
    <3>2. CASE p = o
      BY <3>1, <3>2
    <3>3. CASE p # o
      BY <3>1, <3>3
    <3> QED
      BY <3>2, <3>3
  <2> QED
    BY <2>1
<1> QED
  BY <1>1, <1>2

\* Making the clock check does not change how many answers there are.
LEMMA SettledCount ==
  ASSUME NEW w \in Seq(Items), NEW needed \in BOOLEAN, NEW x, x # Clock, x # ClockIfNeeded
  PROVE  CountOf(Settled(w, needed), {x}) = CountOf(w, {x})
<1>1. CASE w # <<>> /\ Head(w) = ClockIfNeeded
  <2>0. Tail(w) \in Seq(Items)
    BY <1>1
  <2>1. Tail(w) \in Seq(Items) /\ CountOf(Tail(w), {x}) \in Nat
    BY <2>0, CountType
  <2>2. CountOf(w, {x}) = CountOf(Tail(w), {x})
    <3>1. CountOf(w, {x}) = CountOf(Tail(w), {x}) + IF Head(w) \in {x} THEN 1 ELSE 0
      BY <1>1, CountTail
    <3> QED
      BY <1>1, <2>1, <3>1
  <2>3. CASE needed
    <3> DEFINE v == Tail(w)
    <3>1. CountOf(<<Clock>> \o v, {x}) = CountOf(v, {x}) + IF Clock \in {x} THEN 1 ELSE 0
      BY <2>1, ItemTypes, CountPrepend
    <3>2. Settled(w, needed) = <<Clock>> \o v
      BY <1>1, <2>3 DEF Settled
    <3> HIDE DEF v
    <3>3. CountOf(<<Clock>> \o v, {x}) = CountOf(v, {x})
      BY <2>1, <3>1 DEF v
    <3> QED
      BY <2>2, <3>2, <3>3 DEF v
  <2>4. CASE ~needed
    <3>1. Settled(w, needed) = Tail(w)
      BY <1>1, <2>1, <2>4, ConcatEmptySeq DEF Settled
    <3> QED
      BY <2>2, <3>1
  <2> QED
    BY <2>3, <2>4
<1>2. CASE ~(w # <<>> /\ Head(w) = ClockIfNeeded)
  BY <1>2 DEF Settled
<1> QED
  BY <1>1, <1>2

AnswerKinds == {"cloud", "local"}

LEMMA CountedInWorkNext ==
  (\A t, kind, r : InWork(t, kind, r) = CountOf(work[t], {[kind |-> kind, rec |-> r]}))'
  BY CountedInWork, PTL

LEMMA AnswerIsNoClock ==
  \A kind \in AnswerKinds : \A r : /\ [kind |-> kind, rec |-> r] # Clock
                                   /\ [kind |-> kind, rec |-> r] # ClockIfNeeded
  BY DEF AnswerKinds, Clock, ClockIfNeeded

\* A task that keeps its work keeps its claims; one without work has none.
LEMMA SameWorkClaims ==
  ASSUME NEW t, work'[t] = work[t], NEW kind, NEW r
  PROVE  InWork(t, kind, r)' = InWork(t, kind, r)
  BY CountedInWork, CountedInWorkNext

LEMMA NoWorkClaims ==
  /\ \A t, kind, r : work[t] = <<>> => InWork(t, kind, r) = 0
  /\ \A t, kind, r : work'[t] = <<>> => InWork(t, kind, r)' = 0
  BY CountedInWork, CountedInWorkNext, CountEmpty

LEMMA GoOnClaims ==
  ASSUME TasksType, NEW t \in Tasks, NEW w \in Seq(Items), NEW needed \in BOOLEAN,
         work'[t] = Settled(w, needed), NEW kind \in AnswerKinds, NEW r
  PROVE  InWork(t, kind, r)' = CountOf(w, {[kind |-> kind, rec |-> r]})
<1> DEFINE x == [kind |-> kind, rec |-> r]
<1>1. x # Clock /\ x # ClockIfNeeded
  BY AnswerIsNoClock
<1>2. InWork(t, kind, r)' = CountOf(work'[t], {x})
  BY CountedInWorkNext
<1> HIDE DEF x
<1>3. CountOf(Settled(w, needed), {x}) = CountOf(w, {x})
  BY <1>1, SettledCount
<1> QED
  BY <1>2, <1>3 DEF x

LEMMA SingleCount ==
  ASSUME NEW S, NEW y \in S, NEW x
  PROVE  CountOf(<<y>>, {x}) = IF x = y THEN 1 ELSE 0
<1>1. /\ <<>> \in Seq(S) /\ Append(<<>>, y) = <<y>>
  OBVIOUS
<1>2. CountOf(Append(<<>>, y), {x}) = CountOf(<<>>, {x}) + IF y \in {x} THEN 1 ELSE 0
  BY <1>1, CountAppend
<1> QED
  BY <1>1, <1>2, CountEmpty

\* A hand-over claims each outstanding record once, and the record whose receipt
\* made it happen.
LEMMA HandedOverCount ==
  ASSUME NEW s \in Seq(Records), Distinct(s), NEW extra \in Seq(Items),
         extra = <<>> \/ \E y \in Items : extra = <<y>>, NEW r \in Records
  PROVE  /\ CountOf(HandedOver(s, extra), {LocalReply(r)})
              = (IF r \in ToSet(s) THEN 1 ELSE 0) + CountOf(extra, {LocalReply(r)})
         /\ CountOf(HandedOver(s, extra), {Relayed(r)}) = CountOf(extra, {Relayed(r)})
<1> DEFINE a == [i \in 1..Len(s) |-> LocalReply(s[i])]
           c == Append(a, ClockIfNeeded)
           h == HandedOver(s, extra)
<1>1. a \in Seq(Items) /\ Len(a) = Len(s) /\ DOMAIN a = 1..Len(s)
      /\ \A i \in 1..Len(s) : a[i] = LocalReply(s[i])
  BY ItemTypes, IsASeq
<1>2. h = (a \o <<ClockIfNeeded>>) \o extra
  <2>1. DOMAIN s = 1..Len(s)
    OBVIOUS
  <2> QED
    BY <2>1 DEF HandedOver
<1> HIDE DEF a, h
<1>3. c \in Seq(Items) /\ c = a \o <<ClockIfNeeded>>
  BY <1>1, ItemTypes
<1>4. \A x : CountOf(c, {x}) = CountOf(a, {x}) + IF ClockIfNeeded \in {x} THEN 1 ELSE 0
  BY <1>1, ItemTypes, CountAppend
<1> HIDE DEF c
<1>5. ASSUME NEW x PROVE CountOf(c \o extra, {x}) = CountOf(c, {x}) + CountOf(extra, {x})
  <2>0. CountOf(c, {x}) \in Nat
    BY <1>3, CountType
  <2>1. CASE extra = <<>>
    <3>1. c \o extra = c
      BY <1>3, <2>1, ConcatEmptySeq
    <3>2. CountOf(extra, {x}) = 0
      BY <2>1, CountEmpty
    <3> QED
      BY <2>0, <3>1, <3>2
  <2>2. CASE extra # <<>>
    <3>1. PICK y \in Items : extra = <<y>>
      BY <2>2
    <3>2. c \o <<y>> = Append(c, y)
      BY <1>3, <3>1
    <3>3. CountOf(Append(c, y), {x}) = CountOf(c, {x}) + IF y \in {x} THEN 1 ELSE 0
      BY <1>3, <3>1, CountAppend
    <3>4. CountOf(<<y>>, {x}) = IF x = y THEN 1 ELSE 0
      BY <3>1, SingleCount
    <3>5. CountOf(c \o extra, {x}) = CountOf(Append(c, y), {x})
          /\ CountOf(extra, {x}) = CountOf(<<y>>, {x})
      BY <3>1, <3>2
    <3> QED
      BY <2>0, <3>3, <3>4, <3>5
  <2> QED
    BY <2>1, <2>2
<1>6. CountOf(a, {LocalReply(r)}) = IF r \in ToSet(s) THEN 1 ELSE 0
  <2> DEFINE P == {i \in DOMAIN a : a[i] \in {LocalReply(r)}}
  <2>1. P = {i \in 1..Len(s) : s[i] = r}
    <3>1. \A q : LocalReply(q) = LocalReply(r) => q = r
      BY DEF LocalReply
    <3> QED
      BY <1>1, <3>1
  <2>2. CASE r \in ToSet(s)
    <3>1. PICK k \in 1..Len(s) : s[k] = r
      BY <2>2 DEF ToSet
    <3>2. P = {k}
      BY <2>1, <3>1 DEF Distinct
    <3> QED
      BY <2>2, <3>2, FS_Singleton DEF CountOf
  <2>3. CASE r \notin ToSet(s)
    <3>1. P = {}
      BY <2>1, <2>3 DEF ToSet
    <3> QED
      BY <2>3, <3>1, FS_EmptySet DEF CountOf
  <2> QED
    BY <2>2, <2>3
<1>7. CountOf(a, {Relayed(r)}) = 0
  <2>1. {i \in DOMAIN a : a[i] \in {Relayed(r)}} = {}
    BY <1>1 DEF LocalReply, Relayed
  <2> QED
    BY <2>1, FS_EmptySet DEF CountOf
<1>8. ClockIfNeeded \notin {LocalReply(r)} /\ ClockIfNeeded \notin {Relayed(r)}
  BY DEF LocalReply, Relayed, ClockIfNeeded
<1>9. CountOf(extra, {LocalReply(r)}) \in Nat /\ CountOf(extra, {Relayed(r)}) \in Nat
  BY CountType
<1>10. h = c \o extra
  BY <1>2, <1>3
<1> DEFINE x == LocalReply(r)
           y == Relayed(r)
<1>11. CountOf(h, {x}) = CountOf(c, {x}) + CountOf(extra, {x})
       /\ CountOf(h, {y}) = CountOf(c, {y}) + CountOf(extra, {y})
  BY <1>5, <1>10
<1> HIDE DEF x, y
<1>12. CountOf(c, {x}) = CountOf(a, {x}) + IF ClockIfNeeded \in {x} THEN 1 ELSE 0
  BY <1>4
<1>13. CountOf(c, {y}) = CountOf(a, {y}) + IF ClockIfNeeded \in {y} THEN 1 ELSE 0
  BY <1>4
<1>14. CountOf(h, {x}) = (IF r \in ToSet(s) THEN 1 ELSE 0) + CountOf(extra, {x})
  BY <1>6, <1>8, <1>11, <1>12 DEF x
<1>15. CountOf(h, {y}) = CountOf(extra, {y})
  BY <1>7, <1>8, <1>9, <1>11, <1>13 DEF y
<1> QED
  BY <1>14, <1>15 DEF h, x, y

-----------------------------------------------------------------------------
(* What the steps do to the claims.                                         *)

SameInWork ==
  \A t \in Tasks, kind \in AnswerKinds, r \in Records : InWork(t, kind, r)' = InWork(t, kind, r)

LEMMA SameClaims ==
  ASSUME SameInWork
  PROVE  Claims' = Claims /\ \A o \in Owners, r \in Records : ClaimedBy(o, r)' = ClaimedBy(o, r)
<1>1. \A o \in Owners, r \in Records : ClaimedBy(o, r)' = ClaimedBy(o, r)
  BY DEF SameInWork, ClaimedBy, Tasks, AnswerKinds
<1> QED
  BY <1>1, ClaimsAre, ClaimsAreNext

LEMMA PlainClaims == UNCHANGED work => SameInWork
  BY SameWorkClaims DEF SameInWork

\* A task that had nothing to send and still has nothing.
LEMMA IdleClaims ==
  ASSUME TasksType, NEW t \in Tasks, work[t] = <<>>, work' = [work EXCEPT ![t] = <<>>]
  PROVE  SameInWork
<1>1. \A u \in Tasks : work'[u] = work[u]
  BY DEF TasksType
<1> QED
  BY <1>1, SameWorkClaims DEF SameInWork

LEMMA HandOverClaims ==
  ASSUME TypeOK, AwaitingBounded, NEW t \in Tasks, NEW needed \in BOOLEAN,
         NEW extra \in Seq(Items), extra = <<>> \/ \E y \in Items : extra = <<y>>,
         HandOver(t, extra, needed), NEW r \in Records
  PROVE  /\ InWork(t, "local", r)'
              = (IF r \in ToSet(awaiting) THEN 1 ELSE 0) + CountOf(extra, {LocalReply(r)})
         /\ InWork(t, "cloud", r)' = CountOf(extra, {Relayed(r)})
         /\ \A u \in Tasks \ {t}, kind \in AnswerKinds : InWork(u, kind, r)' = InWork(u, kind, r)
<1> DEFINE w == HandedOver(awaiting, extra)
<1>1. TasksType /\ awaiting \in Seq(Records) /\ Distinct(awaiting) /\ w \in Seq(Items)
  BY HandedOverItems DEF TypeOK, SessionType, AwaitingBounded
<1>2. GoOn(t, w, "fallback", needed, FALSE)
  BY DEF HandOver, HandedOver
<1>3. /\ CountOf(w, {LocalReply(r)})
           = (IF r \in ToSet(awaiting) THEN 1 ELSE 0) + CountOf(extra, {LocalReply(r)})
      /\ CountOf(w, {Relayed(r)}) = CountOf(extra, {Relayed(r)})
  BY <1>1, HandedOverCount
<1> HIDE DEF w
<1>4. work'[t] = Settled(w, needed) /\ \A u \in Tasks \ {t} : work'[u] = work[u]
  BY <1>1, <1>2 DEF GoOn, TasksType
<1>5. \A kind \in AnswerKinds : InWork(t, kind, r)' = CountOf(w, {[kind |-> kind, rec |-> r]})
  BY <1>1, <1>4, GoOnClaims
<1>6. "local" \in AnswerKinds /\ "cloud" \in AnswerKinds
  BY DEF AnswerKinds
<1> QED
  BY <1>3, <1>4, <1>5, <1>6, SameWorkClaims DEF LocalReply, Relayed

LEMMA SendBeginClaims ==
  ASSUME TypeOK, NEW t \in Tasks, SendBegin(t), NEW kind \in AnswerKinds, NEW r \in Records
  PROVE  /\ InWork(t, kind, r)
              = InWork(t, kind, r)' + IF Head(work[t]) = [kind |-> kind, rec |-> r] THEN 1 ELSE 0
         /\ \A u \in Tasks \ {t} : InWork(u, kind, r)' = InWork(u, kind, r)
<1> DEFINE x == [kind |-> kind, rec |-> r]
<1>1. /\ work[t] \in Seq(Items) /\ work[t] # <<>> /\ work'[t] = Tail(work[t])
      /\ \A u \in Tasks \ {t} : work'[u] = work[u]
  BY DEF SendBegin, TypeOK, TasksType
<1>2. InWork(t, kind, r) = CountOf(work[t], {x}) /\ InWork(t, kind, r)' = CountOf(work'[t], {x})
  BY CountedInWork, CountedInWorkNext
<1> HIDE DEF x
<1>3. CountOf(work[t], {x}) = CountOf(Tail(work[t]), {x}) + IF Head(work[t]) \in {x} THEN 1 ELSE 0
  BY <1>1, CountTail
<1>4. \A u \in Tasks \ {t} : InWork(u, kind, r)' = InWork(u, kind, r)
  BY <1>1, SameWorkClaims
<1> QED
  BY <1>1, <1>2, <1>3, <1>4 DEF x

LEMMA SendDoneClaims ==
  ASSUME TypeOK, NEW t \in Tasks, SendDone(t)
  PROVE  SameInWork
<1> DEFINE follow == IF sending.item.kind = "local" /\ sending.item.rec \in Announces
                     THEN <<Clock>> ELSE <<>>
           w == follow \o work[t]
<1>1. /\ work[t] \in Seq(Items) /\ TasksType /\ clockNeeded' \in BOOLEAN
      /\ work'[t] = Settled(w, clockNeeded')
      /\ \A u \in Tasks \ {t} : work'[u] = work[u]
  BY DEF SendDone, GoOn, TypeOK, TasksType, SessionType
<1>2. w \in Seq(Items)
        /\ \A x : x # Clock => CountOf(w, {x}) = CountOf(work[t], {x})
  <2>1. CASE follow = <<>>
    <3>1. w = work[t]
      BY <1>1, <2>1, ConcatEmptySeq
    <3> QED
      BY <1>1, <3>1
  <2>2. CASE follow = <<Clock>>
    <3>1. w \in Seq(Items)
      BY <1>1, <2>2, ItemTypes
    <3>2. ASSUME NEW x, x # Clock PROVE CountOf(w, {x}) = CountOf(work[t], {x})
      <4> DEFINE v == work[t]
      <4>1. v \in Seq(Items) /\ CountOf(v, {x}) \in Nat
        BY <1>1, CountType
      <4> HIDE DEF v
      <4>2. CountOf(<<Clock>> \o v, {x}) = CountOf(v, {x}) + IF Clock \in {x} THEN 1 ELSE 0
        BY <4>1, ItemTypes, CountPrepend
      <4>3. CountOf(<<Clock>> \o v, {x}) = CountOf(v, {x})
        BY <3>2, <4>1, <4>2
      <4> QED
        BY <2>2, <4>3 DEF v
    <3> QED
      BY <3>1, <3>2
  <2> QED
    BY <2>1, <2>2
<1> HIDE DEF w
<1>3. ASSUME NEW kind \in AnswerKinds, NEW r \in Records
      PROVE  InWork(t, kind, r)' = InWork(t, kind, r)
  <2> DEFINE x == [kind |-> kind, rec |-> r]
  <2>1. InWork(t, kind, r)' = CountOf(w, {x})
    BY <1>1, <1>2, GoOnClaims
  <2>3. InWork(t, kind, r) = CountOf(work[t], {x})
    BY CountedInWork
  <2>2. x # Clock
    BY AnswerIsNoClock
  <2> HIDE DEF x
  <2> QED
    BY <1>2, <2>1, <2>2, <2>3
<1> QED
  BY <1>1, <1>3, SameWorkClaims DEF SameInWork

\* A task that goes on with a single item.
LEMMA SingleClaims ==
  ASSUME TypeOK, NEW t \in Tasks, work[t] = <<>>, NEW x \in Items, x # ClockIfNeeded,
         NEW needed \in BOOLEAN, NEW place, NEW isCloud, GoOn(t, <<x>>, place, needed, isCloud),
         NEW kind \in AnswerKinds, NEW r \in Records
  PROVE  /\ InWork(t, kind, r)' = InWork(t, kind, r)
                                    + IF x = [kind |-> kind, rec |-> r] THEN 1 ELSE 0
         /\ \A u \in Tasks \ {t} : InWork(u, kind, r)' = InWork(u, kind, r)
<1> DEFINE w == <<x>>
           y == [kind |-> kind, rec |-> r]
<1>0. TasksType /\ w \in Seq(Items)
  BY DEF TypeOK
<1>1. CountOf(w, {y}) = IF y = x THEN 1 ELSE 0
  BY SingleCount
<1>2. GoOn(t, w, place, needed, isCloud)
  OBVIOUS
<1> HIDE DEF w
<1>3. work'[t] = Settled(w, needed) /\ \A u \in Tasks \ {t} : work'[u] = work[u]
  BY <1>0, <1>2 DEF GoOn, TasksType
<1>4. InWork(t, kind, r)' = CountOf(w, {y}) /\ InWork(t, kind, r) = 0
  BY <1>0, <1>3, GoOnClaims, NoWorkClaims
<1>5. \A u \in Tasks \ {t} : InWork(u, kind, r)' = InWork(u, kind, r)
  BY <1>3, SameWorkClaims
<1> QED
  BY <1>1, <1>4, <1>5

\* Writing an answer turns a claim into an answer; writing a clock does neither.
LEMMA SendBeginAnswers ==
  ASSUME TypeOK, WorkShape, NEW t \in Tasks, SendBegin(t)
  PROVE  \/ SameInWork /\ UNCHANGED answers
         \/ \E o \in Owners, q \in Records :
              /\ ClaimedBy(o, q) > 0
              /\ answers' = [answers EXCEPT ![o][q] = @ + 1]
              /\ \A p \in Owners, r \in Records :
                   ClaimedBy(p, r)' = IF p = o /\ r = q THEN ClaimedBy(o, q) - 1 ELSE ClaimedBy(p, r)
<1> DEFINE item == Head(work[t])
           o == IF item.kind = "cloud" THEN "cloud" ELSE "local"
           q == item.rec
<1>1. /\ work[t] \in Seq(Items) /\ work[t] # <<>> /\ item \in Items /\ Fits(item, Relaying(t))
  BY TailProper DEF SendBegin, TypeOK, TasksType, WorkShape, TaskShape
<1>2. answers' = IF q \in Records THEN [answers EXCEPT ![o][q] = @ + 1] ELSE answers
  BY DEF SendBegin
<1>3. item = [kind |-> item.kind, rec |-> q] /\ item.kind \in {"cloud", "local", "clock", "check"}
  BY <1>1 DEF Items
<1>4. \A kind \in AnswerKinds, r \in Records :
        /\ InWork(t, kind, r)
              = InWork(t, kind, r)' + IF item = [kind |-> kind, rec |-> r] THEN 1 ELSE 0
        /\ \A u \in Tasks \ {t} : InWork(u, kind, r)' = InWork(u, kind, r)
  BY SendBeginClaims
<1>5. \A u \in Tasks : \A kind, r : InWork(u, kind, r) \in Nat /\ InWork(u, kind, r)' \in Nat
  <2>1. \A u \in Tasks : \A kind, r : InWork(u, kind, r) \in Nat
    BY CountedInWork, CountType DEF TypeOK, TasksType
  <2>2. ASSUME NEW u \in Tasks, NEW kind, NEW r PROVE InWork(u, kind, r)' \in Nat
    <3>1. work'[u] \in Seq(Items)
      BY <1>1 DEF SendBegin, TypeOK, TasksType
    <3> QED
      BY <3>1, CountedInWorkNext, CountType
  <2> QED
    BY <2>1, <2>2
<1> HIDE DEF item, o, q
<1>6. CASE q \in Records /\ item.kind \in AnswerKinds
  <2>1. o = item.kind /\ o \in Owners /\ (o = "cloud" => t = "cloud")
    BY <1>1, <1>6 DEF o, AnswerKinds, Owners, Fits, Relaying
  <2>2. \A kind \in AnswerKinds, r \in Records :
          item = [kind |-> kind, rec |-> r] <=> kind = o /\ r = q
    BY <1>3, <2>1
  <2>3. \A kind \in AnswerKinds, r \in Records :
          InWork(t, kind, r)' = IF kind = o /\ r = q THEN InWork(t, kind, r) - 1 ELSE InWork(t, kind, r)
    BY <1>4, <1>5, <2>2
  <2>4. InWork(t, o, q) > 0
    BY <1>4, <1>5, <1>6, <2>1, <2>2
  <2>5. ASSUME NEW p \in Owners, NEW r \in Records
        PROVE  ClaimedBy(p, r)' = IF p = o /\ r = q THEN ClaimedBy(o, q) - 1 ELSE ClaimedBy(p, r)
    <3>1. "local" \in AnswerKinds /\ "cloud" \in AnswerKinds
      BY DEF AnswerKinds
    <3>2. CASE t = "cloud"
      BY <1>4, <1>5, <2>1, <2>3, <3>1, <3>2 DEF ClaimedBy, Owners, Tasks
    <3>3. CASE t = "device"
      BY <1>4, <1>5, <2>1, <2>3, <3>1, <3>3 DEF ClaimedBy, Owners, Tasks
    <3>4. CASE t = "deadline"
      BY <1>4, <1>5, <2>1, <2>3, <3>1, <3>4 DEF ClaimedBy, Owners, Tasks
    <3> QED
      BY <3>2, <3>3, <3>4 DEF Tasks
  <2>6. ClaimedBy(o, q) > 0
    BY <1>5, <2>1, <2>4 DEF ClaimedBy, Owners, Tasks
  <2> QED
    BY <1>2, <1>6, <2>1, <2>5, <2>6
<1>7. CASE ~(q \in Records /\ item.kind \in AnswerKinds)
  <2>1. q \notin Records
    BY <1>1, <1>3, <1>7, SessionAssumption DEF Fits, AnswerKinds, q
  <2>2. \A kind \in AnswerKinds, r \in Records : item # [kind |-> kind, rec |-> r]
    BY <1>3, <2>1
  <2>3. \A kind \in AnswerKinds, r \in Records : InWork(t, kind, r)' = InWork(t, kind, r)
    BY <1>4, <1>5, <2>2
  <2>4. SameInWork
    BY <1>4, <2>3 DEF SameInWork
  <2> QED
    BY <1>2, <2>1, <2>4
<1> QED
  BY <1>6, <1>7

-----------------------------------------------------------------------------
(* Steps of AckOwnership.                                                   *)

LEMMA StutterStep ==
  ASSUME SameInWork, Owner' = Owner, Owed' = Owed, UNCHANGED <<received, answers>>
  PROVE  UNCHANGED Ownership!vars
  BY SameClaims DEF Ownership!vars

LEMMA CloseStep ==
  ASSUME TypeOK, open, ~open', \A t \in Tasks : work'[t] = <<>>, UNCHANGED answers,
         NEW extra \in {{}} \cup {{r} : r \in Records}, received' = Ownership!PlusReceipts(extra)
  PROVE  Ownership!Next
<1>1. Owner # "closed" /\ Owner' = "closed" /\ Owed' = {}
  BY DEF Owner, Owed
<1>2. Claims' = [o \in Owners |-> None]
  <2>1. \A o \in Owners, r \in Records : ClaimedBy(o, r)' = 0
    BY NoWorkClaims DEF ClaimedBy, Tasks
  <2> QED
    BY <2>1, ClaimsAreNext DEF None
<1>3. Ownership!Close(extra)
  BY <1>1, <1>2 DEF Ownership!Close, Ownership!None, Ownership!Owners, None, Owners
<1> QED
  BY <1>3 DEF Ownership!Next

LEMMA NoReceipts == TypeOK => received = Ownership!PlusReceipts({})
  BY DEF Ownership!PlusReceipts, TypeOK, HistoryType

LEMMA OneReceipt ==
  ASSUME TypeOK, NEW r \in Records, received' = [received EXCEPT ![r] = @ + 1]
  PROVE  received' = Ownership!PlusReceipts({r})
  BY DEF Ownership!PlusReceipts, TypeOK, HistoryType

LEMMA LocalClaimsChange ==
  ASSUME NEW h, \A r \in Records : ClaimedBy("cloud", r)' = ClaimedBy("cloud", r),
         [r \in Records |-> ClaimedBy("local", r)'] = h
  PROVE  Claims' = [Claims EXCEPT !["local"] = h]
<1> DEFINE f == [p \in Owners |-> [q \in Records |-> ClaimedBy(p, q)]]
           g == [p \in Owners |-> [q \in Records |-> ClaimedBy(p, q)']]
<1>1. Claims = f /\ Claims' = g
  BY ClaimsAre, ClaimsAreNext
<1>2. ASSUME NEW p \in Owners PROVE g[p] = [f EXCEPT !["local"] = h][p]
  <2>1. CASE p = "local"
    BY <2>1
  <2>2. CASE p = "cloud"
    BY <2>2
  <2> QED
    BY <2>1, <2>2 DEF Owners
<1>3. g = [f EXCEPT !["local"] = h]
  BY <1>2
<1> QED
  BY <1>1, <1>3

LEMMA HandOverStep ==
  ASSUME TypeOK, AwaitingBounded, ConnectingIsFirst, WorkShape, FallbackShape, open, ~Connecting,
         NEW t \in Tasks, work[t] = <<>>, NEW needed \in BOOLEAN, NEW extra \in Seq(Items),
         HandOver(t, extra, needed), UNCHANGED answers,
         NEW E \in {{}} \cup {{r} : r \in Records}, received' = Ownership!PlusReceipts(E),
         extra = <<>> \/ \E y \in Items : extra = <<y>>,
         \A r \in Records : /\ CountOf(extra, {LocalReply(r)}) = IF r \in E THEN 1 ELSE 0
                            /\ CountOf(extra, {Relayed(r)}) = 0
  PROVE  Ownership!Next
<1>1. Owner = "cloud" /\ Owed = ToSet(awaiting) /\ Owner' = "local" /\ Owed' = {}
  BY DEF HandOver, Owner, Owed, FallbackShape
<1>2. ASSUME NEW r \in Records
      PROVE  /\ InWork(t, "local", r)' = (IF r \in Owed THEN 1 ELSE 0) + (IF r \in E THEN 1 ELSE 0)
             /\ InWork(t, "cloud", r)' = 0
             /\ \A u \in Tasks \ {t}, kind \in AnswerKinds : InWork(u, kind, r)' = InWork(u, kind, r)
  <2> DEFINE x == LocalReply(r)
             y == Relayed(r)
  <2>1. CountOf(extra, {x}) = (IF r \in E THEN 1 ELSE 0) /\ CountOf(extra, {y}) = 0
    OBVIOUS
  <2>2. /\ InWork(t, "local", r)' = (IF r \in ToSet(awaiting) THEN 1 ELSE 0) + CountOf(extra, {x})
        /\ InWork(t, "cloud", r)' = CountOf(extra, {y})
        /\ \A u \in Tasks \ {t}, kind \in AnswerKinds : InWork(u, kind, r)' = InWork(u, kind, r)
    BY HandOverClaims, ZenonT(60)
  <2> HIDE DEF x, y
  <2>3. InWork(t, "local", r)' = (IF r \in Owed THEN 1 ELSE 0) + (IF r \in E THEN 1 ELSE 0)
    BY <1>1, <2>1, <2>2
  <2>4. InWork(t, "cloud", r)' = 0
    BY <2>1, <2>2
  <2> QED
    BY <2>2, <2>3, <2>4
<1>3. \A r : InWork(t, "local", r) = 0 /\ InWork(t, "cloud", r) = 0
  BY NoWorkClaims
<1>4. \A u \in Tasks : \A kind, r : InWork(u, kind, r) \in Nat
  BY CountedInWork, CountType DEF TypeOK, TasksType
<1>5. "local" \in AnswerKinds /\ "cloud" \in AnswerKinds
  BY DEF AnswerKinds
<1>6. ASSUME NEW r \in Records
      PROVE  /\ ClaimedBy("cloud", r)' = ClaimedBy("cloud", r)
             /\ ClaimedBy("local", r)' = ClaimedBy("local", r) + (IF r \in Owed THEN 1 ELSE 0)
                                           + (IF r \in E THEN 1 ELSE 0)
  <2> DEFINE a == IF r \in Owed THEN 1 ELSE 0
             b == IF r \in E THEN 1 ELSE 0
  <2>1. a \in Nat /\ b \in Nat
    OBVIOUS
  <2>2. InWork(t, "local", r)' = a + b /\ InWork(t, "cloud", r)' = 0
    BY <1>2
  <2>3. /\ \A u \in Tasks \ {t} : InWork(u, "local", r)' = InWork(u, "local", r)
        /\ \A u \in Tasks \ {t} : InWork(u, "cloud", r)' = InWork(u, "cloud", r)
    BY <1>2, <1>5
  <2>4. \A u \in Tasks : InWork(u, "local", r) \in Nat
    BY <1>4
  <2>5. \A i, j, m, n \in Nat : /\ (m + n) + i + j = 0 + i + j + m + n
                                /\ i + (m + n) + j = i + 0 + j + m + n
                                /\ i + j + (m + n) = i + j + 0 + m + n
    OBVIOUS
  <2> HIDE DEF a, b
  <2>6. ClaimedBy("cloud", r)' = ClaimedBy("cloud", r)
    BY <1>3, <2>2, <2>3 DEF ClaimedBy, Tasks
  <2>7. ClaimedBy("local", r)' = ClaimedBy("local", r) + a + b
    <3>1. /\ ClaimedBy("local", r) = InWork("device", "local", r) + InWork("cloud", "local", r)
                                       + InWork("deadline", "local", r)
          /\ ClaimedBy("local", r)' = InWork("device", "local", r)' + InWork("cloud", "local", r)'
                                       + InWork("deadline", "local", r)'
      BY DEF ClaimedBy
    <3> DEFINE k == InWork("device", "local", r)
               l == InWork("cloud", "local", r)
               m == InWork("deadline", "local", r)
    <3>0. k \in Nat /\ l \in Nat /\ m \in Nat
      BY <2>4 DEF Tasks
    <3>2. CASE t = "device"
      <4>1. k = 0 /\ k' = a + b /\ l' = l /\ m' = m
        BY <1>3, <2>2, <2>3, <3>2 DEF Tasks
      <4> HIDE DEF k, l, m
      <4> QED
        BY <2>1, <2>5, <3>0, <3>1, <4>1 DEF k, l, m
    <3>3. CASE t = "cloud"
      <4>1. l = 0 /\ l' = a + b /\ k' = k /\ m' = m
        BY <1>3, <2>2, <2>3, <3>3 DEF Tasks
      <4> QED
        BY <2>1, <2>5, <3>0, <3>1, <4>1
    <3>4. CASE t = "deadline"
      <4>1. m = 0 /\ m' = a + b /\ k' = k /\ l' = l
        BY <1>3, <2>2, <2>3, <3>4 DEF Tasks
      <4> QED
        BY <2>1, <2>5, <3>0, <3>1, <4>1
    <3> QED
      BY <3>2, <3>3, <3>4 DEF Tasks
  <2> QED
    BY <2>6, <2>7 DEF a, b
<1> DEFINE h == [r \in Records |-> Claims["local"][r] + (IF r \in Owed THEN 1 ELSE 0)
                                                      + (IF r \in E THEN 1 ELSE 0)]
<1>7. [r \in Records |-> ClaimedBy("local", r)'] = h
  <2>1. \A r \in Records : Claims["local"][r] = ClaimedBy("local", r)
    BY ClaimsAre DEF Owners
  <2> QED
    BY <1>6, <2>1
<1>8. Claims' = [Claims EXCEPT !["local"] = h]
  BY <1>6, <1>7, LocalClaimsChange
<1>9. Ownership!HandOver(E)
  BY <1>1, <1>8 DEF Ownership!HandOver
<1> QED
  BY <1>9 DEF Ownership!Next

-----------------------------------------------------------------------------
(* The cloud is held to account.                                            *)

\* An acknowledgement of the cloud names a record.
AckFrames == \A i \in DOMAIN fromCloud : fromCloud[i].kind = "ack" => fromCloud[i].rec \in Records

FramesAbout(r) == CountOf(fromCloud, {f \in CloudFrames : f.rec = r})
Promised(r) == ClaimedBy("cloud", r) + ClaimedBy("local", r)
                 + answers["cloud"][r] + answers["local"][r]

\* As long as the cloud answers, every receipt stands for at most one answer:
\* decided or written, on its way from the cloud, or still to come from there.
CloudIsAccountable ==
  cloud \/ Connecting =>
    \A r \in Records : Promised(r) + atCloud[r] + FramesAbout(r) <= received[r]

\* The cloud task and the deadline task answer locally once: in the hand-over
\* they make.
OnceAnswered == \A t \in Tasks \ {"device"}, r \in Records : InWork(t, "local", r) <= 1

LEMMA PromisedType ==
  TypeOK => \A r \in Records : /\ Promised(r) \in Nat /\ FramesAbout(r) \in Nat
                               /\ atCloud[r] \in Nat /\ received[r] \in Nat
<1> SUFFICES ASSUME TypeOK, NEW r \in Records
             PROVE  /\ Promised(r) \in Nat /\ FramesAbout(r) \in Nat
                    /\ atCloud[r] \in Nat /\ received[r] \in Nat
  OBVIOUS
<1>1. "cloud" \in Owners /\ "local" \in Owners
  BY DEF Owners
<1>2. ClaimedBy("cloud", r) \in Nat /\ ClaimedBy("local", r) \in Nat
  BY <1>1, ClaimsType DEF TypeOK
<1>3. answers["cloud"][r] \in Nat /\ answers["local"][r] \in Nat
  BY <1>1 DEF TypeOK, HistoryType
<1>4. FramesAbout(r) \in Nat
  BY CountType DEF FramesAbout, TypeOK, EnvironmentType
<1>5. Promised(r) \in Nat
  <2> HIDE DEF ClaimedBy
  <2> QED
    BY <1>2, <1>3 DEF Promised
<1> QED
  BY <1>4, <1>5 DEF TypeOK, EnvironmentType, HistoryType

LEMMA SamePromise ==
  ASSUME SameInWork, UNCHANGED answers
  PROVE  \A r \in Records : Promised(r)' = Promised(r)
<1>1. \A r \in Records : ClaimedBy("cloud", r)' = ClaimedBy("cloud", r)
                         /\ ClaimedBy("local", r)' = ClaimedBy("local", r)
  BY SameClaims DEF Owners
<1> QED
  BY <1>1 DEF Promised

\* A step that changes no count keeps the account.
LEMMA SameAccount ==
  ASSUME CloudIsAccountable, SameInWork, UNCHANGED <<answers, atCloud, fromCloud, received>>,
         cloud' => cloud \/ Connecting, Connecting' => Connecting
  PROVE  CloudIsAccountable'
<1>1. \A r \in Records : Promised(r)' = Promised(r) /\ FramesAbout(r)' = FramesAbout(r)
  BY SamePromise DEF FramesAbout
<1> QED
  BY <1>1 DEF CloudIsAccountable

\* Reading a frame, or its arrival, moves it out of, or into, the account.
LEMMA FrameRead ==
  ASSUME TypeOK, fromCloud # <<>>, fromCloud' = Tail(fromCloud)
  PROVE  \A r \in Records :
           /\ FramesAbout(r) = FramesAbout(r)' + IF Head(fromCloud).rec = r THEN 1 ELSE 0
           /\ FramesAbout(r)' \in Nat
<1> SUFFICES ASSUME NEW r \in Records
             PROVE  /\ FramesAbout(r) = FramesAbout(r)' + IF Head(fromCloud).rec = r THEN 1 ELSE 0
                    /\ FramesAbout(r)' \in Nat
  OBVIOUS
<1> DEFINE X == {f \in CloudFrames : f.rec = r}
<1>1. fromCloud \in Seq(CloudFrames) /\ Head(fromCloud) \in CloudFrames
      /\ Tail(fromCloud) \in Seq(CloudFrames)
  BY DEF TypeOK, EnvironmentType
<1>2. Head(fromCloud) \in X <=> Head(fromCloud).rec = r
  BY <1>1
<1>3. FramesAbout(r) = CountOf(fromCloud, X) /\ FramesAbout(r)' = CountOf(Tail(fromCloud), X)
  BY DEF FramesAbout
<1> HIDE DEF X
<1>4. CountOf(fromCloud, X) = CountOf(Tail(fromCloud), X) + IF Head(fromCloud) \in X THEN 1 ELSE 0
  BY <1>1, CountTail
<1>5. CountOf(Tail(fromCloud), X) \in Nat
  BY <1>1, CountType
<1> QED
  BY <1>2, <1>3, <1>4, <1>5

LEMMA FrameSent ==
  ASSUME TypeOK, NEW f \in CloudFrames, fromCloud' = Append(fromCloud, f)
  PROVE  \A r \in Records :
           FramesAbout(r)' = FramesAbout(r) + IF f.rec = r THEN 1 ELSE 0
<1> SUFFICES ASSUME NEW r \in Records
             PROVE  FramesAbout(r)' = FramesAbout(r) + IF f.rec = r THEN 1 ELSE 0
  OBVIOUS
<1> DEFINE X == {g \in CloudFrames : g.rec = r}
<1>1. fromCloud \in Seq(CloudFrames) /\ (f \in X <=> f.rec = r)
  BY DEF TypeOK, EnvironmentType
<1>2. FramesAbout(r) = CountOf(fromCloud, X) /\ FramesAbout(r)' = CountOf(Append(fromCloud, f), X)
  BY DEF FramesAbout
<1> HIDE DEF X
<1>3. CountOf(Append(fromCloud, f), X) = CountOf(fromCloud, X) + IF f \in X THEN 1 ELSE 0
  BY <1>1, CountAppend
<1> QED
  BY <1>1, <1>2, <1>3

\* Relaying an acknowledgement claims its record for the cloud.
LEMMA CloudFrameClaims ==
  ASSUME TypeOK, WorkShape, AckFrames, CloudFrame
  PROVE  \/ Head(fromCloud).kind # "ack" /\ SameInWork
         \/ /\ Head(fromCloud).kind = "ack" /\ Head(fromCloud).rec \in Records
            /\ \A o \in Owners, r \in Records :
                 ClaimedBy(o, r)' = IF o = "cloud" /\ r = Head(fromCloud).rec
                                    THEN ClaimedBy(o, r) + 1 ELSE ClaimedBy(o, r)
            /\ \A t \in Tasks, r \in Records : InWork(t, "local", r)' = InWork(t, "local", r)
<1> DEFINE f == Head(fromCloud)
           rec == IF f.kind = "ack" THEN f.rec ELSE NoRecord
           x == Relayed(rec)
<1>1. /\ fromCloud \in Seq(CloudFrames) /\ fromCloud # <<>> /\ f \in CloudFrames
      /\ f.kind = "ack" => f.rec \in Records
  BY DEF CloudFrame, CloudTaskReads, TypeOK, EnvironmentType, AckFrames
<1>2. GoOn("cloud", <<x>>, "relay", FALSE, TRUE) /\ "cloud" \in Tasks
  BY DEF CloudFrame, Tasks
<1>3. x \in Items /\ x # ClockIfNeeded
  <2>1. rec \in Records \cup {NoRecord}
    BY <1>1
  <2> HIDE DEF rec
  <2> QED
    BY <2>1, ItemTypes DEF Relayed, ClockIfNeeded
<1>4. work["cloud"] = <<>>
  BY <1>2 DEF CloudFrame, CloudTaskReads, WorkShape, TaskShape, Awaits
<1> HIDE DEF x
<1>5. \A kind \in AnswerKinds, r \in Records :
        /\ InWork("cloud", kind, r)' = InWork("cloud", kind, r)
                                          + IF x = [kind |-> kind, rec |-> r] THEN 1 ELSE 0
        /\ \A u \in Tasks \ {"cloud"} : InWork(u, kind, r)' = InWork(u, kind, r)
  BY <1>2, <1>3, <1>4, SingleClaims
<1>6. \A kind \in AnswerKinds, r \in Records :
        x = [kind |-> kind, rec |-> r] <=> kind = "cloud" /\ r = rec
  BY DEF x, Relayed
<1>7. \A u \in Tasks : \A kind, r : InWork(u, kind, r) \in Nat
  BY CountedInWork, CountType DEF TypeOK, TasksType
<1>8. "cloud" \in AnswerKinds /\ "local" \in AnswerKinds
  BY DEF AnswerKinds
<1>9. CASE f.kind = "ack"
  <2>1. rec = f.rec
    BY <1>9
  <2>2. \A u \in Tasks, r \in Records : InWork(u, "local", r)' = InWork(u, "local", r)
    BY <1>5, <1>6, <1>7, <1>8
  <2>3. \A r \in Records :
          InWork("cloud", "cloud", r)' = InWork("cloud", "cloud", r) + IF r = f.rec THEN 1 ELSE 0
    BY <1>5, <1>6, <1>8, <2>1
  <2> HIDE DEF rec, f
  <2>4. ASSUME NEW o \in Owners, NEW r \in Records
        PROVE  ClaimedBy(o, r)' = IF o = "cloud" /\ r = f.rec
                                  THEN ClaimedBy(o, r) + 1 ELSE ClaimedBy(o, r)
    BY <1>2, <1>7, <2>2, <2>3 DEF ClaimedBy, Tasks
  <2> QED
    BY <1>1, <1>9, <2>2, <2>4 DEF f
<1>10. CASE f.kind # "ack"
  <2>1. rec \notin Records
    BY <1>10, SessionAssumption
  <2> HIDE DEF rec
  <2>2. \A kind \in AnswerKinds, r \in Records : x # [kind |-> kind, rec |-> r]
    BY <1>6, <2>1
  <2>3. SameInWork
    BY <1>5, <1>7, <1>2, <2>2 DEF SameInWork
  <2> QED
    BY <1>10, <2>3
<1> QED
  BY <1>9, <1>10

-----------------------------------------------------------------------------
(* What a step means to AckOwnership.                                       *)

\* The step is not about answers; frames of the cloud may arrive or be dropped.
Silent ==
  /\ SameInWork /\ UNCHANGED <<answers, received, Owner, Owed>>
  /\ cloud' => cloud
  /\ \A r \in Records : atCloud'[r] + FramesAbout(r)' <= atCloud[r] + FramesAbout(r)

\* The attempt to connect to the cloud is over.
Opened ==
  /\ Connecting /\ SameInWork /\ UNCHANGED <<answers, received, environment>>
  /\ Owner = "none" /\ Owner' \in Owners /\ Owed' = Owed

\* The session is over.
Closed ==
  /\ ~open' /\ ~cloud' /\ UNCHANGED answers
  /\ \A t \in Tasks : work'[t] = <<>>
  /\ \E extra \in {{}} \cup {{r} : r \in Records} : received' = Ownership!PlusReceipts(extra)

\* A task falls back, the device task perhaps on a receipt.
TakesOver ==
  /\ ~Connecting /\ UNCHANGED answers
  /\ \/ /\ \E t \in Tasks : work[t] = <<>> /\ HandOver(t, <<>>, clockNeeded)
        /\ UNCHANGED received
     \/ \E r \in Records : /\ work["device"] = <<>>
                           /\ HandOver("device", <<LocalReply(r)>>, DueAfter(r))
                           /\ received' = [received EXCEPT ![r] = @ + 1]

\* A failed write drops the local answers a task was still to write.
Dropped ==
  \E t \in Tasks \ {"device"} :
    /\ work' = [work EXCEPT ![t] = <<>>]
    /\ \A r \in Records : InWork(t, "cloud", r) = 0
    /\ UNCHANGED <<open, cloud, fellBack, awaiting, environment, received, answers>>

\* The account of the cloud, and what the tasks have to send.
Facts ==
  /\ TypeOK /\ AwaitingBounded /\ ConnectingIsFirst /\ WorkShape /\ FallbackShape
  /\ AckFrames /\ CloudIsAccountable /\ OnceAnswered

LEMMA SilentStep ==
  ASSUME TypeOK, SameInWork, UNCHANGED <<answers, received, environment, open, cloud, awaiting>>,
         UNCHANGED fellBack \/ (cloud /\ open)
  PROVE  Silent
<1>1. UNCHANGED <<Owner, Owed>>
  BY DEF Owner, Owed
<1>2. \A r \in Records : atCloud'[r] + FramesAbout(r)' <= atCloud[r] + FramesAbout(r)
  <2>1. \A r \in Records : atCloud[r] \in Nat /\ FramesAbout(r) \in Nat
    BY PromisedType
  <2>2. \A r \in Records : atCloud'[r] = atCloud[r] /\ FramesAbout(r)' = FramesAbout(r)
    BY DEF FramesAbout, environment
  <2> QED
    BY <2>1, <2>2
<1> QED
  BY <1>1, <1>2 DEF Silent

\* A step that keeps session and work.
LEMMA PlainStep ==
  ASSUME TypeOK, UNCHANGED <<session, work, answers, received>>,
         \A r \in Records : atCloud'[r] + FramesAbout(r)' <= atCloud[r] + FramesAbout(r)
  PROVE  Silent
<1>1. UNCHANGED <<Owner, Owed>> /\ (cloud' => cloud)
  BY DEF Owner, Owed, session
<1>2. SameInWork
  BY PlainClaims
<1> QED
  BY <1>1, <1>2 DEF Silent

LEMMA FallbackKinds ==
  ASSUME Facts, open, ~Connecting, NEW t \in Tasks, work[t] = <<>>, Fallback(t),
         UNCHANGED <<environment, received, answers>>
  PROVE  Silent \/ Closed \/ TakesOver
<1> USE DEF Facts
<1>1. CASE HandOver(t, <<>>, clockNeeded)
  BY <1>1 DEF TakesOver
<1>2. CASE Disconnect(t) /\ t = "device"
  <2>1. ~open' /\ ~cloud' /\ \A u \in Tasks : work'[u] = <<>>
    BY <1>2 DEF Disconnect
  <2>2. received' = Ownership!PlusReceipts({})
    BY NoReceipts
  <2> QED
    BY <2>1, <2>2 DEF Closed
<1>3. CASE Disconnect(t) /\ t # "device"
  <2>1. SameInWork
    BY <1>3, IdleClaims DEF Disconnect, TypeOK
  <2>2. UNCHANGED <<open, cloud, awaiting>> /\ cloud
    BY <1>3 DEF Disconnect, FallbackShape
  <2> QED
    BY <2>1, <2>2, SilentStep
<1>4. CASE AlreadyHandedOver(t)
  <2>1. work' = [work EXCEPT ![t] = <<>>] /\ UNCHANGED session
    BY <1>4 DEF AlreadyHandedOver, GoOn, Settled
  <2>2. SameInWork
    BY <2>1, IdleClaims DEF TypeOK
  <2> QED
    BY <2>1, <2>2, SilentStep DEF session
<1> QED
  BY <1>1, <1>2, <1>3, <1>4 DEF Fallback

LEMMA CloudTaskEndsKinds ==
  ASSUME Facts, open, ~Connecting, work["cloud"] = <<>>, CloudTaskEnds,
         UNCHANGED <<environment, received, answers>>
  PROVE  Silent \/ Closed \/ TakesOver
<1>0. "cloud" \in Tasks
  BY DEF Tasks
<1>1. CASE Fallback("cloud")
  BY <1>0, <1>1, FallbackKinds
<1>2. CASE work' = [work EXCEPT !["cloud"] = <<>>] /\ UNCHANGED session
  <2>1. SameInWork
    BY <1>0, <1>2, IdleClaims DEF Facts, TypeOK
  <2> QED
    BY <1>2, <2>1, SilentStep DEF session, Facts
<1> QED
  BY <1>1, <1>2 DEF CloudTaskEnds

LEMMA ConnectKinds ==
  ASSUME Facts, open, ConnectCloud \/ ConnectFails
  PROVE  Opened \/ Closed
<1> USE DEF Facts
<1>0. "device" \in Tasks /\ Connecting /\ Owner = "none" /\ Owed = {} /\ work["device"] = <<>>
      /\ awaiting = <<>> /\ ~fellBack
  BY DEF Tasks, Connecting, ConnectCloud, ConnectFails, ConnectingIsFirst, Owner, Owed
<1>1. CASE ConnectCloud
  <2>1. SameInWork
    BY <1>1, PlainClaims DEF ConnectCloud
  <2>2. Owner' = "cloud" /\ Owed' = {} /\ UNCHANGED <<answers, received, environment>>
    BY <1>0, <1>1 DEF ConnectCloud, Owner, Owed, ToSet, history
  <2> QED
    BY <1>0, <2>1, <2>2 DEF Opened, Owners
<1>2. CASE ConnectFails /\ HandOver("device", <<>>, clockNeeded)
  <2> DEFINE extra == <<>>
  <2>0. /\ TypeOK /\ AwaitingBounded /\ "device" \in Tasks /\ clockNeeded \in BOOLEAN
        /\ extra \in Seq(Items) /\ (extra = <<>> \/ \E y \in Items : extra = <<y>>)
        /\ HandOver("device", extra, clockNeeded)
        /\ \A X : CountOf(extra, X) = 0
    BY <1>0, <1>2, CountEmpty DEF TypeOK, SessionType
  <2> HIDE DEF extra, Facts
  <2>1. ASSUME NEW r \in Records
        PROVE  /\ InWork("device", "local", r)'
                    = (IF r \in ToSet(awaiting) THEN 1 ELSE 0) + CountOf(extra, {LocalReply(r)})
               /\ InWork("device", "cloud", r)' = CountOf(extra, {Relayed(r)})
               /\ \A u \in Tasks \ {"device"}, kind \in AnswerKinds :
                    InWork(u, kind, r)' = InWork(u, kind, r)
    BY <2>0, HandOverClaims, ZenonT(60)
  <2>2. \A r \in Records : r \notin ToSet(awaiting)
    BY <1>0 DEF ToSet
  <2>3. \A r \in Records : InWork("device", "local", r)' = 0 /\ InWork("device", "cloud", r)' = 0
    <3> SUFFICES ASSUME NEW r \in Records
                 PROVE  InWork("device", "local", r)' = 0 /\ InWork("device", "cloud", r)' = 0
      OBVIOUS
    <3> DEFINE x == {LocalReply(r)}
               y == {Relayed(r)}
    <3>1. CountOf(extra, x) = 0 /\ CountOf(extra, y) = 0
      BY <2>0
    <3>2. InWork("device", "local", r)' = 0 + CountOf(extra, x)
          /\ InWork("device", "cloud", r)' = CountOf(extra, y)
      BY <2>1, <2>2
    <3> HIDE DEF x, y
    <3> QED
      BY <3>1, <3>2
  <2>4. SameInWork
    <3>1. \A kind, r : InWork("device", kind, r) = 0
      BY <1>0, NoWorkClaims
    <3>2. ASSUME NEW u \in Tasks, NEW kind \in AnswerKinds, NEW r \in Records
          PROVE  InWork(u, kind, r)' = InWork(u, kind, r)
      BY <2>1, <2>3, <3>1 DEF AnswerKinds
    <3> QED
      BY <3>2 DEF SameInWork
  <2>5. Owner' = "local" /\ Owed' = {} /\ UNCHANGED <<answers, received, environment>>
    BY <1>0, <1>2 DEF ConnectFails, HandOver, Owner, Owed, history
  <2> QED
    BY <1>0, <2>4, <2>5 DEF Opened, Owners
<1>3. CASE ConnectFails /\ Disconnect("device")
  <2>1. ~open' /\ ~cloud' /\ \A u \in Tasks : work'[u] = <<>>
    BY <1>3 DEF Disconnect
  <2>2. received' = Ownership!PlusReceipts({}) /\ UNCHANGED answers
    BY <1>3, NoReceipts DEF ConnectFails, history
  <2> QED
    BY <2>1, <2>2 DEF Closed
<1> QED
  BY <1>0, <1>1, <1>2, <1>3 DEF ConnectFails, Fallback, AlreadyHandedOver

LEMMA CloudSends ==
  ASSUME TypeOK
  PROVE  /\ \A r \in Records : CloudAnswers(r) => Silent
         /\ CloudSendsClock => Silent
<1>0. \A r \in Records : atCloud[r] \in Nat /\ FramesAbout(r) \in Nat
  BY PromisedType
<1>1. ASSUME NEW r \in Records, CloudAnswers(r) PROVE Silent
  <2>1. PICK kind \in {"ack", "damaged", "blocked"} :
          fromCloud' = Append(fromCloud, [kind |-> kind, rec |-> r])
    BY <1>1 DEF CloudAnswers
  <2> DEFINE f == [kind |-> kind, rec |-> r]
  <2>2. f \in CloudFrames /\ f.rec = r
    BY DEF CloudFrames
  <2> HIDE DEF f
  <2>3. \A q \in Records : FramesAbout(q)' = FramesAbout(q) + IF r = q THEN 1 ELSE 0
    BY <2>1, <2>2, FrameSent DEF f
  <2>4. atCloud[r] > 0 /\ atCloud' = [atCloud EXCEPT ![r] = @ - 1]
    BY <1>1 DEF CloudAnswers
  <2>5. \A q \in Records : atCloud'[q] = IF r = q THEN atCloud[q] - 1 ELSE atCloud[q]
    BY <2>4 DEF TypeOK, EnvironmentType
  <2>6. ASSUME NEW q \in Records
        PROVE  atCloud'[q] + FramesAbout(q)' <= atCloud[q] + FramesAbout(q)
    <3>1. CASE r = q
      BY <1>0, <2>3, <2>5, <3>1
    <3>2. CASE r # q
      BY <1>0, <2>3, <2>5, <3>2
    <3> QED
      BY <3>1, <3>2
  <2> QED
    BY <1>1, <2>6, PlainStep DEF CloudAnswers, tasks, history
<1>2. ASSUME CloudSendsClock PROVE Silent
  <2> DEFINE f == [kind |-> "clock", rec |-> NoRecord]
  <2>1. f \in CloudFrames /\ f.rec \notin Records /\ fromCloud' = Append(fromCloud, f)
    BY <1>2, SessionAssumption DEF CloudSendsClock, CloudFrames
  <2> HIDE DEF f
  <2>2. \A q \in Records : FramesAbout(q)' = FramesAbout(q) + IF f.rec = q THEN 1 ELSE 0
    BY <2>1, FrameSent
  <2>3. \A q \in Records : FramesAbout(q)' = FramesAbout(q)
    BY <1>0, <2>1, <2>2
  <2>4. \A q \in Records : atCloud'[q] + FramesAbout(q)' <= atCloud[q] + FramesAbout(q)
    BY <1>0, <1>2, <2>3 DEF CloudSendsClock
  <2> QED
    BY <1>2, <2>4, PlainStep DEF CloudSendsClock, tasks, history
<1> QED
  BY <1>1, <1>2

\* Reading a frame only lowers what is on its way.
LEMMA FrameDropped ==
  ASSUME TypeOK, fromCloud # <<>>, fromCloud' = Tail(fromCloud), UNCHANGED atCloud
  PROVE  \A r \in Records : atCloud'[r] + FramesAbout(r)' <= atCloud[r] + FramesAbout(r)
<1> SUFFICES ASSUME NEW r \in Records
             PROVE  atCloud'[r] + FramesAbout(r)' <= atCloud[r] + FramesAbout(r)
  OBVIOUS
<1> DEFINE d == IF Head(fromCloud).rec = r THEN 1 ELSE 0
           m == FramesAbout(r)
           n == FramesAbout(r)'
<1>1. d \in Nat
  OBVIOUS
<1>2. m = n + d /\ n \in Nat
  BY FrameRead, Zenon
<1>3. atCloud'[r] = atCloud[r] /\ atCloud[r] \in Nat
  BY PromisedType
<1> HIDE DEF d, m, n
<1>4. atCloud'[r] + n <= atCloud[r] + m
  BY <1>1, <1>2, <1>3
<1> QED
  BY <1>4 DEF m, n

LEMMA CloudFrameKinds ==
  ASSUME Facts, CloudFrame, open, [Next]_vars
  PROVE  Silent \/ Head(fromCloud).kind = "ack"
<1> USE DEF Facts
<1> SUFFICES ASSUME Head(fromCloud).kind # "ack" PROVE Silent
  OBVIOUS
<1>1. SameInWork
  BY CloudFrameClaims
<1>2. /\ UNCHANGED <<open, cloud, fellBack, awaiting, answers, received>>
      /\ fromCloud # <<>> /\ fromCloud' = Tail(fromCloud) /\ UNCHANGED atCloud
  BY DEF CloudFrame, CloudTaskReads, history
<1>3. \A r \in Records : atCloud'[r] + FramesAbout(r)' <= atCloud[r] + FramesAbout(r)
  BY <1>2, FrameDropped
<1> QED
  BY <1>1, <1>2, <1>3 DEF Silent, Owner, Owed
LEMMA ReceiveOverflowKinds ==
  ASSUME Facts, open, NEW r \in Records, ReceiveOverflow(r)
  PROVE  Closed \/ TakesOver
<1> USE DEF Facts
<1>1. /\ pc["device"] = "read" /\ ~Connecting /\ "device" \in Tasks /\ UNCHANGED answers
      /\ received' = [received EXCEPT ![r] = @ + 1]
  BY DEF ReceiveOverflow, Receive, Connecting, Tasks
<1>2. work["device"] = <<>>
  BY <1>1 DEF WorkShape, TaskShape, Awaits
<1>3. CASE HandOver("device", <<LocalReply(r)>>, DueAfter(r))
  BY <1>1, <1>2, <1>3 DEF TakesOver
<1>4. CASE Disconnect("device")
  <2>1. ~open' /\ ~cloud' /\ \A u \in Tasks : work'[u] = <<>>
    BY <1>4 DEF Disconnect
  <2>2. received' = Ownership!PlusReceipts({r})
    BY <1>1, OneReceipt
  <2> QED
    BY <1>1, <2>1, <2>2 DEF Closed
<1> QED
  BY <1>3, <1>4 DEF ReceiveOverflow

LEMMA FinishCloses ==
  ASSUME TypeOK, Finish, UNCHANGED <<answers, received>>
  PROVE  Closed
<1>1. received' = Ownership!PlusReceipts({})
  BY NoReceipts
<1> QED
  BY <1>1 DEF Finish, Closed

LEMMA SendFailsKinds ==
  ASSUME Facts, open, NEW t \in Tasks, SendFails(t)
  PROVE  Silent \/ Closed \/ TakesOver \/ Dropped
<1> USE DEF Facts
<1>1. ~Connecting /\ sending.task = t /\ UNCHANGED <<environment, received, answers>>
  BY DEF SendFails, ConnectingIsFirst
<1>2. CASE t = "device"
  <2>1. Finish
    BY <1>2 DEF SendFails
  <2> QED
    BY <1>1, <2>1, FinishCloses
<1>3. CASE t = "cloud" /\ pc["cloud"] = "relay"
  <2>1. CloudTaskEnds
    BY <1>3 DEF SendFails
  <2>2. work["cloud"] = <<>>
    BY <1>1, <1>3 DEF WorkShape, TaskShape, Relaying
  <2> QED
    BY <1>1, <2>1, <2>2, CloudTaskEndsKinds
<1>4. CASE t # "device" /\ ~(t = "cloud" /\ pc["cloud"] = "relay")
  <2>1. work' = [work EXCEPT ![t] = <<>>] /\ UNCHANGED session
    BY <1>4 DEF SendFails
  <2>2. Proper(work[t], FALSE)
    BY <1>4 DEF WorkShape, TaskShape, Relaying
  <2>3. ASSUME NEW r \in Records PROVE InWork(t, "cloud", r) = 0
    <3>1. {i \in DOMAIN work[t] : work[t][i] = [kind |-> "cloud", rec |-> r]} = {}
      BY <2>2 DEF Proper, Fits
    <3> QED
      BY <3>1, FS_EmptySet DEF InWork
  <2> QED
    BY <1>1, <1>4, <2>1, <2>3 DEF Dropped, session
<1> QED
  BY <1>2, <1>3, <1>4

\* Every step of a running session is one of these.
LEMMA StepKinds ==
  ASSUME Facts, open, [Next]_vars
  PROVE  \/ Silent \/ Opened \/ Closed \/ TakesOver \/ Dropped
         \/ \E r \in Records : ReceiveForward(r) \/ ReceiveLocal(r)
         \/ CloudFrame /\ Head(fromCloud).kind = "ack"
         \/ \E t \in Tasks : SendBegin(t)
<1> DEFINE Goal == \/ Silent \/ Opened \/ Closed \/ TakesOver \/ Dropped
                   \/ \E r \in Records : ReceiveForward(r) \/ ReceiveLocal(r)
                   \/ CloudFrame /\ Head(fromCloud).kind = "ack"
                   \/ \E t \in Tasks : SendBegin(t)
<1> SUFFICES Goal
  OBVIOUS
<1>0. TypeOK /\ WorkShape /\ "device" \in Tasks /\ "cloud" \in Tasks /\ "deadline" \in Tasks
  BY DEF Facts, Tasks
<1>1. CASE ConnectCloud \/ ConnectFails
  BY <1>1, ConnectKinds
<1>2. CASE SessionEnds
  BY <1>0, <1>2, FinishCloses DEF SessionEnds, history
<1>3. CASE \E r \in Records : ReceiveForward(r) \/ ReceiveOverflow(r) \/ ReceiveLocal(r)
  BY <1>3, ReceiveOverflowKinds
<1>4. ASSUME NEW t \in Tasks, pc[t] \in {"read", "upstream", "watch"}
      PROVE  ~Connecting /\ work[t] = <<>>
  BY <1>0, <1>4 DEF Facts, ConnectingIsFirst, Connecting, WorkShape, TaskShape, Awaits, Tasks
<1>5. CASE UpstreamFails
  <2>1. ~Connecting /\ work["device"] = <<>>
    BY <1>0, <1>4, <1>5 DEF UpstreamFails
  <2> QED
    BY <1>0, <1>5, <2>1, FallbackKinds DEF UpstreamFails, history
<1>6. CASE CloudDisconnects
  <2>1. ~Connecting /\ work["cloud"] = <<>>
    BY <1>0, <1>4, <1>6 DEF CloudDisconnects
  <2> QED
    BY <1>0, <1>6, <2>1, CloudTaskEndsKinds DEF CloudDisconnects, history
<1>7. CASE DeadlineExpires
  <2>1. ~Connecting /\ work["deadline"] = <<>>
    BY <1>0, <1>4, <1>7 DEF DeadlineExpires
  <2> QED
    BY <1>0, <1>7, <2>1, FallbackKinds DEF DeadlineExpires, history
<1>8. CASE \/ WriterCloses \/ UpstreamDrained \/ DeadlineStops \/ Ended \/ UNCHANGED vars
  <2>1. SameInWork /\ UNCHANGED <<answers, received, environment, open, cloud, awaiting, fellBack>>
    BY <1>8, PlainClaims
       DEF WriterCloses, UpstreamDrained, DeadlineStops, Ended, vars, session, tasks, history
  <2> QED
    BY <1>0, <2>1, SilentStep
<1>9. CASE (\E r \in Records : CloudAnswers(r)) \/ CloudSendsClock
  BY <1>0, <1>9, CloudSends
<1>10. CASE CloudFrameAfterHandOver \/ CloudFrameBlocked
  <2>1. /\ UNCHANGED <<session, work, answers, received, atCloud>>
        /\ fromCloud # <<>> /\ fromCloud' = Tail(fromCloud)
    BY <1>10 DEF CloudFrameAfterHandOver, CloudFrameBlocked, CloudTaskReads, tasks, history
  <2> QED
    BY <1>0, <2>1, FrameDropped, PlainStep
<1>11. CASE CloudFrame
  BY <1>11, CloudFrameKinds
<1>12. ASSUME NEW t \in Tasks, SendDone(t) PROVE Goal
  <2>1. SameInWork
    BY <1>0, <1>12, SendDoneClaims
  <2> QED
    BY <1>0, <1>12, <2>1, SilentStep DEF SendDone, history
<1>13. ASSUME NEW t \in Tasks, SendFails(t) PROVE Goal
  BY <1>13, SendFailsKinds
<1> QED
  BY <1>1, <1>2, <1>3, <1>5, <1>6, <1>7, <1>8, <1>9, <1>10, <1>11, <1>12, <1>13 DEF Next

LEMMA AckFramesPreserved == TypeOK /\ AckFrames /\ [Next]_vars => AckFrames'
<1> SUFFICES ASSUME TypeOK, AckFrames, [Next]_vars PROVE AckFrames'
  OBVIOUS
<1>0. fromCloud \in Seq(CloudFrames)
  BY DEF TypeOK, EnvironmentType
<1>1. CASE UNCHANGED fromCloud
  BY <1>1 DEF AckFrames
<1>2. CASE fromCloud # <<>> /\ fromCloud' = Tail(fromCloud)
  <2>1. /\ DOMAIN Tail(fromCloud) = 1..(Len(fromCloud) - 1) /\ DOMAIN fromCloud = 1..Len(fromCloud)
        /\ \A i \in 1..(Len(fromCloud) - 1) : /\ Tail(fromCloud)[i] = fromCloud[i + 1]
                                              /\ i + 1 \in 1..Len(fromCloud)
    BY <1>0, <1>2
  <2> QED
    BY <1>2, <2>1 DEF AckFrames
<1>3. ASSUME NEW f \in CloudFrames, fromCloud' = Append(fromCloud, f),
             f.kind = "ack" => f.rec \in Records
      PROVE  AckFrames'
  <2> DEFINE s == Append(fromCloud, f)
  <2>1. /\ DOMAIN s = 1..(Len(fromCloud) + 1) /\ DOMAIN fromCloud = 1..Len(fromCloud)
        /\ \A i \in 1..(Len(fromCloud) + 1) : i = Len(fromCloud) + 1 \/ i \in 1..Len(fromCloud)
        /\ \A i \in 1..Len(fromCloud) : s[i] = fromCloud[i]
        /\ s[Len(fromCloud) + 1] = f
    BY <1>0
  <2>2. fromCloud' = s
    BY <1>3
  <2> HIDE DEF s
  <2> QED
    BY <1>3, <2>1, <2>2 DEF AckFrames
<1>4. ASSUME NEW r \in Records, CloudAnswers(r) PROVE AckFrames'
  <2>1. PICK kind \in {"ack", "damaged", "blocked"} :
          fromCloud' = Append(fromCloud, [kind |-> kind, rec |-> r])
    BY <1>4 DEF CloudAnswers
  <2>2. [kind |-> kind, rec |-> r] \in CloudFrames
    BY DEF CloudFrames
  <2> QED
    BY <1>3, <2>1, <2>2
<1>5. CASE CloudSendsClock
  <2>1. [kind |-> "clock", rec |-> NoRecord] \in CloudFrames
    BY DEF CloudFrames
  <2> QED
    BY <1>3, <1>5, <2>1 DEF CloudSendsClock
<1>6. CASE CloudFrameAfterHandOver \/ CloudFrameBlocked \/ CloudFrame
  BY <1>2, <1>6 DEF CloudFrameAfterHandOver, CloudFrameBlocked, CloudFrame, CloudTaskReads
<1>7. CASE ConnectCloud \/ ConnectFails \/ SessionEnds \/ WriterCloses
  BY <1>1, <1>7 DEF ConnectCloud, ConnectFails, SessionEnds, WriterCloses, environment
<1>8. ASSUME NEW r \in Records, ReceiveForward(r) \/ ReceiveOverflow(r) \/ ReceiveLocal(r)
      PROVE  AckFrames'
  BY <1>1, <1>8 DEF ReceiveForward, ReceiveOverflow, ReceiveLocal, environment
<1>9. CASE \/ UpstreamDrained \/ UpstreamFails \/ CloudDisconnects \/ DeadlineExpires
           \/ DeadlineStops \/ Ended \/ UNCHANGED vars
  BY <1>1, <1>9 DEF UpstreamDrained, UpstreamFails, CloudDisconnects, DeadlineExpires,
                    DeadlineStops, Ended, vars, environment
<1>10. ASSUME NEW t \in Tasks, SendBegin(t) \/ SendDone(t) \/ SendFails(t) PROVE AckFrames'
  BY <1>1, <1>10 DEF SendBegin, SendDone, SendFails, environment
<1> QED
  BY <1>4, <1>5, <1>6, <1>7, <1>8, <1>9, <1>10 DEF Next

-----------------------------------------------------------------------------
\* What a drop leaves of the claims.
LEMMA DroppedClaims ==
  ASSUME TypeOK, Dropped
  PROVE  \E t \in Tasks \ {"device"} : \A r \in Records :
           /\ InWork(t, "local", r)' = 0 /\ InWork(t, "cloud", r) = 0 /\ InWork(t, "cloud", r)' = 0
           /\ \A u \in Tasks \ {t}, kind \in AnswerKinds : InWork(u, kind, r)' = InWork(u, kind, r)
<1>1. PICK t \in Tasks \ {"device"} : /\ work' = [work EXCEPT ![t] = <<>>]
                                      /\ \A r \in Records : InWork(t, "cloud", r) = 0
  BY DEF Dropped
<1>2. work'[t] = <<>> /\ \A u \in Tasks \ {t} : work'[u] = work[u]
  BY <1>1 DEF TypeOK, TasksType
<1> QED
  BY <1>1, <1>2, NoWorkClaims, SameWorkClaims

\* A hand-over claims the outstanding records once for the task that makes it.
LEMMA TakesOverClaims ==
  ASSUME Facts, TakesOver, NEW u \in Tasks \ {"device"}, NEW r \in Records
  PROVE  InWork(u, "local", r)' \in {0, 1, InWork(u, "local", r)}
<1>0. "local" \in AnswerKinds /\ "device" \in Tasks /\ TypeOK /\ AwaitingBounded
  BY DEF AnswerKinds, Tasks, Facts
<1>1. CASE \E t \in Tasks : work[t] = <<>> /\ HandOver(t, <<>>, clockNeeded)
  <2> DEFINE extra == <<>>
  <2>1. PICK t \in Tasks : work[t] = <<>> /\ HandOver(t, extra, clockNeeded)
    BY <1>1
  <2>2. /\ extra \in Seq(Items) /\ (extra = <<>> \/ \E y \in Items : extra = <<y>>)
        /\ clockNeeded \in BOOLEAN /\ \A X : CountOf(extra, X) = 0
    BY <1>0, CountEmpty DEF TypeOK, SessionType
  <2> HIDE DEF extra
  <2> DEFINE x == {LocalReply(r)}
  <2>3. /\ InWork(t, "local", r)' = (IF r \in ToSet(awaiting) THEN 1 ELSE 0) + CountOf(extra, x)
        /\ \A v \in Tasks \ {t}, kind \in AnswerKinds : InWork(v, kind, r)' = InWork(v, kind, r)
    BY <1>0, <2>1, <2>2, HandOverClaims, ZenonT(60)
  <2>4. CountOf(extra, x) = 0
    BY <2>2
  <2> HIDE DEF x
  <2>5. InWork(t, "local", r)' \in {0, 1}
    BY <2>3, <2>4
  <2> QED
    BY <1>0, <2>3, <2>5
<1>2. CASE \E q \in Records : HandOver("device", <<LocalReply(q)>>, DueAfter(q))
  <2>1. PICK q \in Records : HandOver("device", <<LocalReply(q)>>, DueAfter(q))
    BY <1>2
  <2> DEFINE extra == <<LocalReply(q)>>
  <2>2. /\ extra \in Seq(Items) /\ (extra = <<>> \/ \E y \in Items : extra = <<y>>)
        /\ DueAfter(q) \in BOOLEAN /\ HandOver("device", extra, DueAfter(q))
    BY <1>0, <2>1, ItemTypes DEF TypeOK, SessionType, DueAfter
  <2> HIDE DEF extra
  <2>3. \A v \in Tasks \ {"device"}, kind \in AnswerKinds : InWork(v, kind, r)' = InWork(v, kind, r)
    BY <1>0, <2>2, HandOverClaims, ZenonT(60)
  <2> QED
    BY <1>0, <2>3
<1> QED
  BY <1>1, <1>2 DEF TakesOver

LEMMA ReceiveLocalClaims ==
  ASSUME Facts, NEW q \in Records, ReceiveLocal(q)
  PROVE  /\ \A o \in Owners, r \in Records :
              ClaimedBy(o, r)' = IF o = "local" /\ r = q THEN ClaimedBy(o, q) + 1 ELSE ClaimedBy(o, r)
         /\ \A u \in Tasks \ {"device"}, kind \in AnswerKinds, r \in Records :
              InWork(u, kind, r)' = InWork(u, kind, r)
<1> DEFINE x == LocalReply(q)
<1>1. /\ TypeOK /\ "device" \in Tasks /\ work["device"] = <<>> /\ x \in Items /\ x # ClockIfNeeded
      /\ GoOn("device", <<x>>, "reply", clockNeeded', FALSE)
  <2>1. pc["device"] = "read" /\ "device" \in Tasks
    BY DEF ReceiveLocal, Receive, Tasks
  <2>2. work["device"] = <<>>
    BY <2>1 DEF Facts, WorkShape, TaskShape, Awaits
  <2> QED
    BY <2>1, <2>2, ItemTypes DEF Facts, ReceiveLocal, LocalReply, ClockIfNeeded
<1>2. clockNeeded' \in BOOLEAN
  BY DEF ReceiveLocal, DueAfter, Facts, TypeOK, SessionType
<1>3. \A kind \in AnswerKinds, r \in Records :
        x = [kind |-> kind, rec |-> r] <=> kind = "local" /\ r = q
  BY DEF LocalReply
<1> HIDE DEF x
<1>4. \A kind \in AnswerKinds, r \in Records :
        /\ InWork("device", kind, r)' = InWork("device", kind, r)
                                          + IF x = [kind |-> kind, rec |-> r] THEN 1 ELSE 0
        /\ \A u \in Tasks \ {"device"} : InWork(u, kind, r)' = InWork(u, kind, r)
  BY <1>1, <1>2, SingleClaims
<1>5. \A u \in Tasks : \A kind, r : InWork(u, kind, r) \in Nat
  BY CountedInWork, CountType DEF Facts, TypeOK, TasksType
<1>6. \A kind \in AnswerKinds, r \in Records :
        InWork("device", kind, r)' = IF kind = "local" /\ r = q THEN InWork("device", kind, r) + 1
                                                               ELSE InWork("device", kind, r)
  BY <1>1, <1>3, <1>4, <1>5
<1>7. "cloud" \in AnswerKinds /\ "local" \in AnswerKinds
  BY DEF AnswerKinds
<1>8. ASSUME NEW o \in Owners, NEW r \in Records
      PROVE  ClaimedBy(o, r)' = IF o = "local" /\ r = q THEN ClaimedBy(o, q) + 1 ELSE ClaimedBy(o, r)
  BY <1>4, <1>5, <1>6, <1>7 DEF ClaimedBy, Owners, Tasks
<1> QED
  BY <1>4, <1>8

LEMMA OnceAnsweredPreserved == Facts /\ open /\ [Next]_vars => OnceAnswered'
<1> SUFFICES ASSUME Facts, open, [Next]_vars, NEW u \in Tasks \ {"device"}, NEW r \in Records
             PROVE  InWork(u, "local", r)' <= 1
  BY DEF OnceAnswered
<1> DEFINE n == InWork(u, "local", r)
<1>0. n \in Nat /\ n <= 1 /\ "local" \in AnswerKinds /\ u \in Tasks /\ TypeOK /\ WorkShape
  <2>1. n \in Nat
    BY CountedInWork, CountType DEF Facts, TypeOK, TasksType
  <2> QED
    BY <2>1 DEF Facts, OnceAnswered, AnswerKinds
<1>1. CASE SameInWork
  BY <1>0, <1>1 DEF SameInWork
<1>2. CASE Closed
  BY <1>2, NoWorkClaims DEF Closed
<1>3. CASE TakesOver
  <2>1. n' \in {0, 1, n}
    BY <1>3, TakesOverClaims
  <2> HIDE DEF n
  <2>2. n' <= 1
    BY <1>0, <2>1
  <2> QED
    BY <2>2 DEF n
<1>4. CASE Dropped
  <2>1. PICK t \in Tasks \ {"device"} : \A q \in Records :
           /\ InWork(t, "local", q)' = 0
           /\ \A v \in Tasks \ {t}, kind \in AnswerKinds : InWork(v, kind, q)' = InWork(v, kind, q)
    BY <1>0, <1>4, DroppedClaims
  <2>2. n' = 0 \/ n' = n
    BY <1>0, <2>1
  <2> QED
    BY <1>0, <2>2
<1>5. ASSUME NEW q \in Records, ReceiveLocal(q) PROVE n' <= 1
  <2>1. \A v \in Tasks \ {"device"}, kind \in AnswerKinds, p \in Records :
          InWork(v, kind, p)' = InWork(v, kind, p)
    BY <1>5, ReceiveLocalClaims
  <2>2. n' = n
    BY <1>0, <2>1
  <2> HIDE DEF n
  <2>3. n' <= 1
    BY <1>0, <2>2
  <2> QED
    BY <2>3
<1>6. ASSUME NEW q \in Records, ReceiveForward(q) PROVE n' <= 1
  BY <1>1, <1>6, PlainClaims DEF ReceiveForward
<1>7. CASE CloudFrame
  BY <1>0, <1>1, <1>7, CloudFrameClaims DEF Facts
<1>8. ASSUME NEW t \in Tasks, SendBegin(t) PROVE n' <= 1
  <2> DEFINE d == IF Head(work[t]) = [kind |-> "local", rec |-> r] THEN 1 ELSE 0
             m == InWork(t, "local", r)
  <2>1. m = m' + d /\ \A v \in Tasks \ {t} : InWork(v, "local", r)' = InWork(v, "local", r)
    BY <1>0, <1>8, SendBeginClaims
  <2>2. CASE u = t
    <3>0. d \in Nat
      OBVIOUS
    <3>1. n = n' + d
      BY <2>1, <2>2
    <3>2. n' \in Nat
      <4>1. work'[t] \in Seq(Items)
        BY <1>0, <1>8 DEF SendBegin, TypeOK, TasksType
      <4> QED
        BY <2>2, <4>1, CountedInWorkNext, CountType
    <3> HIDE DEF n, d
    <3>3. \A i, j, k \in Nat : i = j + k /\ i <= 1 => j <= 1
      OBVIOUS
    <3>4. n \in Nat /\ n <= 1
      BY <1>0
    <3>5. n' <= 1
      BY <3>0, <3>1, <3>2, <3>3, <3>4
    <3> QED
      BY <3>5 DEF n
  <2>3. CASE u # t
    <3>1. n' = n
      BY <1>0, <2>1, <2>3
    <3> HIDE DEF n
    <3>2. n' <= 1
      BY <1>0, <3>1
    <3> QED
      BY <3>2
  <2> QED
    BY <2>2, <2>3
<1> QED
  BY <1>1, <1>2, <1>3, <1>4, <1>5, <1>6, <1>7, <1>8, StepKinds DEF Silent, Opened

-----------------------------------------------------------------------------
(* The account through every step.                                          *)

\* What is promised for r, to come from the cloud, and on its way.
LEMMA AccountType ==
  Facts => \A r \in Records : /\ Promised(r) \in Nat /\ FramesAbout(r) \in Nat
                              /\ atCloud[r] \in Nat /\ received[r] \in Nat
  BY PromisedType DEF Facts

LEMMA ForwardAccount ==
  ASSUME Facts, NEW q \in Records, ReceiveForward(q)
  PROVE  CloudIsAccountable'
<1>1. cloud /\ UNCHANGED <<work, answers, fromCloud>>
  BY DEF ReceiveForward
<1>2. \A r \in Records : Promised(r)' = Promised(r) /\ FramesAbout(r)' = FramesAbout(r)
  BY <1>1, PlainClaims, SamePromise DEF FramesAbout
<1>3. \A r \in Records : /\ atCloud'[r] = IF r = q THEN atCloud[r] + 1 ELSE atCloud[r]
                         /\ received'[r] = IF r = q THEN received[r] + 1 ELSE received[r]
  BY DEF ReceiveForward, Receive, Facts, TypeOK, EnvironmentType, HistoryType
<1>4. ASSUME NEW r \in Records
      PROVE  Promised(r)' + atCloud'[r] + FramesAbout(r)' <= received'[r]
  <2> DEFINE p == Promised(r)
             g == FramesAbout(r)
  <2>1. p \in Nat /\ g \in Nat /\ atCloud[r] \in Nat /\ received[r] \in Nat
    BY AccountType
  <2>2. p + atCloud[r] + g <= received[r]
    BY <1>1 DEF CloudIsAccountable, Facts
  <2>3. p' = p /\ g' = g
    BY <1>2
  <2> HIDE DEF p, g
  <2>4. p' + atCloud'[r] + g' <= received'[r]
    BY <1>3, <2>1, <2>2, <2>3
  <2> QED
    BY <2>4 DEF p, g
<1> QED
  BY <1>4 DEF CloudIsAccountable

LEMMA AckAccount ==
  ASSUME Facts, CloudFrame, Head(fromCloud).kind = "ack"
  PROVE  /\ Head(fromCloud).rec \in Records
         /\ Promised(Head(fromCloud).rec) < received[Head(fromCloud).rec]
         /\ CloudIsAccountable'
<1> DEFINE q == Head(fromCloud).rec
<1>1. /\ q \in Records
      /\ \A o \in Owners, r \in Records :
           ClaimedBy(o, r)' = IF o = "cloud" /\ r = q THEN ClaimedBy(o, r) + 1 ELSE ClaimedBy(o, r)
  BY CloudFrameClaims DEF Facts
<1>2. /\ cloud /\ UNCHANGED <<cloud, answers, received, atCloud>>
      /\ fromCloud # <<>> /\ fromCloud' = Tail(fromCloud)
  BY DEF CloudFrame, CloudTaskReads, history
<1>3. TypeOK /\ \A r \in Records : Promised(r) + atCloud[r] + FramesAbout(r) <= received[r]
  BY <1>2 DEF CloudIsAccountable, Facts
<1> HIDE DEF q
<1>4. ASSUME NEW r \in Records
      PROVE  /\ Promised(r)' + atCloud'[r] + FramesAbout(r)' <= received'[r]
             /\ r = q => Promised(r) < received[r]
  <2> DEFINE p == Promised(r)
             g == FramesAbout(r)
             d == IF r = q THEN 1 ELSE 0
  <2>1. p \in Nat /\ g \in Nat /\ atCloud[r] \in Nat /\ received[r] \in Nat /\ d \in {0, 1}
    BY AccountType
  <2>2. g = g' + d /\ g' \in Nat
    <3>1. g = g' + IF Head(fromCloud).rec = r THEN 1 ELSE 0
      BY <1>2, <1>3, FrameRead, Zenon
    <3>2. g' \in Nat
      BY <1>2, <1>3, FrameRead, Zenon
    <3>3. (Head(fromCloud).rec = r) <=> (r = q)
      BY DEF q
    <3> QED
      BY <3>1, <3>2, <3>3
  <2>3. p' = p + d
    <3>1. "cloud" \in Owners /\ "local" \in Owners
      BY DEF Owners
    <3>2. /\ ClaimedBy("cloud", r)' = ClaimedBy("cloud", r) + d
          /\ ClaimedBy("local", r)' = ClaimedBy("local", r)
          /\ ClaimedBy("cloud", r) \in Nat /\ ClaimedBy("local", r) \in Nat
      <4>1. ClaimedBy("cloud", r) \in Nat /\ ClaimedBy("local", r) \in Nat
        BY <1>3, <3>1, ClaimsType DEF TypeOK
      <4>2. ClaimedBy("local", r)' = ClaimedBy("local", r)
        BY <1>1, <3>1
      <4>3. ClaimedBy("cloud", r)' = IF r = q THEN ClaimedBy("cloud", r) + 1 ELSE ClaimedBy("cloud", r)
        BY <1>1, <3>1
      <4> QED
        BY <4>1, <4>2, <4>3
    <3>3. answers["cloud"][r] \in Nat /\ answers["local"][r] \in Nat
      BY <1>3, <3>1 DEF TypeOK, HistoryType
    <3>4. UNCHANGED answers
      BY <1>2
    <3> HIDE DEF d, ClaimedBy
    <3>5. Promised(r)' = ClaimedBy("cloud", r)' + ClaimedBy("local", r)'
                          + answers["cloud"][r] + answers["local"][r]
      BY <3>4 DEF Promised
    <3>6. \A a, b, c, e, f \in Int : (a + e) + b + c + f = (a + b + c + f) + e
      OBVIOUS
    <3>7. d \in Int
      BY <2>1
    <3> QED
      BY <3>2, <3>3, <3>5, <3>6, <3>7 DEF Promised
  <2>4. p + atCloud[r] + g <= received[r] /\ atCloud'[r] = atCloud[r] /\ received'[r] = received[r]
    BY <1>2, <1>3
  <2>5. r = q => d = 1
    OBVIOUS
  <2> HIDE DEF p, g, d
  <2>6. p' + atCloud'[r] + g' <= received'[r] /\ (r = q => p < received[r])
    BY <2>1, <2>2, <2>3, <2>4, <2>5
  <2> QED
    BY <2>6 DEF p, g
<1> QED
  BY <1>1, <1>4 DEF CloudIsAccountable, q

\* Writing an answer changes only its place in the sum; dropping one lowers it.
LEMMA SendBeginAccount ==
  ASSUME Facts, NEW t \in Tasks, SendBegin(t)
  PROVE  \A r \in Records : Promised(r)' = Promised(r)
<1>0. TypeOK /\ WorkShape
  BY DEF Facts
<1>1. CASE SameInWork /\ UNCHANGED answers
  BY <1>1, SamePromise
<1>2. ASSUME NEW o \in Owners, NEW q \in Records, ClaimedBy(o, q) > 0,
             answers' = [answers EXCEPT ![o][q] = @ + 1],
             \A p \in Owners, r \in Records :
               ClaimedBy(p, r)' = IF p = o /\ r = q THEN ClaimedBy(o, q) - 1 ELSE ClaimedBy(p, r),
             NEW r \in Records
      PROVE  Promised(r)' = Promised(r)
  <2>1. "cloud" \in Owners /\ "local" \in Owners /\ o \in {"cloud", "local"}
    BY DEF Owners
  <2>2. /\ ClaimedBy("cloud", r) \in Nat /\ ClaimedBy("local", r) \in Nat
        /\ answers["cloud"][r] \in Nat /\ answers["local"][r] \in Nat
    BY <1>0, <2>1, ClaimsType DEF TypeOK, HistoryType
  <2>3. \A p \in Owners : answers'[p][r] = IF p = o /\ r = q THEN answers[p][r] + 1 ELSE answers[p][r]
    BY <1>0, <1>2 DEF TypeOK, HistoryType
  <2>4. \A p \in Owners : ClaimedBy(p, r)' = IF p = o /\ r = q THEN ClaimedBy(p, r) - 1
                                                                ELSE ClaimedBy(p, r)
    BY <1>2
  <2> HIDE DEF ClaimedBy
  <2> DEFINE a == ClaimedBy("cloud", r)
             b == ClaimedBy("local", r)
  <2>5. Promised(r) = a + b + answers["cloud"][r] + answers["local"][r]
        /\ Promised(r)' = a' + b' + answers'["cloud"][r] + answers'["local"][r]
    BY DEF Promised
  <2>6. CASE r # q
    BY <2>1, <2>3, <2>4, <2>5, <2>6
  <2>7. CASE r = q /\ o = "cloud"
    <3>1. /\ a' = a - 1 /\ b' = b
          /\ answers'["cloud"][r] = answers["cloud"][r] + 1
          /\ answers'["local"][r] = answers["local"][r]
      BY <2>1, <2>3, <2>4, <2>7
    <3> HIDE DEF a, b
    <3>2. a \in Nat /\ b \in Nat
      BY <2>2 DEF a, b
    <3> QED
      BY <2>2, <2>5, <3>1, <3>2
  <2>8. CASE r = q /\ o = "local"
    <3>1. /\ b' = b - 1 /\ a' = a
          /\ answers'["local"][r] = answers["local"][r] + 1
          /\ answers'["cloud"][r] = answers["cloud"][r]
      BY <2>1, <2>3, <2>4, <2>8
    <3> HIDE DEF a, b
    <3>2. a \in Nat /\ b \in Nat
      BY <2>2 DEF a, b
    <3> QED
      BY <2>2, <2>5, <3>1, <3>2
  <2> QED
    BY <2>1, <2>6, <2>7, <2>8
<1> QED
  BY <1>0, <1>1, <1>2, SendBeginAnswers

LEMMA DroppedAccount ==
  ASSUME Facts, Dropped
  PROVE  \A r \in Records : Promised(r)' <= Promised(r)
<1> SUFFICES ASSUME NEW r \in Records PROVE Promised(r)' <= Promised(r)
  OBVIOUS
<1>0. TypeOK /\ "local" \in AnswerKinds /\ "cloud" \in AnswerKinds /\ UNCHANGED answers
      /\ "cloud" \in Owners /\ "local" \in Owners
  BY DEF Facts, AnswerKinds, Dropped, Owners
<1>1. PICK t \in Tasks \ {"device"} : \A q \in Records :
        /\ InWork(t, "local", q)' = 0 /\ InWork(t, "cloud", q) = 0 /\ InWork(t, "cloud", q)' = 0
        /\ \A u \in Tasks \ {t}, kind \in AnswerKinds : InWork(u, kind, q)' = InWork(u, kind, q)
  BY <1>0, DroppedClaims
<1>2. \A u \in Tasks : \A kind, q : InWork(u, kind, q) \in Nat
  BY <1>0, CountedInWork, CountType DEF TypeOK, TasksType
<1>3. ClaimedBy("cloud", r)' = ClaimedBy("cloud", r)
  BY <1>0, <1>1 DEF ClaimedBy, Tasks
<1>4. ClaimedBy("local", r)' <= ClaimedBy("local", r) /\ ClaimedBy("local", r)' \in Nat
  <2> DEFINE i == InWork("device", "local", r)
             j == InWork("cloud", "local", r)
             k == InWork("deadline", "local", r)
  <2>1. i \in Nat /\ j \in Nat /\ k \in Nat
    BY <1>2 DEF Tasks
  <2>2. i' = i /\ ((j' = 0 /\ k' = k) \/ (j' = j /\ k' = 0))
    BY <1>0, <1>1 DEF Tasks
  <2>3. ClaimedBy("local", r) = i + j + k /\ ClaimedBy("local", r)' = i' + j' + k'
    BY DEF ClaimedBy
  <2> HIDE DEF i, j, k
  <2> QED
    BY <2>1, <2>2, <2>3
<1>5. /\ ClaimedBy("cloud", r) \in Nat /\ ClaimedBy("local", r) \in Nat
      /\ answers["cloud"][r] \in Nat /\ answers["local"][r] \in Nat
  BY <1>0, ClaimsType DEF TypeOK, HistoryType
<1> HIDE DEF ClaimedBy
<1>6. /\ Promised(r) = ClaimedBy("cloud", r) + ClaimedBy("local", r)
                         + answers["cloud"][r] + answers["local"][r]
      /\ Promised(r)' = ClaimedBy("cloud", r)' + ClaimedBy("local", r)'
                         + answers["cloud"][r] + answers["local"][r]
  BY <1>0 DEF Promised
<1> QED
  BY <1>3, <1>4, <1>5, <1>6

LEMMA PromisedTypeNext ==
  (TypeOK => \A r \in Records : /\ Promised(r) \in Nat /\ FramesAbout(r) \in Nat
                                /\ atCloud[r] \in Nat /\ received[r] \in Nat)'
  BY PromisedType, PTL

\* Nothing is received and nothing added to what the cloud still owes.
LEMMA AccountShrinks ==
  ASSUME Facts, cloud \/ Connecting, UNCHANGED received, TypeOK',
         \A r \in Records : Promised(r)' <= Promised(r),
         \A r \in Records : atCloud'[r] + FramesAbout(r)' <= atCloud[r] + FramesAbout(r)
  PROVE  CloudIsAccountable'
<1> SUFFICES ASSUME NEW r \in Records
             PROVE  Promised(r)' + atCloud'[r] + FramesAbout(r)' <= received'[r]
  BY DEF CloudIsAccountable
<1> DEFINE p == Promised(r)
           g == FramesAbout(r)
<1>1. p \in Nat /\ g \in Nat /\ atCloud[r] \in Nat /\ received[r] \in Nat
  BY AccountType
<1>2. p + atCloud[r] + g <= received[r]
  BY DEF CloudIsAccountable, Facts
<1>3. p' <= p /\ atCloud'[r] + g' <= atCloud[r] + g /\ received'[r] = received[r]
  OBVIOUS
<1>4. p' \in Nat /\ g' \in Nat /\ atCloud'[r] \in Nat
  BY PromisedTypeNext
<1> HIDE DEF p, g
<1>5. p' + atCloud'[r] + g' <= received'[r]
  BY <1>1, <1>2, <1>3, <1>4
<1> QED
  BY <1>5 DEF p, g

LEMMA CloudIsAccountablePreserved == Facts /\ open /\ [Next]_vars => CloudIsAccountable'
<1> SUFFICES ASSUME Facts, open, [Next]_vars, cloud' \/ Connecting'
             PROVE  CloudIsAccountable'
  BY DEF CloudIsAccountable
<1>0. TypeOK' /\ TypeOK /\ ConnectingIsFirst /\ FallbackShape
  BY TypePreserved DEF Facts
<1>1. Connecting' => Connecting /\ open'
  BY <1>0, ConnectingStays DEF WriterCloses, vars, session
<1>2. \A r \in Records : Promised(r) \in Nat /\ atCloud[r] \in Nat /\ FramesAbout(r) \in Nat
  BY AccountType
<1>3. ASSUME UNCHANGED <<atCloud, fromCloud>>
      PROVE  \A r \in Records : atCloud'[r] + FramesAbout(r)' <= atCloud[r] + FramesAbout(r)
  <2>1. \A r \in Records : atCloud'[r] = atCloud[r] /\ FramesAbout(r)' = FramesAbout(r)
    BY <1>3 DEF FramesAbout
  <2> QED
    BY <1>2, <2>1
<1>4. ASSUME \A r \in Records : Promised(r)' = Promised(r)
      PROVE  \A r \in Records : Promised(r)' <= Promised(r)
  BY <1>2, <1>4
<1>5. CASE Silent
  <2>1. \A r \in Records : Promised(r)' <= Promised(r)
    BY <1>4, <1>5, SamePromise DEF Silent
  <2>2. cloud \/ Connecting
    BY <1>1, <1>5 DEF Silent
  <2> QED
    BY <1>0, <1>5, <2>1, <2>2, AccountShrinks DEF Silent
<1>6. CASE Opened
  <2>1. \A r \in Records : Promised(r)' <= Promised(r)
    BY <1>4, <1>6, SamePromise DEF Opened
  <2> QED
    BY <1>0, <1>3, <1>6, <2>1, AccountShrinks DEF Opened, environment
<1>7. ~Closed
  BY <1>1 DEF Closed
<1>8. ~TakesOver
  BY <1>1 DEF TakesOver, HandOver
<1>9. CASE Dropped
  <2>1. \A r \in Records : Promised(r)' <= Promised(r)
    BY <1>9, DroppedAccount
  <2>2. (cloud \/ Connecting) /\ UNCHANGED <<received, atCloud, fromCloud>>
    BY <1>1, <1>9 DEF Dropped, environment
  <2> QED
    BY <1>0, <1>3, <2>1, <2>2, AccountShrinks
<1>10. ASSUME NEW q \in Records, ReceiveForward(q) PROVE CloudIsAccountable'
  BY <1>10, ForwardAccount
<1>11. ASSUME NEW q \in Records, ReceiveLocal(q) PROVE FALSE
  BY <1>1, <1>11 DEF ReceiveLocal, Receive, Connecting
<1>12. CASE CloudFrame /\ Head(fromCloud).kind = "ack"
  BY <1>12, AckAccount
<1>13. ASSUME NEW t \in Tasks, SendBegin(t) PROVE CloudIsAccountable'
  <2>1. \A r \in Records : Promised(r)' <= Promised(r)
    BY <1>4, <1>13, SendBeginAccount
  <2>2. (cloud \/ Connecting) /\ UNCHANGED <<received, atCloud, fromCloud>>
    BY <1>1, <1>13 DEF SendBegin, environment, session
  <2> QED
    BY <1>0, <1>3, <2>1, <2>2, AccountShrinks
<1> QED
  BY <1>5, <1>6, <1>7, <1>8, <1>9, <1>10, <1>11, <1>12, <1>13, StepKinds

\* Settling takes the record out of the outstanding ones.
LEMMA SettleSet ==
  ASSUME NEW s \in Seq(Records), Distinct(s), NEW r
  PROVE  ToSet(Settle(s, r)) = ToSet(s) \ {r}
<1>1. CASE ~Contains(s, r)
  <2>1. r \notin ToSet(s)
    BY <1>1 DEF Contains, ToSet
  <2> QED
    BY <1>1, <2>1 DEF Settle
<1>2. CASE Contains(s, r)
  <2> DEFINE i == CHOOSE j \in DOMAIN s : s[j] = r
             a == SubSeq(s, 1, i - 1)
             b == SubSeq(s, i + 1, Len(s))
             v == a \o b
  <2>1. i \in 1..Len(s) /\ s[i] = r
    BY <1>2 DEF Contains
  <2>2. Settle(s, r) = v
    BY <1>2 DEF Settle, RemoveAt
  <2> HIDE DEF i
  <2>3. /\ a \in Seq(Records) /\ Len(a) = i - 1
        /\ \A j \in 1..(i - 1) : a[j] = s[j]
    BY <2>1, SubSeqProperties
  <2>4. /\ b \in Seq(Records) /\ Len(b) = Len(s) - i
        /\ \A j \in 1..(Len(s) - i) : b[j] = s[i + j]
    BY <2>1, SubSeqProperties
  <2> HIDE DEF a, b
  <2>5. v \in Seq(Records) /\ Len(v) = Len(a) + Len(b)
        /\ \A j \in 1..(Len(a) + Len(b)) : v[j] = IF j <= Len(a) THEN a[j] ELSE b[j - Len(a)]
    BY <2>3, <2>4, ConcatProperties
  <2> HIDE DEF v
  <2>6. ASSUME NEW j \in 1..Len(v)
        PROVE  \E k \in 1..Len(s) : v[j] = s[k] /\ k # i
    <3>1. CASE j <= Len(a)
      <4>1. j \in 1..(i - 1) /\ j \in 1..Len(s) /\ j # i /\ v[j] = a[j]
        BY <2>1, <2>3, <2>4, <2>5, <3>1
      <4> QED
        BY <2>3, <4>1
    <3>2. CASE j > Len(a)
      <4>1. /\ j - Len(a) \in 1..(Len(s) - i) /\ v[j] = b[j - Len(a)]
            /\ i + (j - Len(a)) \in 1..Len(s) /\ i + (j - Len(a)) # i
        BY <2>1, <2>3, <2>4, <2>5, <3>2
      <4> QED
        BY <2>4, <4>1
    <3> QED
      BY <2>3, <3>1, <3>2
  <2>7. ToSet(v) \subseteq ToSet(s) \ {r}
    BY <2>1, <2>5, <2>6 DEF ToSet, Distinct
  <2>8. ASSUME NEW q \in ToSet(s), q # r PROVE q \in ToSet(v)
    <3>1. Contains(s, q)
      BY <2>8 DEF ToSet, Contains
    <3>2. Contains(v, q)
      BY <2>2, <2>8, <3>1, SettleOther
    <3> QED
      BY <2>5, <3>2 DEF ToSet, Contains
  <2> QED
    BY <2>2, <2>7, <2>8
<1> QED
  BY <1>1, <1>2

LEMMA OutstandingSet ==
  ASSUME TypeOK, NEW r \in Records
  PROVE  ToSet(Outstanding(r)) \in {ToSet(awaiting), ToSet(awaiting) \cup {r}}
<1>1. awaiting \in Seq(Records)
  BY DEF TypeOK, SessionType
<1>2. ToSet(Append(awaiting, r)) = ToSet(awaiting) \cup {r}
  <2> DEFINE v == Append(awaiting, r)
  <2>1. /\ DOMAIN v = 1..(Len(awaiting) + 1) /\ DOMAIN awaiting = 1..Len(awaiting)
        /\ \A i \in 1..Len(awaiting) : v[i] = awaiting[i] /\ i \in 1..(Len(awaiting) + 1)
        /\ v[Len(awaiting) + 1] = r /\ Len(awaiting) + 1 \in 1..(Len(awaiting) + 1)
        /\ \A i \in 1..(Len(awaiting) + 1) : i = Len(awaiting) + 1 \/ i \in 1..Len(awaiting)
    BY <1>1
  <2>2. Len(v) = Len(awaiting) + 1
    BY <1>1
  <2> HIDE DEF v
  <2>3. ToSet(v) \subseteq ToSet(awaiting) \cup {r}
    BY <2>1 DEF ToSet
  <2>4. ToSet(awaiting) \cup {r} \subseteq ToSet(v)
    BY <2>1 DEF ToSet
  <2> QED
    BY <2>3, <2>4 DEF v
<1> QED
  BY <1>2 DEF Outstanding

-----------------------------------------------------------------------------
(* Each step is a step of AckOwnership.                                     *)

LEMMA OpenedStep ==
  ASSUME Opened
  PROVE  Ownership!Next
<1>1. Claims' = Claims
  BY SameClaims DEF Opened
<1>2. \E o \in Ownership!Owners : Ownership!Open(o)
  BY <1>1 DEF Opened, Ownership!Open, Ownership!Owners, Owners
<1> QED
  BY <1>2 DEF Ownership!Next

LEMMA ClosedStep ==
  ASSUME Facts, open, Closed
  PROVE  Ownership!Next
<1>1. TypeOK
  BY DEF Facts
<1> QED
  BY <1>1, CloseStep DEF Closed

LEMMA TakesOverStep ==
  ASSUME Facts, open, TakesOver
  PROVE  Ownership!Next
<1>0. /\ TypeOK /\ AwaitingBounded /\ ConnectingIsFirst /\ WorkShape /\ FallbackShape
      /\ ~Connecting /\ UNCHANGED answers /\ "device" \in Tasks
  BY DEF Facts, TakesOver, Tasks
<1>1. ASSUME NEW t \in Tasks, work[t] = <<>>, HandOver(t, <<>>, clockNeeded), UNCHANGED received
      PROVE  Ownership!Next
  <2> DEFINE extra == <<>>
             E == {}
  <2>1. /\ extra \in Seq(Items) /\ (extra = <<>> \/ \E y \in Items : extra = <<y>>)
        /\ clockNeeded \in BOOLEAN /\ HandOver(t, extra, clockNeeded)
        /\ E \in {{}} \cup {{r} : r \in Records} /\ received' = Ownership!PlusReceipts(E)
    BY <1>0, <1>1, NoReceipts DEF TypeOK, SessionType
  <2>2. \A r \in Records : /\ CountOf(extra, {LocalReply(r)}) = IF r \in E THEN 1 ELSE 0
                           /\ CountOf(extra, {Relayed(r)}) = 0
    BY CountEmpty
  <2> HIDE DEF extra, E
  <2> QED
    BY <1>0, <1>1, <2>1, <2>2, HandOverStep
<1>2. ASSUME NEW q \in Records, work["device"] = <<>>,
             HandOver("device", <<LocalReply(q)>>, DueAfter(q)),
             received' = [received EXCEPT ![q] = @ + 1]
      PROVE  Ownership!Next
  <2> DEFINE extra == <<LocalReply(q)>>
             E == {q}
             needed == DueAfter(q)
  <2>0. LocalReply(q) \in Items /\ needed \in BOOLEAN
    BY <1>0, ItemTypes DEF TypeOK, SessionType, DueAfter
  <2>3. received' = Ownership!PlusReceipts(E)
    BY <1>0, <1>2, OneReceipt
  <2>1. /\ extra \in Seq(Items) /\ (extra = <<>> \/ \E y \in Items : extra = <<y>>)
        /\ HandOver("device", extra, needed) /\ E \in {{}} \cup {{r} : r \in Records}
    BY <1>2, <2>0
  <2>2. ASSUME NEW r \in Records
        PROVE  /\ CountOf(extra, {LocalReply(r)}) = IF r \in E THEN 1 ELSE 0
               /\ CountOf(extra, {Relayed(r)}) = 0
    <3>1. /\ LocalReply(q) \in Items /\ Relayed(r) # LocalReply(q)
          /\ LocalReply(r) = LocalReply(q) <=> r = q
      BY ItemTypes DEF LocalReply, Relayed
    <3> DEFINE x == LocalReply(r)
               y == Relayed(r)
    <3>2. CountOf(extra, {x}) = IF x = LocalReply(q) THEN 1 ELSE 0
      BY <3>1, SingleCount
    <3>3. CountOf(extra, {y}) = IF y = LocalReply(q) THEN 1 ELSE 0
      BY <3>1, SingleCount
    <3> QED
      BY <3>1, <3>2, <3>3
  <2> HIDE DEF extra, E, needed
  <2> QED
    BY <1>0, <1>2, <2>0, <2>1, <2>2, <2>3, HandOverStep
<1> QED
  BY <1>1, <1>2 DEF TakesOver

LEMMA ForwardStep ==
  ASSUME Facts, open, NEW r \in Records, ReceiveForward(r)
  PROVE  Ownership!Next
<1>1. TypeOK /\ cloud /\ UNCHANGED <<open, cloud, fellBack, work, answers>>
      /\ awaiting' = Outstanding(r) /\ received' = [received EXCEPT ![r] = @ + 1]
  BY DEF ReceiveForward, Receive, Facts
<1>2. Claims' = Claims
  BY <1>1, PlainClaims, SameClaims
<1>3. Owner = "cloud" /\ Owner' = "cloud"
  BY <1>1 DEF Owner
<1>4. Owed' \in {Owed, Owed \cup {r}}
  BY <1>1, <1>3, OutstandingSet DEF Owed
<1>5. Ownership!ReceiveForCloud(r)
  BY <1>1, <1>2, <1>3, <1>4 DEF Ownership!ReceiveForCloud
<1> QED
  BY <1>5 DEF Ownership!Next

LEMMA LocalStep ==
  ASSUME Facts, open, NEW r \in Records, ReceiveLocal(r)
  PROVE  Ownership!Next
<1>1. /\ TypeOK /\ ~cloud /\ ~Connecting /\ UNCHANGED <<open, cloud, fellBack, awaiting, answers>>
      /\ received' = [received EXCEPT ![r] = @ + 1]
  BY DEF ReceiveLocal, Receive, Facts, Connecting
<1>2. Owner = "local" /\ Owner' = "local" /\ Owed' = Owed
  BY <1>1 DEF Owner, Owed, Facts, FallbackShape
<1>3. \A p \in Owners, q \in Records :
        ClaimedBy(p, q)' = IF p = "local" /\ q = r THEN ClaimedBy("local", r) + 1 ELSE ClaimedBy(p, q)
  BY ReceiveLocalClaims
<1>4. "local" \in Owners /\ Claims["local"][r] = ClaimedBy("local", r)
  BY ClaimsAre DEF Owners
<1>5. Claims' = [Claims EXCEPT !["local"][r] = ClaimedBy("local", r) + 1]
  BY <1>3, <1>4, ClaimChanges
<1>6. Ownership!ReceiveLocally(r)
  BY <1>1, <1>2, <1>4, <1>5 DEF Ownership!ReceiveLocally
<1> QED
  BY <1>6 DEF Ownership!Next

LEMMA AckStep ==
  ASSUME Facts, open, CloudFrame, Head(fromCloud).kind = "ack"
  PROVE  Ownership!Next
<1> DEFINE q == Head(fromCloud).rec
<1>1. /\ TypeOK /\ cloud /\ UNCHANGED <<open, cloud, fellBack, answers, received>>
      /\ awaiting \in Seq(Records) /\ Distinct(awaiting) /\ awaiting' = Settle(awaiting, q)
  BY DEF CloudFrame, history, Facts, TypeOK, SessionType, AwaitingBounded
<1>2. q \in Records /\ Promised(q) < received[q]
  BY AckAccount
<1>3. Owner = "cloud" /\ Owner' = "cloud" /\ Owed' = Owed \ {q}
  BY <1>1, SettleSet DEF Owner, Owed
<1>4. \A o \in Owners, r \in Records :
        ClaimedBy(o, r)' = IF o = "cloud" /\ r = q THEN ClaimedBy(o, r) + 1 ELSE ClaimedBy(o, r)
  BY CloudFrameClaims DEF Facts
<1> HIDE DEF q
<1>5. /\ "cloud" \in Owners /\ "local" \in Owners
      /\ Claims["cloud"][q] = ClaimedBy("cloud", q) /\ Claims["local"][q] = ClaimedBy("local", q)
  BY <1>2, ClaimsAre DEF Owners
<1>6. \A p \in Owners, r \in Records :
        ClaimedBy(p, r)' = IF p = "cloud" /\ r = q THEN ClaimedBy("cloud", q) + 1 ELSE ClaimedBy(p, r)
  BY <1>4
<1>7. Claims' = [Claims EXCEPT !["cloud"][q] = ClaimedBy("cloud", q) + 1]
  BY <1>2, <1>5, <1>6, ClaimChanges
<1>8. Ownership!Total(q) < received[q]
  BY <1>2, <1>5 DEF Promised, Ownership!Total
<1>9. Ownership!CloudClaims(q)
  BY <1>1, <1>3, <1>5, <1>7, <1>8 DEF Ownership!CloudClaims
<1> QED
  BY <1>2, <1>9 DEF Ownership!Next

LEMMA SendStep ==
  ASSUME Facts, NEW t \in Tasks, SendBegin(t)
  PROVE  Ownership!Next \/ UNCHANGED Ownership!vars
<1>1. TypeOK /\ WorkShape /\ UNCHANGED <<Owner, Owed, received>>
  BY DEF SendBegin, session, Owner, Owed, Facts
<1>2. CASE SameInWork /\ UNCHANGED answers
  BY <1>1, <1>2, StutterStep
<1>3. ASSUME NEW o \in Owners, NEW q \in Records, ClaimedBy(o, q) > 0,
             answers' = [answers EXCEPT ![o][q] = @ + 1],
             \A p \in Owners, r \in Records :
               ClaimedBy(p, r)' = IF p = o /\ r = q THEN ClaimedBy(o, q) - 1 ELSE ClaimedBy(p, r)
      PROVE  Ownership!Next
  <2>1. Claims[o][q] = ClaimedBy(o, q)
    BY ClaimsAre
  <2>2. Claims' = [Claims EXCEPT ![o][q] = ClaimedBy(o, q) - 1]
    BY <1>3, ClaimChanges
  <2>3. Ownership!Answer(o, q)
    BY <1>1, <1>3, <2>1, <2>2 DEF Ownership!Answer
  <2> QED
    BY <2>3 DEF Ownership!Next, Ownership!Owners, Owners
<1> QED
  BY <1>1, <1>2, <1>3, SendBeginAnswers

LEMMA DroppedStep ==
  ASSUME Facts, open, Dropped
  PROVE  Ownership!Next
<1>0. TypeOK /\ "local" \in AnswerKinds /\ "cloud" \in AnswerKinds
      /\ "cloud" \in Owners /\ "local" \in Owners
  BY DEF Facts, AnswerKinds, Owners
<1>1. PICK t \in Tasks \ {"device"} : \A q \in Records :
        /\ InWork(t, "local", q)' = 0 /\ InWork(t, "cloud", q) = 0 /\ InWork(t, "cloud", q)' = 0
        /\ \A u \in Tasks \ {t}, kind \in AnswerKinds : InWork(u, kind, q)' = InWork(u, kind, q)
  BY <1>0, DroppedClaims
<1> DEFINE lost == {q \in Records : InWork(t, "local", q) = 1}
<1>2. /\ UNCHANGED <<Owner, Owed, received, answers>> /\ Owner # "closed"
  BY DEF Dropped, Owner, Owed
<1>3. \A u \in Tasks : \A kind, q : InWork(u, kind, q) \in Nat
  BY <1>0, CountedInWork, CountType DEF TypeOK, TasksType
<1>4. \A r \in Records : ClaimedBy("cloud", r)' = ClaimedBy("cloud", r)
  BY <1>0, <1>1 DEF ClaimedBy, Tasks
<1>5. ASSUME NEW r \in Records
      PROVE  /\ ClaimedBy("local", r)' = IF r \in lost THEN ClaimedBy("local", r) - 1
                                                       ELSE ClaimedBy("local", r)
             /\ r \in lost => ClaimedBy("local", r) > 0
  <2> DEFINE i == InWork("device", "local", r)
             j == InWork("cloud", "local", r)
             k == InWork("deadline", "local", r)
             m == InWork(t, "local", r)
  <2>1. i \in Nat /\ j \in Nat /\ k \in Nat
    BY <1>3 DEF Tasks
  <2>2. m \in {0, 1} /\ (r \in lost <=> m = 1)
    <3>1. m \in Nat /\ m <= 1
      BY <1>3 DEF Facts, OnceAnswered
    <3>2. r \in lost <=> m = 1
      OBVIOUS
    <3>3. \A n \in Nat : n <= 1 => n \in {0, 1}
      OBVIOUS
    <3> QED
      BY <3>1, <3>2, <3>3
  <2>3. i' = i /\ ((m = j /\ j' = 0 /\ k' = k) \/ (m = k /\ j' = j /\ k' = 0))
    BY <1>0, <1>1 DEF Tasks
  <2>4. ClaimedBy("local", r) = i + j + k /\ ClaimedBy("local", r)' = i' + j' + k'
    BY DEF ClaimedBy
  <2> HIDE DEF i, j, k, m, lost
  <2>5. CASE m = 1
    BY <2>1, <2>2, <2>3, <2>4, <2>5
  <2>6. CASE m = 0
    BY <2>1, <2>2, <2>3, <2>4, <2>6
  <2> QED
    BY <2>2, <2>5, <2>6
<1> HIDE DEF lost
<1> DEFINE h == [r \in Records |-> IF r \in lost THEN Claims["local"][r] - 1 ELSE Claims["local"][r]]
<1>6. \A r \in Records : Claims["local"][r] = ClaimedBy("local", r)
  BY <1>0, ClaimsAre
<1>7. [r \in Records |-> ClaimedBy("local", r)'] = h
  BY <1>5, <1>6
<1>8. Claims' = [Claims EXCEPT !["local"] = h]
  BY <1>4, <1>7, LocalClaimsChange
<1>9. lost \in SUBSET Records
  BY DEF lost
<1>10. Ownership!Abandon(lost)
  BY <1>2, <1>5, <1>6, <1>8, <1>9 DEF Ownership!Abandon
<1> QED
  BY <1>9, <1>10 DEF Ownership!Next

LEMMA StepRefines == Facts /\ [Next]_vars => [Ownership!Next]_(Ownership!vars)
<1> SUFFICES ASSUME Facts, [Next]_vars
             PROVE  Ownership!Next \/ UNCHANGED Ownership!vars
  OBVIOUS
<1>1. CASE ~open
  <2>1. UNCHANGED vars
    BY <1>1, OverIsOver DEF Facts
  <2>2. SameInWork /\ UNCHANGED <<Owner, Owed, received, answers>>
    BY <2>1, PlainClaims DEF vars, session, tasks, history, Owner, Owed
  <2> QED
    BY <2>2, StutterStep
<1>2. CASE open
  <2>1. CASE Silent
    BY <2>1, StutterStep DEF Silent
  <2>2. CASE Opened \/ Closed \/ TakesOver \/ Dropped
    BY <1>2, <2>2, OpenedStep, ClosedStep, TakesOverStep, DroppedStep
  <2>3. CASE \E r \in Records : ReceiveForward(r) \/ ReceiveLocal(r)
    BY <1>2, <2>3, ForwardStep, LocalStep
  <2>4. CASE CloudFrame /\ Head(fromCloud).kind = "ack"
    BY <1>2, <2>4, AckStep
  <2>5. CASE \E t \in Tasks : SendBegin(t)
    BY <2>5, SendStep
  <2> QED
    BY <1>2, <2>1, <2>2, <2>3, <2>4, <2>5, StepKinds
<1> QED
  BY <1>1, <1>2

LEMMA InitFacts == Init => Facts
<1> SUFFICES ASSUME Init PROVE Facts
  OBVIOUS
<1>1. SendsWhatItOwes
  BY InitOwes
<1>2. \A t \in Tasks : work[t] = <<>>
  BY DEF Init
<1>3. \A t \in Tasks, kind \in AnswerKinds, r \in Records : InWork(t, kind, r) = 0
  BY <1>2, NoWorkClaims
<1>4. OnceAnswered
  BY <1>3 DEF OnceAnswered, AnswerKinds
<1>5. AckFrames
  BY DEF Init, AckFrames
<1>6. ASSUME NEW r \in Records PROVE Promised(r) + atCloud[r] + FramesAbout(r) <= received[r]
  <2>1. FramesAbout(r) = 0
    BY CountEmpty DEF Init, FramesAbout
  <2>2. ClaimedBy("cloud", r) = 0 /\ ClaimedBy("local", r) = 0
    BY <1>3 DEF ClaimedBy, Tasks, AnswerKinds
  <2>3. /\ answers["cloud"][r] = 0 /\ answers["local"][r] = 0
        /\ atCloud[r] = 0 /\ received[r] = 0
    BY DEF Init, None, Owners
  <2> QED
    BY <2>1, <2>2, <2>3 DEF Promised
<1>7. CloudIsAccountable
  BY <1>6 DEF CloudIsAccountable
<1> QED
  BY <1>1, <1>4, <1>5, <1>7 DEF Facts, SendsWhatItOwes, IInv

\* The invariant under which every step refines AckOwnership.
KeepsPromises == SendsWhatItOwes /\ Facts

LEMMA InitPromises == Init => KeepsPromises
  BY InitOwes, InitFacts DEF KeepsPromises

LEMMA PromisesPreserved == KeepsPromises /\ [Next]_vars => KeepsPromises'
<1> SUFFICES ASSUME KeepsPromises, [Next]_vars PROVE KeepsPromises'
  OBVIOUS
<1>1. SendsWhatItOwes'
  BY OwesPreserved DEF KeepsPromises
<1>2. AckFrames'
  BY AckFramesPreserved DEF KeepsPromises, Facts
<1>3. CloudIsAccountable' /\ OnceAnswered'
  <2>1. CASE open
    BY <2>1, CloudIsAccountablePreserved, OnceAnsweredPreserved DEF KeepsPromises
  <2>2. CASE ~open
    <3>1. UNCHANGED vars
      BY <2>2, OverIsOver DEF KeepsPromises, Facts
    <3>2. SameInWork /\ UNCHANGED <<answers, atCloud, fromCloud, received, cloud, pc>>
      BY <3>1, PlainClaims DEF vars, session, tasks, environment, history
    <3>3. CloudIsAccountable'
      BY <3>2, SameAccount DEF KeepsPromises, Facts, Connecting
    <3>4. OnceAnswered'
      BY <3>2 DEF SameInWork, OnceAnswered, KeepsPromises, Facts, AnswerKinds
    <3> QED
      BY <3>3, <3>4
  <2> QED
    BY <2>1, <2>2
<1> QED
  BY <1>1, <1>2, <1>3 DEF KeepsPromises, Facts, SendsWhatItOwes, IInv

\* Every step of a relay session is a step AckOwnership allows, or leaves its
\* picture alone: the three tasks, the lock on the datalogger's socket, the
\* fallback run by any of them and a failed write between them never make two
\* owners answer, nor give an answer nobody decided on.
THEOREM SessionOwnsAnswers == Spec => ImplementsAckOwnership
<1>1. KeepsPromises => Facts
  BY DEF KeepsPromises
<1>2. Facts /\ [Next]_vars => [Ownership!Next]_(Ownership!vars)
  BY StepRefines
<1> QED
  BY <1>1, <1>2, InitRefines, InitPromises, PromisesPreserved, PTL
     DEF Spec, ImplementsAckOwnership, Ownership!Spec

OwnershipProofs == INSTANCE AckOwnershipProofs WITH
  owner <- Owner, owed <- Owed, claims <- Claims

\* The promises proved of AckOwnership are those the session implements.
LEMMA SameOwnership ==
  /\ Ownership!Init => OwnershipProofs!Init
  /\ Ownership!Next => OwnershipProofs!Next
  /\ Ownership!vars = OwnershipProofs!vars
  /\ OwnershipProofs!AtMostOneAnswer => Ownership!AtMostOneAnswer
<1>1. Ownership!Init => OwnershipProofs!Init
  BY DEF Ownership!Init, OwnershipProofs!Init, Ownership!None, OwnershipProofs!None,
         Ownership!Owners, OwnershipProofs!Owners
<1>2. Ownership!vars = OwnershipProofs!vars
  BY DEF Ownership!vars, OwnershipProofs!vars
<1>3. OwnershipProofs!AtMostOneAnswer => Ownership!AtMostOneAnswer
  BY DEF Ownership!AtMostOneAnswer, OwnershipProofs!AtMostOneAnswer
<1>4. Ownership!Next => OwnershipProofs!Next
  <2>1. \A extra : Ownership!PlusReceipts(extra) = OwnershipProofs!PlusReceipts(extra)
    BY DEF Ownership!PlusReceipts, OwnershipProofs!PlusReceipts
  <2>2. \A o : Ownership!Open(o) => OwnershipProofs!Open(o)
    BY DEF Ownership!Open, OwnershipProofs!Open
  <2>3. \A r : /\ Ownership!ReceiveForCloud(r) => OwnershipProofs!ReceiveForCloud(r)
               /\ Ownership!ReceiveLocally(r) => OwnershipProofs!ReceiveLocally(r)
               /\ Ownership!CloudClaims(r) => OwnershipProofs!CloudClaims(r)
    BY DEF Ownership!ReceiveForCloud, OwnershipProofs!ReceiveForCloud,
           Ownership!ReceiveLocally, OwnershipProofs!ReceiveLocally,
           Ownership!CloudClaims, OwnershipProofs!CloudClaims, Ownership!Total, OwnershipProofs!Total
  <2>4. \A extra : Ownership!HandOver(extra) => OwnershipProofs!HandOver(extra)
    BY <2>1 DEF Ownership!HandOver, OwnershipProofs!HandOver
  <2>5. \A extra : Ownership!Close(extra) => OwnershipProofs!Close(extra)
    BY <2>1 DEF Ownership!Close, OwnershipProofs!Close, Ownership!Owners, OwnershipProofs!Owners,
                Ownership!None, OwnershipProofs!None
  <2>6. \A o, r : Ownership!Answer(o, r) => OwnershipProofs!Answer(o, r)
    BY DEF Ownership!Answer, OwnershipProofs!Answer
  <2>7. \A lost : Ownership!Abandon(lost) => OwnershipProofs!Abandon(lost)
    BY DEF Ownership!Abandon, OwnershipProofs!Abandon
  <2> QED
    BY <2>2, <2>3, <2>4, <2>5, <2>6, <2>7
       DEF Ownership!Next, OwnershipProofs!Next, Ownership!Owners, OwnershipProofs!Owners
<1> QED
  BY <1>1, <1>2, <1>3, <1>4

\* The cloud and the relay together acknowledge a record no more often than the
\* datalogger sent it.
THEOREM AnsweredOnce == Spec => []Ownership!AtMostOneAnswer
<1>1. OwnershipProofs!Spec => []OwnershipProofs!AtMostOneAnswer
  BY OwnershipProofs!NeverAnsweredTwice
<1>2. [Ownership!Next]_(Ownership!vars) => [OwnershipProofs!Next]_(OwnershipProofs!vars)
  <2>1. CASE Ownership!Next
    BY <2>1, SameOwnership
  <2>2. CASE UNCHANGED Ownership!vars
    BY <2>2 DEF Ownership!vars, OwnershipProofs!vars
  <2> QED
    BY <2>1, <2>2
<1> QED
  BY <1>1, <1>2, SameOwnership, SessionOwnsAnswers, PTL
     DEF ImplementsAckOwnership, Ownership!Spec, OwnershipProofs!Spec
=============================================================================
