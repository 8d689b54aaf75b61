------------------------------ MODULE RelaySession ------------------------------
(***************************************************************************)
(* One datalogger connection of the relay (RelaySession and the tasks that *)
(* serve it in relay.py).                                                  *)
(*                                                                         *)
(* Three tasks share a session on one event loop and interleave only where *)
(* they await: _device_frames reads the datalogger, _cloud_frames reads    *)
(* the cloud, _cloud_deadline watches the oldest unanswered record.  Each  *)
(* of them may run _fallback, which moves the acknowledgements from the    *)
(* cloud to the relay.  An action is the code between two awaits.          *)
(*                                                                         *)
(* Frames to the datalogger go through _send_device: the task waits for    *)
(* send_lock, writes, and waits for drain with a deadline.  work[t] holds  *)
(* what task t has still to send before it goes on; sending is the write   *)
(* whose drain is awaited, so it also stands for the lock.                 *)
(***************************************************************************)
EXTENDS Integers, FiniteSets, SequencesExt

CONSTANTS
  Data,           \* records that expect an acknowledgement and nothing else
  Announces,      \* datalogger announcements: they expect a clock as well
  NoRecord,       \* the record of a frame that is not an acknowledgement
  QueueSize,      \* settings.queue_size, the limit of awaiting_cloud
  MaxReceipts,    \* bound: records received in a session, repeats included
  MaxClocks,      \* bound: clock commands the cloud sends
  MaxStalls       \* bound: writes to the datalogger that fail

Records == Data \cup Announces

ASSUME SessionAssumption ==
  /\ Data \cap Announces = {}
  /\ NoRecord \notin Records
  /\ QueueSize \in Nat \ {0}
  /\ MaxReceipts \in Nat /\ MaxClocks \in Nat /\ MaxStalls \in Nat

Tasks == {"device", "cloud", "deadline"}
Owners == {"cloud", "local"}

\* Where a task awaits: for its stream, for the drain of the upstream write, for
\* its next wake-up, or for what it sends as a reply, a relayed frame, a fallback.
Places == {"connect", "off", "read", "upstream", "watch", "reply", "relay", "fallback",
           "done"}

\* What a task sends: a frame of the cloud, a local acknowledgement, a clock
\* command, or the last line of _fallback, which sends a clock if one is due.
Items == [kind : {"cloud", "local", "clock", "check"}, rec : Records \cup {NoRecord}]
Relayed(r) == [kind |-> "cloud", rec |-> r]
LocalReply(r) == [kind |-> "local", rec |-> r]
Clock == [kind |-> "clock", rec |-> NoRecord]
ClockIfNeeded == [kind |-> "check", rec |-> NoRecord]

\* What the cloud sends: an acknowledgement, one that arrives damaged (it does
\* not parse), one the command policy blocks, or a clock command.
CloudFrames == [kind : {"ack", "damaged", "blocked", "clock"},
                rec : Records \cup {NoRecord}]

NoSend == [task |-> "none", item |-> Clock]

VARIABLES
  open,         \* the session's task has not entered its finally block
  writerOpen,   \* session.writer is not closing
  cloud,        \* session.cloud
  fellBack,     \* session.fell_back
  awaiting,     \* session.awaiting_cloud, oldest first
  clockNeeded,  \* session.clock_needed
  pc,           \* where each task awaits
  work,         \* what each task has still to send
  sending,      \* the write being drained, and with it send_lock
  cloudFallback,\* settings.cloud_fallback
  atCloud,      \* records the cloud has received and not answered
  fromCloud,    \* the cloud's frames not yet read
  received,     \* history: receipts of each record
  answers,      \* history: acknowledgements written, by who gave them
  clocks,       \* count of clock commands sent by the cloud
  stalls        \* count of failed writes to the datalogger

session == <<open, writerOpen, cloud, fellBack, awaiting, clockNeeded>>
tasks == <<pc, work, sending>>
environment == <<cloudFallback, atCloud, fromCloud>>
history == <<received, answers, clocks, stalls>>
vars == <<session, tasks, environment, history>>

None == [r \in Records |-> 0]

Init ==
  /\ open = TRUE /\ writerOpen = TRUE
  /\ cloud = FALSE /\ fellBack = FALSE
  /\ awaiting = <<>>
  /\ clockNeeded = FALSE
  /\ pc = [t \in Tasks |-> IF t = "device" THEN "connect" ELSE "off"]
  /\ work = [t \in Tasks |-> <<>>]
  /\ sending = NoSend
  /\ cloudFallback \in BOOLEAN
  /\ atCloud = None /\ fromCloud = <<>>
  /\ received = None
  /\ answers = [o \in Owners |-> None]
  /\ clocks = 0 /\ stalls = 0

-----------------------------------------------------------------------------
(* What the tasks do between awaits.                                       *)

\* The outstanding records without r, of which there is at most one entry.
Settle(s, r) ==
  IF Contains(s, r) THEN RemoveAt(s, CHOOSE i \in DOMAIN s : s[i] = r) ELSE s

\* Defect: a fallback forgets the clock it owes.
SettledWithoutClock(w, needed) == IF w # <<>> /\ Head(w) = ClockIfNeeded THEN Tail(w) ELSE w

\* Remaining work once the clock check at its head, if any, has been made.
Settled(w, needed) ==
  IF w # <<>> /\ Head(w) = ClockIfNeeded
  THEN (IF needed THEN <<Clock>> ELSE <<>>) \o Tail(w)
  ELSE w

\* Where a task that has nothing left to send awaits next.
Resumed(t, isCloud) ==
  CASE t = "device" -> "read"
    [] t = "cloud" -> IF pc["cloud"] = "relay" /\ isCloud THEN "read" ELSE "done"
    [] t = "deadline" -> IF isCloud THEN "watch" ELSE "done"

\* Task t goes on with w to send, awaiting at place until it is sent.
GoOn(t, w, place, needed, isCloud) ==
  LET rest == Settled(w, needed) IN
    /\ work' = [work EXCEPT ![t] = rest]
    /\ pc' = [pc EXCEPT ![t] = IF rest = <<>> THEN Resumed(t, isCloud) ELSE place]

\* The session's finally block: the other tasks are cancelled where they
\* await, which releases the lock, and both connections are closed.
Finish ==
  /\ open' = FALSE /\ writerOpen' = FALSE /\ cloud' = FALSE
  /\ pc' = [t \in Tasks |-> "done"]
  /\ work' = [t \in Tasks |-> <<>>]
  /\ sending' = NoSend
  /\ UNCHANGED <<fellBack, awaiting, clockNeeded>>

\* Defect: the outstanding records are answered but not forgotten.
HandOverKeepingRecords(t, extra, needed) ==
  /\ ~fellBack /\ cloudFallback
  /\ fellBack' = TRUE /\ cloud' = FALSE
  /\ GoOn(t, [i \in DOMAIN awaiting |-> LocalReply(awaiting[i])]
                \o <<ClockIfNeeded>> \o extra, "fallback", needed, FALSE)
  /\ clockNeeded' = needed
  /\ UNCHANGED <<open, writerOpen, awaiting>>

\* _fallback run by task t, which then sends extra.  The outstanding records
\* are snapshotted and forgotten before the first of them is answered.
HandOver(t, extra, needed) ==
  /\ ~fellBack /\ cloudFallback
  /\ fellBack' = TRUE /\ cloud' = FALSE /\ awaiting' = <<>>
  /\ GoOn(t, [i \in DOMAIN awaiting |-> LocalReply(awaiting[i])]
                \o <<ClockIfNeeded>> \o extra, "fallback", needed, FALSE)
  /\ clockNeeded' = needed
  /\ UNCHANGED <<open, writerOpen>>

\* _fallback with cloud_fallback disabled: the datalogger is disconnected and
\* the exception ends the task, for the device task the session.
Disconnect(t) ==
  /\ ~fellBack /\ ~cloudFallback
  /\ fellBack' = TRUE
  /\ writerOpen' = FALSE
  /\ IF t = "device"
     THEN /\ open' = FALSE /\ cloud' = FALSE
          /\ pc' = [u \in Tasks |-> "done"]
          /\ work' = [u \in Tasks |-> <<>>]
     ELSE /\ pc' = [pc EXCEPT ![t] = "done"]
          /\ work' = [work EXCEPT ![t] = <<>>]
          /\ UNCHANGED <<open, cloud>>
  /\ UNCHANGED <<awaiting, clockNeeded>>

\* _fallback of a session that has fallen back already does nothing.
AlreadyHandedOver(t) ==
  /\ fellBack
  /\ GoOn(t, <<>>, "fallback", clockNeeded, cloud)
  /\ UNCHANGED session

\* The outcomes of a call of _fallback.
Fallback(t) ==
  \/ HandOver(t, <<>>, clockNeeded)
  \/ Disconnect(t)
  \/ AlreadyHandedOver(t)

\* The lock stays with its holder unless the session ended.
KeepLock == sending' = IF open' THEN sending ELSE NoSend

-----------------------------------------------------------------------------
(* _session and the end of the session.                                    *)

ConnectCloud ==
  /\ open /\ pc["device"] = "connect"
  /\ cloud' = TRUE
  /\ pc' = [t \in Tasks |-> IF t = "deadline" THEN "watch" ELSE "read"]
  /\ UNCHANGED <<open, writerOpen, fellBack, awaiting, clockNeeded, work, sending,
                 environment, history>>

ConnectFails ==
  /\ open /\ pc["device"] = "connect"
  /\ Fallback("device") /\ KeepLock
  /\ UNCHANGED <<environment, history>>

\* The datalogger disconnects, stays silent too long or breaks the protocol,
\* or the relay is closed, which cancels the session wherever it awaits.
SessionEnds ==
  /\ open
  /\ Finish
  /\ UNCHANGED <<environment, history>>

\* Another session takes over the inverter, or recovery invites the datalogger
\* to reconnect: the writer closes and the tasks find out later.
WriterCloses ==
  /\ open /\ writerOpen
  /\ writerOpen' = FALSE
  /\ UNCHANGED <<open, cloud, fellBack, awaiting, clockNeeded, tasks, environment, history>>

-----------------------------------------------------------------------------
(* _device_frames.  The datalogger's frames are read one at a time; what a *)
(* receipt needs sent is sent before the next frame is read.               *)

Receipts == MapThenSumSet(LAMBDA r : received[r], Records)

\* A record is received.  An announcement makes a clock due (_identify).
Receive(r) ==
  /\ open /\ pc["device"] = "read"
  /\ Receipts < MaxReceipts
  /\ received' = [received EXCEPT ![r] = @ + 1]

DueAfter(r) == clockNeeded \/ r \in Announces

\* The record becomes outstanding, unless it already is.
Outstanding(r) ==
  IF Contains(awaiting, r) \/ Len(awaiting) >= QueueSize THEN awaiting ELSE Append(awaiting, r)

\* The cloud answers: the record is written to the cloud, whose drain is awaited.
ReceiveForward(r) ==
  /\ Receive(r)
  /\ cloud
  /\ Len(awaiting) < QueueSize \/ fellBack
  /\ awaiting' = Outstanding(r)
  /\ clockNeeded' = DueAfter(r)
  /\ atCloud' = [atCloud EXCEPT ![r] = @ + 1]
  /\ pc' = [pc EXCEPT !["device"] = "upstream"]
  /\ UNCHANGED <<open, writerOpen, cloud, fellBack, work, sending,
                 cloudFallback, fromCloud, answers, clocks, stalls>>

\* Too many records are outstanding: the relay takes over and answers this one
\* after them; with cloud_fallback disabled the session ends instead.
ReceiveOverflow(r) ==
  /\ Receive(r)
  /\ cloud /\ Len(awaiting) >= QueueSize
  /\ HandOver("device", <<LocalReply(r)>>, DueAfter(r)) \/ Disconnect("device")
  /\ KeepLock
  /\ UNCHANGED <<environment, answers, clocks, stalls>>

\* The relay answers.
ReceiveLocal(r) ==
  /\ Receive(r)
  /\ ~cloud
  /\ clockNeeded' = DueAfter(r)
  /\ GoOn("device", <<LocalReply(r)>>, "reply", clockNeeded', FALSE)
  /\ UNCHANGED <<open, writerOpen, cloud, fellBack, awaiting, sending, environment,
                 answers, clocks, stalls>>

\* The forwarded record is accepted by the connection to the cloud.
UpstreamDrained ==
  /\ pc["device"] = "upstream"
  /\ pc' = [pc EXCEPT !["device"] = "read"]
  /\ UNCHANGED <<session, work, sending, environment, history>>

\* Defect: the record whose forwarding failed is answered once more.
UpstreamFailsTwice ==
  /\ pc["device"] = "upstream"
  /\ \/ \E r \in ToSet(awaiting) : HandOver("device", <<LocalReply(r)>>, clockNeeded)
     \/ Disconnect("device")
     \/ AlreadyHandedOver("device")
  /\ KeepLock
  /\ UNCHANGED <<environment, history>>

\* Or that connection fails or stalls: "this record was among those
\* acknowledged by fallback", whichever task ran it.
UpstreamFails ==
  /\ pc["device"] = "upstream"
  /\ Fallback("device") /\ KeepLock
  /\ UNCHANGED <<environment, history>>

-----------------------------------------------------------------------------
(* The cloud, and _cloud_frames.                                           *)

\* The cloud answers a record it received, in any order.
CloudAnswers(r) ==
  /\ open /\ cloud
  /\ atCloud[r] > 0
  /\ \E kind \in {"ack", "damaged", "blocked"} :
       fromCloud' = Append(fromCloud, [kind |-> kind, rec |-> r])
  /\ atCloud' = [atCloud EXCEPT ![r] = @ - 1]
  /\ UNCHANGED <<session, tasks, cloudFallback, history>>

CloudSendsClock ==
  /\ open /\ cloud
  /\ clocks < MaxClocks
  /\ clocks' = clocks + 1
  /\ fromCloud' = Append(fromCloud, [kind |-> "clock", rec |-> NoRecord])
  /\ UNCHANGED <<session, tasks, cloudFallback, atCloud, received, answers, stalls>>

CloudTaskReads == pc["cloud"] = "read" /\ fromCloud # <<>>

\* After the hand-over a frame that still arrives is discarded and the task
\* ends.
CloudFrameAfterHandOver ==
  /\ CloudTaskReads
  /\ ~cloud
  /\ fromCloud' = Tail(fromCloud)
  /\ pc' = [pc EXCEPT !["cloud"] = "done"]
  /\ UNCHANGED <<session, work, sending, cloudFallback, atCloud, history>>

\* Defect: a blocked acknowledgement settles its record.
CloudFrameBlockedSettles ==
  /\ CloudTaskReads
  /\ cloud
  /\ Head(fromCloud).kind = "blocked"
  /\ awaiting' = Settle(awaiting, Head(fromCloud).rec)
  /\ fromCloud' = Tail(fromCloud)
  /\ UNCHANGED <<open, writerOpen, cloud, fellBack, clockNeeded, tasks, cloudFallback, atCloud,
                 history>>

\* A blocked frame is dropped and settles nothing.
CloudFrameBlocked ==
  /\ CloudTaskReads
  /\ cloud
  /\ Head(fromCloud).kind = "blocked"
  /\ fromCloud' = Tail(fromCloud)
  /\ UNCHANGED <<session, tasks, cloudFallback, atCloud, history>>

\* An acknowledgement settles its record before the task waits for the lock;
\* a clock command settles the clock; a damaged frame is only forwarded.
CloudFrame ==
  /\ CloudTaskReads
  /\ cloud
  /\ LET f == Head(fromCloud)
     IN /\ f.kind # "blocked"
        /\ awaiting' = IF f.kind = "ack"
                       THEN Settle(awaiting, f.rec)
                       ELSE awaiting
        /\ clockNeeded' = (clockNeeded /\ f.kind # "clock")
        /\ GoOn("cloud", <<Relayed(IF f.kind = "ack" THEN f.rec ELSE NoRecord)>>,
                "relay", FALSE, TRUE)
  /\ fromCloud' = Tail(fromCloud)
  /\ UNCHANGED <<open, writerOpen, cloud, fellBack, sending, cloudFallback, atCloud,
                 history>>

\* The finally block of _cloud_frames: hand over unless that is pointless.
CloudTaskEnds ==
  \/ cloud /\ writerOpen /\ Fallback("cloud")
  \/ /\ ~(cloud /\ writerOpen)
     /\ pc' = [pc EXCEPT !["cloud"] = "done"]
     /\ work' = [work EXCEPT !["cloud"] = <<>>]
     /\ UNCHANGED session

\* The cloud disconnects, is silent too long or sends an unframed stream.
CloudDisconnects ==
  /\ pc["cloud"] = "read"
  /\ CloudTaskEnds
  /\ UNCHANGED <<sending, environment, history>>

-----------------------------------------------------------------------------
(* _cloud_deadline.                                                        *)

\* Defect: a single outstanding record is not watched.
DeadlineExpiresLate ==
  /\ pc["deadline"] = "watch"
  /\ Len(awaiting) > 1
  /\ Fallback("deadline")
  /\ UNCHANGED <<sending, environment, history>>

\* The oldest outstanding record has waited for cloud_response_seconds.
DeadlineExpires ==
  /\ pc["deadline"] = "watch"
  /\ awaiting # <<>>
  /\ Fallback("deadline")
  /\ UNCHANGED <<sending, environment, history>>

\* The loop ends once the cloud no longer answers.
DeadlineStops ==
  /\ pc["deadline"] = "watch"
  /\ ~cloud
  /\ pc' = [pc EXCEPT !["deadline"] = "done"]
  /\ UNCHANGED <<session, work, sending, environment, history>>

-----------------------------------------------------------------------------
(* _send_device.                                                           *)

\* The lock is free: task t takes it and writes its next frame.
SendBegin(t) ==
  /\ sending = NoSend
  /\ work[t] # <<>>
  /\ LET item == Head(work[t])
         owner == IF item.kind = "cloud" THEN "cloud" ELSE "local"
     IN /\ sending' = [task |-> t, item |-> item]
        /\ answers' = IF item.rec \in Records
                      THEN [answers EXCEPT ![owner][item.rec] = @ + 1]
                      ELSE answers
  /\ work' = [work EXCEPT ![t] = Tail(@)]
  /\ UNCHANGED <<session, pc, environment, received, clocks, stalls>>

\* The write drains: the lock is released and the task goes on.  The local
\* answer to an announcement is followed by a clock command (_local_reply).
SendDone(t) ==
  /\ sending # NoSend /\ sending.task = t
  /\ clockNeeded' = (clockNeeded /\ sending.item # Clock)
  /\ LET follow == IF sending.item.kind = "local" /\ sending.item.rec \in Announces
                   THEN <<Clock>> ELSE <<>>
     IN GoOn(t, follow \o work[t], pc[t], clockNeeded', cloud)
  /\ sending' = NoSend
  /\ UNCHANGED <<open, writerOpen, cloud, fellBack, awaiting, environment, history>>

\* The write does not drain within write_seconds, or the connection is gone.
\* The exception drops what the task had still to send: it ends the session of
\* the device task, sends the cloud task to its finally block, and is only
\* noticed when the session ends for the deadline task.
SendFails(t) ==
  /\ sending # NoSend /\ sending.task = t
  /\ stalls < MaxStalls
  /\ stalls' = stalls + 1
  /\ sending' = NoSend
  /\ CASE t = "device" -> Finish
       [] t = "cloud" /\ pc["cloud"] = "relay" -> CloudTaskEnds
       [] OTHER -> /\ pc' = [pc EXCEPT ![t] = "done"]
                   /\ work' = [work EXCEPT ![t] = <<>>]
                   /\ UNCHANGED session
  /\ UNCHANGED <<environment, received, answers, clocks>>

\* The session is over.
Ended == ~open /\ UNCHANGED vars

Next ==
  \/ ConnectCloud \/ ConnectFails \/ SessionEnds \/ WriterCloses
  \/ \E r \in Records : ReceiveForward(r) \/ ReceiveOverflow(r) \/ ReceiveLocal(r)
  \/ UpstreamDrained \/ UpstreamFails
  \/ \E r \in Records : CloudAnswers(r)
  \/ CloudSendsClock
  \/ CloudFrameAfterHandOver \/ CloudFrameBlocked \/ CloudFrame \/ CloudDisconnects
  \/ DeadlineExpires \/ DeadlineStops
  \/ \E t \in Tasks : SendBegin(t) \/ SendDone(t) \/ SendFails(t)
  \/ Ended

Spec == Init /\ [][Next]_vars

\* Fairness: a connection attempt is bounded by connection_seconds, a forwarded
\* record by write_seconds, a write to the datalogger by write_seconds; the lock
\* is granted in order; the deadline task wakes every quarter of a second.
Fairness ==
  /\ WF_vars(ConnectCloud \/ ConnectFails)
  /\ WF_vars(UpstreamDrained \/ UpstreamFails)
  /\ WF_vars(DeadlineExpires)
  /\ \A t \in Tasks : WF_vars(SendBegin(t)) /\ WF_vars(SendDone(t) \/ SendFails(t))

FairSpec == Spec /\ Fairness

-----------------------------------------------------------------------------
(* Properties.                                                             *)

Distinct(s) == \A i, j \in DOMAIN s : s[i] = s[j] => i = j

SessionType ==
  /\ open \in BOOLEAN /\ writerOpen \in BOOLEAN
  /\ cloud \in BOOLEAN /\ fellBack \in BOOLEAN /\ clockNeeded \in BOOLEAN
  /\ awaiting \in Seq(Records)

TasksType == pc \in [Tasks -> Places] /\ work \in [Tasks -> Seq(Items)]

SendingType == sending \in [task : Tasks \cup {"none"}, item : Items]

EnvironmentType ==
  /\ cloudFallback \in BOOLEAN
  /\ atCloud \in [Records -> Nat] /\ fromCloud \in Seq(CloudFrames)

HistoryType ==
  /\ received \in [Records -> Nat]
  /\ answers \in [Owners -> [Records -> Nat]]
  /\ clocks \in Nat /\ stalls \in Nat

TypeOK == SessionType /\ TasksType /\ SendingType /\ EnvironmentType /\ HistoryType

\* The limits the code sets: outstanding records stay within queue_size and are
\* distinct, so the oldest entry is the one the deadline must watch.
AwaitingBounded == Len(awaiting) <= QueueSize /\ Distinct(awaiting)

\* Acknowledgement ownership changes completely: from the moment a session has
\* fallen back the cloud is out and nothing is left waiting for it.
HandOverIsComplete == fellBack /\ cloudFallback => ~cloud /\ awaiting = <<>>

\* With cloud_fallback disabled the relay never answers in the cloud's place.
OnlyTheCloudAnswers ==
  ~cloudFallback => \A r \in Records : answers["local"][r] = 0

\* What makes the two preceding properties inductive.  While the connection to
\* the cloud is being opened nothing else has happened; with cloud_fallback
\* disabled a running session belongs to the cloud and sends only its frames.
Connecting == pc["device"] = "connect"

ConnectingIsFirst ==
  Connecting =>
    /\ ~fellBack /\ ~cloud /\ awaiting = <<>>
    /\ pc["cloud"] = "off" /\ pc["deadline"] = "off"
    /\ sending = NoSend /\ \A t \in Tasks : work[t] = <<>>

CloudKeepsSession ==
  ~cloudFallback =>
    /\ open /\ ~Connecting => cloud
    /\ sending # NoSend => sending.item.kind = "cloud"
    /\ \A t \in Tasks : \A i \in DOMAIN work[t] : work[t][i].kind = "cloud"

IInv ==
  /\ TypeOK /\ AwaitingBounded /\ HandOverIsComplete /\ OnlyTheCloudAnswers
  /\ ConnectingIsFirst /\ CloudKeepsSession

\* Answers to r a task has still to write.
InWork(t, kind, r) == Cardinality({i \in DOMAIN work[t] : work[t][i] = [kind |-> kind, rec |-> r]})
InFlight(r) == \E t \in Tasks, kind \in {"cloud", "local"} : InWork(t, kind, r) > 0

\* No record is forgotten while the datalogger is connected and its socket
\* accepts writes: it is outstanding, being answered, or answered.
NoRecordForgotten ==
  writerOpen /\ stalls = 0 =>
    \A r \in Records : received[r] > 0 =>
      \/ Contains(awaiting, r)
      \/ InFlight(r)
      \/ answers["cloud"][r] + answers["local"][r] > 0

Quiescent == sending = NoSend /\ \A t \in Tasks : work[t] = <<>>

\* Once a session is local and has nothing left to send, the clock owed to an
\* announcement has been sent, even when the cloud had acknowledged it.
ClockSupplied ==
  writerOpen /\ stalls = 0 /\ fellBack /\ cloudFallback /\ Quiescent => ~clockNeeded

\* "Packets already forwarded but still awaiting acknowledgement receive a local
\* reply" (docs/home-assistant-features.md:270): as documented, in every local
\* session with nothing left to send, a stalled write notwithstanding.
DocumentedLocalReplies ==
  writerOpen /\ fellBack /\ cloudFallback /\ Quiescent =>
    \A r \in Records : received[r] > 0 => answers["cloud"][r] + answers["local"][r] > 0

\* The session is over for the datalogger, or a failed write lost answers.
Excused == ~open \/ ~writerOpen \/ stalls > 0

\* A record the cloud leaves unanswered is answered all the same: by the cloud
\* late, or locally after the deadline.
OutstandingIsAnswered ==
  \A r \in Records :
    Contains(awaiting, r) ~>
      (Excused \/ (~Contains(awaiting, r) /\ answers["cloud"][r] + answers["local"][r] > 0))

-----------------------------------------------------------------------------
(* The session keeps the promises of AckOwnership.  An answer is decided   *)
(* when its record leaves awaiting_cloud, or is received locally, and      *)
(* given when it is written.                                               *)

Owner ==
  IF ~open THEN "closed" ELSE IF cloud THEN "cloud" ELSE IF fellBack THEN "local" ELSE "none"

Owed == IF Owner = "cloud" THEN ToSet(awaiting) ELSE {}

Claims ==
  [cloud |-> [r \in Records |-> InWork("cloud", "cloud", r)],
   local |-> [r \in Records |-> InWork("device", "local", r) + InWork("cloud", "local", r)
                                  + InWork("deadline", "local", r)]]

Ownership == INSTANCE AckOwnership WITH
  owner <- Owner, owed <- Owed, claims <- Claims

\* Every step of the session is a step of AckOwnership or leaves it unchanged.
ImplementsAckOwnership == Ownership!Spec
=============================================================================
