---------------------------- MODULE PublisherProofs ----------------------------
(***************************************************************************)
(* The publisher, for any inverters, profiles, topics and bounds.  Base    *)
(* says who has the lock, whose snapshot is being published and how the    *)
(* readings are numbered.  On it rest three arguments that do not need one *)
(* another until the last: Sequel, which orders the snapshot, the file,    *)
(* what is on its way and what is shown of each inverter, so that readings *)
(* only go forward; Records, which follows an announcement and a clearing  *)
(* message by message, so that the books say what the broker has; and      *)
(* NothingLeftOut, which names where a snapshot is that is not shown, so   *)
(* that none is left when nothing goes on.                                 *)
(***************************************************************************)
EXTENDS Publisher, SequenceTheorems, TLAPS

Stages == {"announce", "clean", "state"}
Places == {"idle", "turn", "saving", "connect", "turn2", "publishing", "pause"}
Message == [stage : Stages, dev : Devices, topic : Topics \cup {"state"},
            reading : Nat \ {0}]
Announcement == [gen : Nat, profile : Profiles \cup {Never.profile}]
Work == [stage : Stages \cup {"none"}, dev : Devices \cup {"none"}, reading : Nat,
         gen : Nat, left : SUBSET (Topics \cup {"state"}),
         topic : Topics \cup {"state"}, sent : BOOLEAN]

Typed ==
  /\ connected \in BOOLEAN /\ restore \in BOOLEAN /\ saveFailed \in BOOLEAN
  /\ generation \in Nat /\ troubles \in Nat
  /\ profile \in Seq(Profiles)
  /\ snapshots \in [Devices -> Nat] /\ disk \in [Devices -> Nat]
  /\ shown \in [Devices -> Nat]
  /\ announced \in [Devices -> Announcement]
  /\ topics \in [Devices -> SUBSET Topics] /\ cleanup \in [Devices -> SUBSET Topics]
  /\ retained \in [Devices -> SUBSET (Topics \cup {"state"})]
  /\ pc \in [Tasks -> Places] /\ dev \in [Tasks -> Devices \cup {"none"}]
  /\ todo \in SUBSET (Devices \X (Nat \ {0}))
  /\ job \in Work /\ outbox \in Seq(Message)
  /\ missed \in SUBSET Devices

\* The two places at which a task has the lock; the worker's places once its
\* reading has become the snapshot.
Turn == {"saving", "publishing"}
Busy == {"saving", "connect", "turn2", "publishing"}

\* The lock is with one task at a time, and each task at places of its own.
TakesTurns ==
  /\ \A t, u \in Tasks : pc[t] \in Turn /\ pc[u] \in Turn => t = u
  /\ pc["worker"] # "pause"
  /\ pc["restore"] \in {"idle", "turn", "publishing", "pause"}
  /\ pc["forget"] \in {"idle", "turn", "saving"}
  /\ \A t \in {"worker", "forget"} : pc[t] # "idle" => dev[t] \in Devices

\* The snapshot being published is that of the task with the lock.
JobHeld ==
  /\ job.stage = "none" => job = NoJob
  /\ job.stage # "none" =>
       /\ pc["worker"] = "publishing" \/ pc["restore"] = "publishing"
       /\ job.dev \in Devices /\ job.reading \in 1..Latest /\ job.gen <= generation
       /\ job.stage # "state" => job.left \subseteq Topics
  /\ pc["worker"] = "publishing" =>
       job.stage # "none" /\ job.dev = dev["worker"] /\ job.reading = Latest
  /\ pc["restore"] = "publishing" =>
       /\ \A item \in todo : item[2] = snapshots[item[1]]
       /\ job.stage # "none" => job.reading = snapshots[job.dev]

\* No reading is numbered above n.
UpTo(n) ==
  /\ \A d \in Devices : snapshots[d] <= n /\ disk[d] <= n /\ shown[d] <= n
  /\ \A i \in DOMAIN outbox : outbox[i].reading <= n

\* The worker's reading is the last, and nobody else has it before its turn.
Numbered ==
  /\ UpTo(Latest)
  /\ pc["worker"] # "idle" => Latest > 0
  /\ pc["worker"] = "turn" => UpTo(Latest - 1)

Base == Typed /\ TakesTurns /\ JobHeld /\ Numbered

-----------------------------------------------------------------------------
(* The operators of the model.                                             *)

LEMMA NoJobTyped ==
  /\ NoJob \in Work /\ NoJob.stage = "none" /\ ~NoJob.sent /\ Never.gen = 0
  /\ Never \in Announcement
  BY DEF NoJob, Work, Never, Announcement

\* What follows the announcement: the clearing, or the state at once.
LEMMA AfterTheAnnouncement ==
  ASSUME NEW j \in Work, NEW pending \in SUBSET Topics
  PROVE  LET c == Cleaning(j, pending) IN
         /\ c \in Work /\ ~c.sent
         /\ c.dev = j.dev /\ c.reading = j.reading /\ c.gen = j.gen
         /\ \/ c.stage = "clean" /\ c.left = pending /\ pending # {}
            \/ c.stage = "state" /\ c.left = {"state"} /\ pending = {}
  <1>1. CASE pending = {}
    BY <1>1 DEF Cleaning, Work, Stages
  <1>2. CASE pending # {}
    BY <1>2 DEF Cleaning, Work, Stages
  <1> QED BY <1>1, <1>2

\* Reading n of inverter d needs no announcement.
Current(d, n) == announced[d] = [gen |-> generation, profile |-> profile[n]]

\* The work on a reading begins with the announcement unless it is current.
LEMMA WorkBegins ==
  ASSUME Typed, NEW d \in Devices, NEW n \in 1..Latest
  PROVE  LET j == Job(d, n) IN
         /\ j \in Work /\ ~j.sent
         /\ j.dev = d /\ j.reading = n /\ j.gen = generation
         /\ \/ j.stage = "announce" /\ ~Current(d, n) /\ j.left = TopicsOf[profile[n]]
            \/ Current(d, n) /\ j.stage = "clean" /\ j.left = cleanup[d]
            \/ Current(d, n) /\ j.stage = "state" /\ j.left = {"state"}
  <1> DEFINE j0 == [NoJob EXCEPT !.dev = d, !.reading = n, !.gen = generation]
  <1>0. profile[n] \in Profiles /\ TopicsOf[profile[n]] \in SUBSET Topics
    BY PublisherAssumption DEF Typed, Latest
  <1>1. j0 \in Work /\ j0.dev = d /\ j0.reading = n /\ j0.gen = generation /\ ~j0.sent
    <2>1. NoJob \in Work /\ ~NoJob.sent
      BY NoJobTyped
    <2>2. d \in Devices \cup {"none"} /\ n \in Nat /\ generation \in Nat
      BY DEF Typed, Latest
    <2> QED BY <2>1, <2>2 DEF Work
  <1>2. CASE Current(d, n)
    <2>1. Job(d, n) = Cleaning(j0, cleanup[d])
      BY <1>2 DEF Job, Current
    <2>2. cleanup[d] \in SUBSET Topics
      BY DEF Typed
    <2> HIDE DEF j0
    <2> QED BY <1>1, <1>2, <2>1, <2>2, AfterTheAnnouncement
  <1>3. CASE ~Current(d, n)
    <2>1. Job(d, n) = [j0 EXCEPT !.stage = "announce", !.left = TopicsOf[profile[n]]]
      BY <1>3 DEF Job, Current
    <2> HIDE DEF j0
    <2> QED BY <1>0, <1>1, <1>3, <2>1 DEF Work, Stages
  <1> QED BY <1>2, <1>3

LEMMA WorkHasTopics ==
  ASSUME Typed, NEW d \in Devices, NEW n \in 1..Latest
  PROVE  LET j == Job(d, n) IN
         /\ j.stage # "none" /\ j.dev = d /\ j.reading = n /\ j.gen = generation
         /\ j.stage # "state" => j.left \subseteq Topics
  <1> DEFINE j == Job(d, n)
  <1>1. TopicsOf[profile[n]] \in SUBSET Topics /\ cleanup[d] \in SUBSET Topics
    BY PublisherAssumption DEF Typed, Latest
  <1>2. /\ j.dev = d /\ j.reading = n /\ j.gen = generation
        /\ \/ j.stage = "announce" /\ j.left = TopicsOf[profile[n]]
           \/ j.stage = "clean" /\ j.left = cleanup[d]
           \/ j.stage = "state" /\ j.left = {"state"}
    BY WorkBegins
  <1> HIDE DEF j
  <1>3. j.stage # "none" /\ (j.stage # "state" => j.left \subseteq Topics)
    BY <1>1, <1>2
  <1> QED BY <1>2, <1>3 DEF j

\* Which task publishes, as long as one does.
LEMMA ThePublisher ==
  ASSUME Base, job.stage # "none"
  PROVE  \/ Publishing = "worker" /\ pc["worker"] = "publishing"
         \/ Publishing = "restore" /\ pc["restore"] = "publishing"
  <1>1. \E t \in Tasks : pc[t] = "publishing"
    BY DEF Base, JobHeld, Tasks
  <1>2. Publishing \in Tasks /\ pc[Publishing] = "publishing"
    BY <1>1 DEF Publishing
  <1> QED BY <1>2 DEF Base, TakesTurns, Tasks

\* A task goes to another place; it lets go of its inverter when it is idle.
LEMMA GoesThere ==
  ASSUME Typed, NEW t \in Tasks, NEW place \in Places, Goes(t, place)
  PROVE  /\ pc' \in [Tasks -> Places] /\ dev' \in [Tasks -> Devices \cup {"none"}]
         /\ pc'[t] = place
         /\ \A u \in Tasks \ {t} : pc'[u] = pc[u] /\ dev'[u] = dev[u]
         /\ place # "idle" => dev' = dev
  BY DEF Typed, Goes

LEMMA BeginsThere ==
  ASSUME Typed, NEW t \in Tasks, NEW d \in Devices, Begins(t, d)
  PROVE  /\ pc' \in [Tasks -> Places] /\ dev' \in [Tasks -> Devices \cup {"none"}]
         /\ pc'[t] = "turn" /\ dev'[t] = d
         /\ \A u \in Tasks \ {t} : pc'[u] = pc[u] /\ dev'[u] = dev[u]
  BY DEF Typed, Begins, Places

-----------------------------------------------------------------------------
(* Types, turns and numbers.                                               *)

LEMMA BaseAtFirst == Init => Base
  <1> SUFFICES ASSUME Init PROVE Base
    OBVIOUS
  <1> USE NoJobTyped DEF Init
  <1>1. Typed
    <2>1. profile \in Seq(Profiles) /\ outbox \in Seq(Message)
      OBVIOUS
    <2>2. announced \in [Devices -> Announcement]
      OBVIOUS
    <2>3. pc \in [Tasks -> Places]
      BY DEF Places
    <2>4. job \in Work
      OBVIOUS
    <2> HIDE NoJobTyped
    <2> QED BY <2>1, <2>2, <2>3, <2>4 DEF Typed
  <1>2. TakesTurns
    BY DEF TakesTurns, Tasks, Turn
  <1>3. JobHeld
    BY DEF JobHeld, Tasks
  <1>4. Numbered
    BY DEF Numbered, UpTo, Latest, Tasks
  <1> QED BY <1>1, <1>2, <1>3, <1>4 DEF Base

\* A message on its way keeps its kind when messages join or leave.
LEMMA DeliverIsTyped ==
  ASSUME Base, Deliver
  PROVE  /\ Head(outbox) \in Message /\ outbox' \in Seq(Message)
         /\ retained' \in [Devices -> SUBSET (Topics \cup {"state"})]
         /\ shown' \in [Devices -> Nat]
         /\ missed' \in SUBSET missed
  <1>1. outbox \in Seq(Message) /\ outbox # <<>>
    BY DEF Base, Typed, Deliver
  <1>2. Head(outbox) \in Message /\ outbox' \in Seq(Message)
    BY <1>1 DEF Deliver
  <1> DEFINE m == Head(outbox)
  <1>3. m.dev \in Devices /\ m.topic \in Topics \cup {"state"} /\ m.reading \in Nat
        /\ m.stage \in Stages
    BY <1>2 DEF Message
  <1> HIDE DEF m
  <1>4. retained' \in [Devices -> SUBSET (Topics \cup {"state"})]
    <2>1. \/ retained' = [retained EXCEPT ![m.dev] = @ \cup {m.topic}]
          \/ retained' = [retained EXCEPT ![m.dev] = @ \ {m.topic}]
          \/ retained' = retained
      BY <1>3 DEF Deliver, m, Stages
    <2>2. retained \in [Devices -> SUBSET (Topics \cup {"state"})]
      BY DEF Base, Typed
    <2>3. /\ retained[m.dev] \cup {m.topic} \in SUBSET (Topics \cup {"state"})
          /\ retained[m.dev] \ {m.topic} \in SUBSET (Topics \cup {"state"})
      BY <2>2, <1>3
    <2> QED BY <2>1, <2>2, <2>3
  <1>5. shown' \in [Devices -> Nat]
    <2>1. \/ shown' = [shown EXCEPT ![m.dev] = m.reading]
          \/ shown' = shown
      BY DEF Deliver, m
    <2> QED BY <2>1, <1>3 DEF Base, Typed
  <1>6. missed' \in SUBSET missed
    BY DEF Deliver
  <1> QED BY <1>2, <1>4, <1>5, <1>6

\* The message that is sent is one of the stage's.
LEMMA SendIsTyped ==
  ASSUME Base, Send
  PROVE  /\ job' \in Work /\ job'.sent /\ job'.topic \in job.left
         /\ job'.stage = job.stage /\ job'.dev = job.dev /\ job'.reading = job.reading
         /\ job'.gen = job.gen /\ job'.left = job.left
         /\ \E m \in Message :
              /\ m.stage = job.stage /\ m.dev = job.dev /\ m.topic = job'.topic
              /\ m.reading = job.reading
              /\ m = [stage |-> job.stage, dev |-> job.dev, topic |-> job'.topic,
                      reading |-> job.reading]
              /\ outbox' = Append(outbox, m)
  <1>1. job \in Work /\ job.stage \in Stages /\ job.dev \in Devices /\ job.reading \in Nat \ {0}
    BY DEF Base, Typed, JobHeld, Work, Send, Latest
  <1>2. PICK t \in job.left :
          /\ job' = [job EXCEPT !.topic = t, !.sent = TRUE]
          /\ outbox' = Append(outbox, [stage |-> job.stage, dev |-> job.dev, topic |-> t,
                                       reading |-> job.reading])
    BY DEF Send
  <1>3. t \in Topics \cup {"state"}
    BY <1>1, <1>2 DEF Work
  <1> DEFINE m == [stage |-> job.stage, dev |-> job.dev, topic |-> t, reading |-> job.reading]
  <1>4. m \in Message
    BY <1>1, <1>3 DEF Message
  <1>5. /\ job' \in Work /\ job'.sent /\ job'.topic = t
        /\ job'.stage = job.stage /\ job'.dev = job.dev /\ job'.reading = job.reading
        /\ job'.gen = job.gen /\ job'.left = job.left
    BY <1>1, <1>2, <1>3 DEF Work
  <1> QED BY <1>2, <1>4, <1>5

\* What is noted when an announcement is complete.
LEMMA AnnouncedIsTyped ==
  ASSUME Base, Announced
  PROVE  LET p == profile[job.reading] IN
         /\ job.dev \in Devices /\ p \in Profiles /\ TopicsOf[p] \in SUBSET Topics
         /\ announced' = [announced EXCEPT ![job.dev] = [gen |-> job.gen, profile |-> p]]
         /\ topics' = [topics EXCEPT ![job.dev] = TopicsOf[p]]
         /\ \E pending \in SUBSET Topics :
              /\ pending = (cleanup[job.dev] \cup topics[job.dev] \cup Lineage[p]) \ TopicsOf[p]
              /\ cleanup' = [cleanup EXCEPT ![job.dev] = pending]
              /\ job' = Cleaning(job, pending)
  <1> DEFINE p == profile[job.reading]
             pending == (cleanup[job.dev] \cup topics[job.dev] \cup Lineage[p]) \ TopicsOf[p]
  <1>1. job \in Work /\ job.dev \in Devices /\ job.reading \in 1..Latest /\ job.gen \in Nat
    BY DEF Base, Typed, JobHeld, Announced, Work
  <1>2. p \in Profiles
    BY <1>1 DEF Base, Typed, Latest
  <1>3. TopicsOf[p] \in SUBSET Topics /\ Lineage[p] \in SUBSET Topics
    BY <1>2, PublisherAssumption
  <1>4. cleanup[job.dev] \in SUBSET Topics /\ topics[job.dev] \in SUBSET Topics
    BY <1>1 DEF Base, Typed
  <1>5. pending \in SUBSET Topics
    BY <1>3, <1>4
  <1>6. /\ announced' = [announced EXCEPT ![job.dev] = [gen |-> job.gen, profile |-> p]]
        /\ topics' = [topics EXCEPT ![job.dev] = TopicsOf[p]]
        /\ cleanup' = [cleanup EXCEPT ![job.dev] = pending]
        /\ job' = Cleaning(job, pending)
    BY DEF Announced, Fingerprint
  <1> QED BY <1>1, <1>2, <1>3, <1>5, <1>6

LEMMA TypedStep ==
  ASSUME Base, Next
  PROVE  Typed'
  <1> USE DEF data, books, link, tasks, broker, history, Trouble
  <1>0. Typed
    BY DEF Base
  <1>1. CASE Connect
    BY <1>0, <1>1 DEF Connect, Typed
  <1>2. CASE Disconnect
    <2>1. retained' \in [Devices -> SUBSET (Topics \cup {"state"})]
      BY <1>0, <1>2 DEF Disconnect, Typed
    <2>2. connected' \in BOOLEAN
      BY <1>2 DEF Disconnect
    <2>3. troubles' \in Nat
      BY <1>0, <1>2 DEF Disconnect, Typed
    <2> QED BY <1>0, <1>2, <2>1, <2>2, <2>3 DEF Disconnect, Typed
  <1>3. CASE Birth
    BY <1>0, <1>3 DEF Birth, Typed
  <1>4. CASE Deliver
    BY <1>0, <1>4, DeliverIsTyped DEF Deliver, Typed
  <1>5. CASE Send
    <2>1. job' \in Work /\ outbox' \in Seq(Message)
      <3>1. PICK m \in Message : outbox' = Append(outbox, m)
        BY <1>5, SendIsTyped
      <3> QED BY <1>0, <1>5, <3>1, SendIsTyped DEF Typed
    <2> QED BY <1>0, <1>5, <2>1 DEF Send, Typed
  <1>6. CASE ConfigSent
    <2>1. job' \in Work
      BY <1>0, <1>6 DEF ConfigSent, Typed, Work, Remaining
    <2> QED BY <1>0, <1>6, <2>1 DEF ConfigSent, Typed
  <1>7. CASE Announced
    <2> DEFINE p == profile[job.reading]
    <2>1. /\ job.dev \in Devices /\ p \in Profiles /\ TopicsOf[p] \in SUBSET Topics
          /\ announced' = [announced EXCEPT ![job.dev] = [gen |-> job.gen, profile |-> p]]
          /\ topics' = [topics EXCEPT ![job.dev] = TopicsOf[p]]
      BY <1>7, AnnouncedIsTyped
    <2>2. PICK pending \in SUBSET Topics :
            /\ cleanup' = [cleanup EXCEPT ![job.dev] = pending]
            /\ job' = Cleaning(job, pending)
      BY <1>7, AnnouncedIsTyped
    <2>3. job \in Work /\ job.gen \in Nat
      BY <1>0 DEF Typed, Work
    <2>4. job' \in Work
      BY <2>2, <2>3, AfterTheAnnouncement
    <2>5. [gen |-> job.gen, profile |-> p] \in Announcement
      BY <2>1, <2>3 DEF Announcement
    <2> HIDE DEF p
    <2>6. announced' \in [Devices -> Announcement] /\ topics' \in [Devices -> SUBSET Topics]
          /\ cleanup' \in [Devices -> SUBSET Topics]
      BY <1>0, <2>1, <2>2, <2>5 DEF Typed
    <2> QED BY <1>0, <1>7, <2>4, <2>6 DEF Announced, Typed
  <1>8. CASE ClearSent
    <2>1. job \in Work /\ job.stage = "clean" /\ job.dev \in Devices
      BY <1>0, <1>8 DEF ClearSent, Typed, Base, JobHeld
    <2>2. cleanup' \in [Devices -> SUBSET Topics]
      BY <1>0, <1>8, <2>1 DEF ClearSent, Typed
    <2>3. Remaining \in SUBSET Topics
      BY <1>0, <2>1 DEF Remaining, Base, JobHeld
    <2>4. job' \in Work
      BY <1>8, <2>1, <2>3, AfterTheAnnouncement DEF ClearSent
    <2> QED BY <1>0, <1>8, <2>2, <2>4 DEF ClearSent, Typed
  <1>9. CASE StateSent
    <2>1. pc' \in [Tasks -> Places] /\ dev' \in [Tasks -> Devices \cup {"none"}]
      BY <1>0, <1>9, GoesThere DEF StateSent, Typed, Tasks, Places
    <2>2. job' \in Work
      BY <1>9, NoJobTyped DEF StateSent
    <2> QED BY <1>0, <1>9, <2>1, <2>2 DEF StateSent, Typed
  <1>10. CASE ClearFails
    <2>1. job' \in Work
      BY <1>0, <1>10, AfterTheAnnouncement DEF ClearFails, Typed
    <2> QED BY <1>0, <1>10, <2>1 DEF ClearFails, SendFails, Typed
  <1>11. CASE PublicationFails
    <2>1. pc' \in [Tasks -> Places] /\ dev' \in [Tasks -> Devices \cup {"none"}]
      BY <1>0, <1>11, GoesThere DEF PublicationFails, Tasks, Places
    <2>2. job' \in Work /\ job.stage # "none"
      BY <1>11, NoJobTyped DEF PublicationFails, SendFails
    <2>3. missed' \in SUBSET Devices
      BY <1>0, <1>11, <2>2 DEF PublicationFails, Typed, Base, JobHeld
    <2>4. troubles' \in Nat
      BY <1>0, <1>11 DEF PublicationFails, SendFails, Typed
    <2> QED BY <1>0, <1>11, <2>1, <2>2, <2>3, <2>4 DEF PublicationFails, Typed
  <1>12. CASE \E d \in Devices, p \in Profiles : Publish(d, p)
    <2>1. PICK d \in Devices, p \in Profiles : Publish(d, p)
      BY <1>12
    <2>2. pc' \in [Tasks -> Places] /\ dev' \in [Tasks -> Devices \cup {"none"}]
      BY <1>0, <2>1, BeginsThere DEF Publish, Tasks
    <2> QED BY <1>0, <2>1, <2>2 DEF Publish, Typed
  <1>13. CASE Remember
    <2>1. pc' \in [Tasks -> Places] /\ dev' \in [Tasks -> Devices \cup {"none"}]
      BY <1>0, <1>13, GoesThere DEF Remember, Tasks, Places
    <2>2. Latest \in Nat
      BY <1>0 DEF Typed, Latest
    <2>3. snapshots' \in [Devices -> Nat]
      BY <1>0, <1>13, <2>2 DEF Remember, Typed
    <2> QED BY <1>0, <1>13, <2>1, <2>3 DEF Remember, Typed
  <1>14. CASE AwaitConnection \/ NoConnection
    <2>1. pc' \in [Tasks -> Places] /\ dev' \in [Tasks -> Devices \cup {"none"}]
      BY <1>0, <1>14, GoesThere DEF AwaitConnection, NoConnection, Tasks, Places
    <2> QED BY <1>0, <1>14, <2>1 DEF AwaitConnection, NoConnection, Typed
  <1>15. CASE PublishTakesTurn
    <2>1. pc' \in [Tasks -> Places] /\ dev' \in [Tasks -> Devices \cup {"none"}]
      BY <1>0, <1>15, GoesThere DEF PublishTakesTurn, Tasks, Places
    <2>2. dev["worker"] \in Devices /\ Latest \in 1..Latest
      BY <1>15 DEF PublishTakesTurn, Base, Typed, TakesTurns, Numbered, Latest
    <2>3. job' \in Work
      BY <1>0, <1>15, <2>2, WorkBegins DEF PublishTakesTurn
    <2> QED BY <1>0, <1>15, <2>1, <2>3 DEF PublishTakesTurn, Typed
  <1>16. CASE RestoreWakes \/ RestoreDone \/ RestoreAgain
    <2>1. pc' \in [Tasks -> Places] /\ dev' \in [Tasks -> Devices \cup {"none"}]
      BY <1>0, <1>16, GoesThere DEF RestoreWakes, RestoreDone, RestoreAgain, Tasks, Places
    <2> QED BY <1>0, <1>16, <2>1 DEF RestoreWakes, RestoreDone, RestoreAgain, Typed
  <1>17. CASE RestoreTakesTurn
    <2>1. pc' \in [Tasks -> Places] /\ dev' \in [Tasks -> Devices \cup {"none"}]
      BY <1>0, <1>17, GoesThere DEF RestoreTakesTurn, Tasks, Places
    <2>2. todo' \in SUBSET (Devices \X (Nat \ {0}))
      BY <1>0, <1>17 DEF RestoreTakesTurn, Known, Typed
    <2> QED BY <1>0, <1>17, <2>1, <2>2 DEF RestoreTakesTurn, Typed
  <1>18. CASE RestoreNext
    <2>1. PICK item \in todo : job' = Job(item[1], item[2]) /\ todo' = todo \ {item}
      BY <1>18 DEF RestoreNext
    <2>2. item[1] \in Devices /\ item[2] \in 1..Latest
      BY <1>0, <1>18 DEF RestoreNext, Base, Typed, JobHeld, Numbered, UpTo, Latest
    <2>3. job' \in Work
      BY <1>0, <2>1, <2>2, WorkBegins
    <2> QED BY <1>0, <1>18, <2>1, <2>3 DEF RestoreNext, Typed
  <1>19. CASE \E d \in Devices : Forget(d)
    <2>1. PICK d \in Devices : Forget(d)
      BY <1>19
    <2>2. pc' \in [Tasks -> Places] /\ dev' \in [Tasks -> Devices \cup {"none"}]
      BY <1>0, <2>1, BeginsThere DEF Forget, Tasks
    <2> QED BY <1>0, <2>1, <2>2 DEF Forget, Typed
  <1>20. CASE ForgetTakesTurn
    <2>1. pc' \in [Tasks -> Places] /\ dev' \in [Tasks -> Devices \cup {"none"}]
      BY <1>0, <1>20, GoesThere DEF ForgetTakesTurn, Tasks, Places
    <2>2. snapshots' \in [Devices -> Nat] /\ announced' \in [Devices -> Announcement]
      BY <1>0, <1>20, NoJobTyped DEF ForgetTakesTurn, Typed
    <2> QED BY <1>0, <1>20, <2>1, <2>2 DEF ForgetTakesTurn, Typed
  <1>21. CASE \E t \in {"worker", "forget"} : Save(t) \/ SaveFails(t)
    <2>1. PICK t \in {"worker", "forget"} : Save(t) \/ SaveFails(t)
      BY <1>21
    <2>2. pc' \in [Tasks -> Places] /\ dev' \in [Tasks -> Devices \cup {"none"}]
      BY <1>0, <2>1, GoesThere DEF Save, SaveFails, AfterSave, Tasks, Places
    <2>3. CASE Save(t)
      BY <1>0, <2>2, <2>3 DEF Save, Typed
    <2>4. CASE SaveFails(t)
      <3>1. saveFailed' \in BOOLEAN /\ troubles' \in Nat
        BY <1>0, <2>4 DEF SaveFails, Typed
      <3> QED BY <1>0, <2>2, <2>4, <3>1 DEF SaveFails, Typed
    <2> QED BY <2>1, <2>3, <2>4
  <1>22. CASE Restart
    <2>1. outbox' \in Seq(Message) /\ job' \in Work /\ announced' \in [Devices -> Announcement]
      BY <1>22, NoJobTyped DEF Restart
    <2>2. pc' \in [Tasks -> Places]
      BY <1>22 DEF Restart, Places
    <2>3. connected' \in BOOLEAN /\ restore' \in BOOLEAN
      BY <1>22 DEF Restart
    <2>4. troubles' \in Nat
      BY <1>0, <1>22 DEF Restart, Typed
    <2> QED BY <1>0, <1>22, <2>1, <2>2, <2>3, <2>4 DEF Restart, Typed
  <1> QED
    BY <1>1, <1>2, <1>3, <1>4, <1>5, <1>6, <1>7, <1>8, <1>9, <1>10, <1>11, <1>12, <1>13, <1>14,
       <1>15, <1>16, <1>17, <1>18, <1>19, <1>20, <1>21, <1>22 DEF Next

LEMMA TakesTurnsStep ==
  ASSUME Base, Next
  PROVE  TakesTurns'
  <1> USE DEF data, books, link, tasks, broker, history
  <1>0. Typed /\ TakesTurns
    BY DEF Base
  <1>1. CASE UNCHANGED <<pc, dev>>
    BY <1>0, <1>1 DEF TakesTurns
  <1>2. CASE StateSent \/ PublicationFails
    <2>1. job.stage # "none"
      BY <1>2 DEF StateSent, PublicationFails
    <2>2. CASE Publishing = "worker"
      BY <1>0, <1>2, <2>1, <2>2, GoesThere, ThePublisher
      DEF StateSent, PublicationFails, TakesTurns, Turn, Tasks, Places
    <2>3. CASE Publishing # "worker"
      BY <1>0, <1>2, <2>1, <2>3, GoesThere, ThePublisher
      DEF StateSent, PublicationFails, TakesTurns, Turn, Tasks, Places
    <2> QED BY <2>2, <2>3
  <1>3. CASE \E d \in Devices, p \in Profiles : Publish(d, p)
    BY <1>0, <1>3, BeginsThere DEF Publish, TakesTurns, Turn, Tasks
  <1>4. CASE Remember
    BY <1>0, <1>4, GoesThere DEF Remember, LockFree, TakesTurns, Turn, Tasks, Places
  <1>5. CASE AwaitConnection
    BY <1>0, <1>5, GoesThere DEF AwaitConnection, TakesTurns, Turn, Tasks, Places
  <1>6. CASE NoConnection
    BY <1>0, <1>6, GoesThere DEF NoConnection, TakesTurns, Turn, Tasks, Places
  <1>7. CASE PublishTakesTurn
    BY <1>0, <1>7, GoesThere DEF PublishTakesTurn, LockFree, TakesTurns, Turn, Tasks, Places
  <1>8. CASE RestoreWakes
    BY <1>0, <1>8, GoesThere DEF RestoreWakes, TakesTurns, Turn, Tasks, Places
  <1>9. CASE RestoreTakesTurn
    BY <1>0, <1>9, GoesThere DEF RestoreTakesTurn, LockFree, TakesTurns, Turn, Tasks, Places
  <1>10. CASE RestoreDone \/ RestoreAgain
    BY <1>0, <1>10, GoesThere DEF RestoreDone, RestoreAgain, TakesTurns, Turn, Tasks, Places
  <1>11. CASE \E d \in Devices : Forget(d)
    BY <1>0, <1>11, BeginsThere DEF Forget, TakesTurns, Turn, Tasks
  <1>12. CASE ForgetTakesTurn
    BY <1>0, <1>12, GoesThere DEF ForgetTakesTurn, LockFree, TakesTurns, Turn, Tasks, Places
  <1>13. CASE \E t \in {"worker", "forget"} : Save(t) \/ SaveFails(t)
    <2>1. PICK t \in {"worker", "forget"} : Save(t) \/ SaveFails(t)
      BY <1>13
    <2>2. pc[t] = "saving" /\ Goes(t, IF t = "worker" THEN "connect" ELSE "idle")
      BY <2>1 DEF Save, SaveFails, AfterSave
    <2> QED BY <1>0, <2>1, <2>2, GoesThere DEF TakesTurns, Turn, Tasks, Places
  <1>14. CASE Restart
    BY <1>14 DEF Restart, TakesTurns, Turn, Tasks
  <1>15. UNCHANGED <<pc, dev>> \/ ~(\/ Connect \/ Disconnect \/ Birth \/ Deliver \/ Send
           \/ ConfigSent \/ Announced \/ ClearSent \/ ClearFails \/ RestoreNext)
    BY DEF Connect, Disconnect, Birth, Deliver, Send, ConfigSent, Announced, ClearSent,
       ClearFails, RestoreNext
  <1> QED
    BY <1>1, <1>2, <1>3, <1>4, <1>5, <1>6, <1>7, <1>8, <1>9, <1>10, <1>11, <1>12, <1>13, <1>14,
       <1>15 DEF Next

LEMMA JobHeldStep ==
  ASSUME Base, Next
  PROVE  JobHeld'
  <1> USE DEF data, books, link, tasks, broker, history
  <1>0. Typed /\ TakesTurns /\ JobHeld /\ Latest \in Nat /\ generation \in Nat
    BY DEF Base, Typed, Latest
  <1>a. job \in Work
    BY DEF Base, Typed
  <1>1. CASE Connect \/ Disconnect \/ Birth \/ Deliver
    <2>1. generation' >= generation /\ UNCHANGED <<job, pc, dev, profile, todo, snapshots>>
      BY <1>0, <1>1 DEF Connect, Disconnect, Birth, Deliver
    <2>2. Typed'
      BY TypedStep
    <2>3. generation' \in Nat /\ job.gen \in Nat
      BY <2>2, <1>a DEF Typed, Work
    <2> QED BY <1>0, <2>1, <2>3 DEF JobHeld, Latest
  <1>2. CASE Send
    <2>1. UNCHANGED <<generation, pc, dev, profile, todo, snapshots>>
      BY <1>2 DEF Send
    <2>2. /\ job'.stage = job.stage /\ job'.dev = job.dev /\ job'.reading = job.reading
          /\ job'.gen = job.gen /\ job'.left = job.left /\ job.stage # "none"
      BY <1>2, SendIsTyped DEF Send
    <2> QED BY <1>0, <2>1, <2>2 DEF JobHeld, Latest
  <1>3. CASE ConfigSent
    <2>1. UNCHANGED <<generation, pc, dev, profile, todo, snapshots>>
      BY <1>3 DEF ConfigSent
    <2>2. /\ job'.stage = job.stage /\ job'.dev = job.dev /\ job'.reading = job.reading
          /\ job'.gen = job.gen /\ job'.left \subseteq job.left /\ job.stage = "announce"
      BY <1>3, <1>a DEF ConfigSent, Remaining, Work
    <2> QED BY <1>0, <2>1, <2>2 DEF JobHeld, Latest
  <1>4. CASE Announced \/ ClearSent \/ ClearFails
    <2>1. UNCHANGED <<generation, pc, dev, profile, todo, snapshots>>
      BY <1>4 DEF Announced, ClearSent, ClearFails
    <2>2. \E pending \in SUBSET Topics : job' = Cleaning(job, pending)
      <3>1. CASE Announced
        BY <3>1, AnnouncedIsTyped
      <3>2. CASE ClearSent
        BY <3>2, <1>0 DEF ClearSent, Remaining, JobHeld
      <3>3. CASE ClearFails
        BY <3>3 DEF ClearFails
      <3> QED BY <1>4, <3>1, <3>2, <3>3
    <2>3. /\ job'.stage \in {"clean", "state"} /\ job'.dev = job.dev /\ job'.reading = job.reading
          /\ job'.gen = job.gen
          /\ job'.stage = "clean" => job'.left \subseteq Topics
      BY <1>a, <2>2, AfterTheAnnouncement
    <2>4. job.stage # "none"
      BY <1>4 DEF Announced, ClearSent, ClearFails
    <2> QED BY <1>0, <2>1, <2>3, <2>4 DEF JobHeld, Latest
  <1>5. CASE StateSent \/ PublicationFails
    <2>1. job.stage # "none" /\ job' = NoJob
      BY <1>5 DEF StateSent, PublicationFails
    <2>2. UNCHANGED <<generation, profile, todo, snapshots>>
      BY <1>5 DEF StateSent, PublicationFails
    <2>3. pc'["worker"] # "publishing"
          /\ (pc'["restore"] = "publishing" => pc["restore"] = "publishing")
      <3>1. CASE Publishing = "worker"
        BY <1>0, <1>5, <2>1, <3>1, GoesThere, ThePublisher
        DEF StateSent, PublicationFails, TakesTurns, Turn, Tasks, Places
      <3>2. CASE Publishing # "worker"
        BY <1>0, <1>5, <2>1, <3>2, GoesThere, ThePublisher
        DEF StateSent, PublicationFails, TakesTurns, Turn, Tasks, Places
      <3> QED BY <3>1, <3>2
    <2>4. NoJob.stage = "none"
      BY NoJobTyped
    <2> QED BY <1>0, <2>1, <2>2, <2>3, <2>4 DEF JobHeld
  <1>6. CASE \E d \in Devices, p \in Profiles : Publish(d, p)
    <2>1. PICK d \in Devices, p \in Profiles : Publish(d, p)
      BY <1>6
    <2>2. /\ pc["worker"] = "idle" /\ pc'["worker"] = "turn" /\ pc'["restore"] = pc["restore"]
          /\ UNCHANGED <<job, generation, todo, snapshots>>
      BY <1>0, <2>1, BeginsThere DEF Publish, Tasks
    <2>3. Len(profile') = Len(profile) + 1
      BY <1>0, <2>1 DEF Publish, Typed
    <2> QED BY <1>0, <2>2, <2>3 DEF JobHeld, Latest
  <1>7. CASE Remember
    <2>1. /\ pc["worker"] = "turn" /\ pc["restore"] # "publishing" /\ pc'["worker"] = "saving"
          /\ pc'["restore"] = pc["restore"] /\ UNCHANGED <<job, generation, profile, todo>>
      BY <1>0, <1>7, GoesThere DEF Remember, LockFree, Tasks, Places
    <2> QED BY <1>0, <2>1 DEF JobHeld, Latest
  <1>8. CASE AwaitConnection \/ NoConnection
    <2>1. /\ pc["worker"] = "connect" /\ pc'["worker"] \in {"turn2", "idle"}
          /\ pc'["restore"] = pc["restore"]
          /\ UNCHANGED <<job, generation, profile, todo, snapshots>>
      BY <1>0, <1>8, GoesThere DEF AwaitConnection, NoConnection, Tasks, Places
    <2> QED BY <1>0, <2>1 DEF JobHeld, Latest
  <1>9. CASE PublishTakesTurn
    <2>1. /\ pc["worker"] = "turn2" /\ pc["restore"] # "publishing"
          /\ pc'["worker"] = "publishing" /\ pc'["restore"] = pc["restore"] /\ dev' = dev
          /\ UNCHANGED <<generation, profile, todo, snapshots>>
      BY <1>0, <1>9, GoesThere DEF PublishTakesTurn, LockFree, Tasks, Places
    <2>2. dev["worker"] \in Devices /\ Latest \in 1..Latest
      BY <2>1 DEF Base, Typed, TakesTurns, Numbered, Latest
    <2>3. /\ job'.stage # "none" /\ job'.dev = dev["worker"] /\ job'.reading = Latest
          /\ job'.gen = generation /\ (job'.stage # "state" => job'.left \subseteq Topics)
      BY <1>0, <1>9, <2>2, WorkHasTopics DEF PublishTakesTurn
    <2> QED BY <1>0, <2>1, <2>2, <2>3 DEF JobHeld, Latest
  <1>10. CASE RestoreWakes
    <2>1. /\ pc'["restore"] = "turn" /\ pc["restore"] = "idle" /\ pc'["worker"] = pc["worker"]
          /\ dev' = dev /\ UNCHANGED <<job, generation, profile, todo, snapshots>>
      BY <1>0, <1>10, GoesThere DEF RestoreWakes, Tasks, Places
    <2> QED BY <1>0, <2>1 DEF JobHeld, Latest
  <1>11. CASE RestoreTakesTurn
    <2>1. /\ pc'["restore"] = "publishing" /\ pc["restore"] = "turn"
          /\ pc["worker"] # "publishing" /\ pc'["worker"] = pc["worker"]
          /\ dev' = dev /\ UNCHANGED <<job, generation, profile, snapshots>>
      BY <1>0, <1>11, GoesThere DEF RestoreTakesTurn, LockFree, Tasks, Places
    <2>2. \A item \in todo' : item[2] = snapshots[item[1]]
      BY <1>11 DEF RestoreTakesTurn
    <2>3. job.stage = "none"
      BY <1>0, <2>1 DEF JobHeld
    <2> QED BY <1>0, <2>1, <2>2, <2>3 DEF JobHeld, Latest
  <1>12. CASE RestoreNext
    <2>1. PICK item \in todo : job' = Job(item[1], item[2]) /\ todo' = todo \ {item}
      BY <1>12 DEF RestoreNext
    <2>2. pc["restore"] = "publishing" /\ UNCHANGED <<pc, dev, generation, profile, snapshots>>
      BY <1>12 DEF RestoreNext
    <2>3. item[1] \in Devices /\ item[2] \in 1..Latest /\ item[2] = snapshots[item[1]]
      BY <1>0, <2>1, <2>2 DEF Base, Typed, JobHeld, Numbered, UpTo, Latest
    <2>4. /\ job'.stage # "none" /\ job'.dev = item[1] /\ job'.reading = item[2]
          /\ job'.gen = generation /\ (job'.stage # "state" => job'.left \subseteq Topics)
      BY <1>0, <2>1, <2>3, WorkHasTopics
    <2>5. pc["worker"] # "publishing"
      BY <1>0, <2>2 DEF TakesTurns, Tasks, Turn
    <2> QED BY <1>0, <2>1, <2>2, <2>3, <2>4, <2>5 DEF JobHeld, Latest
  <1>13. CASE RestoreDone \/ RestoreAgain
    <2>1. /\ pc'["restore"] = "idle" /\ pc'["worker"] = pc["worker"] /\ dev'["worker"] = dev["worker"]
          /\ UNCHANGED <<job, generation, profile, snapshots>>
          /\ job.stage = "none" \/ pc["restore"] = "pause"
      BY <1>0, <1>13, GoesThere, NoJobTyped DEF RestoreDone, RestoreAgain, Tasks, Places
    <2> QED BY <1>0, <2>1 DEF JobHeld, Latest
  <1>14. CASE \E d \in Devices : Forget(d)
    <2>1. /\ pc'["restore"] = pc["restore"] /\ pc'["worker"] = pc["worker"]
          /\ dev'["worker"] = dev["worker"]
          /\ UNCHANGED <<job, generation, profile, todo, snapshots>>
      BY <1>0, <1>14, BeginsThere DEF Forget, Tasks
    <2> QED BY <1>0, <2>1 DEF JobHeld, Latest
  <1>15. CASE ForgetTakesTurn
    <2>1. /\ pc'["restore"] = pc["restore"] /\ pc'["worker"] = pc["worker"] /\ dev' = dev
          /\ pc["restore"] # "publishing" /\ pc["worker"] # "publishing"
          /\ UNCHANGED <<job, generation, profile, todo>>
      BY <1>0, <1>15, GoesThere DEF ForgetTakesTurn, LockFree, Tasks, Places
    <2> QED BY <1>0, <2>1 DEF JobHeld, Latest
  <1>16. CASE \E t \in {"worker", "forget"} : Save(t) \/ SaveFails(t)
    <2>1. PICK t \in {"worker", "forget"} : Save(t) \/ SaveFails(t)
      BY <1>16
    <2>2. /\ pc[t] = "saving" /\ Goes(t, IF t = "worker" THEN "connect" ELSE "idle")
          /\ UNCHANGED <<job, generation, profile, todo, snapshots>>
      BY <2>1 DEF Save, SaveFails, AfterSave
    <2>3. /\ pc["worker"] # "publishing" /\ pc["restore"] # "publishing"
      BY <1>0, <2>1, <2>2 DEF TakesTurns, Turn, Tasks
    <2>4. pc'["worker"] # "publishing" /\ pc'["restore"] # "publishing"
      BY <1>0, <2>1, <2>2, <2>3, GoesThere DEF Tasks, Places
    <2> QED BY <1>0, <2>2, <2>3, <2>4 DEF JobHeld, Latest
  <1>17. CASE Restart
    <2>1. job' = NoJob /\ pc'["worker"] = "idle" /\ pc'["restore"] = "idle"
      BY <1>17 DEF Restart, Tasks
    <2> QED BY <2>1, NoJobTyped DEF JobHeld
  <1> QED
    BY <1>1, <1>2, <1>3, <1>4, <1>5, <1>6, <1>7, <1>8, <1>9, <1>10, <1>11, <1>12, <1>13, <1>14,
       <1>15, <1>16, <1>17 DEF Next

\* What is left on the way after the broker took the oldest message.
LEMMA OldestLeaves ==
  ASSUME Base, Deliver
  PROVE  /\ 1 \in DOMAIN outbox /\ Head(outbox) = outbox[1]
         /\ Len(outbox') = Len(outbox) - 1
         /\ \A i \in DOMAIN outbox' : i + 1 \in DOMAIN outbox /\ outbox'[i] = outbox[i + 1]
  <1>1. outbox \in Seq(Message) /\ outbox # <<>> /\ outbox' = Tail(outbox)
    BY DEF Base, Typed, Deliver
  <1> QED BY <1>1

\* The message sent goes to the end.
LEMMA NewestJoins ==
  ASSUME Base, Send
  PROVE  /\ Len(outbox') = Len(outbox) + 1
         /\ DOMAIN outbox' = (DOMAIN outbox) \cup {Len(outbox) + 1}
         /\ \A i \in DOMAIN outbox : outbox'[i] = outbox[i]
         /\ outbox'[Len(outbox) + 1] = [stage |-> job.stage, dev |-> job.dev,
                                        topic |-> job'.topic, reading |-> job.reading]
  <1>1. outbox \in Seq(Message)
    BY DEF Base, Typed
  <1>2. PICK m \in Message :
          /\ m = [stage |-> job.stage, dev |-> job.dev, topic |-> job'.topic,
                  reading |-> job.reading]
          /\ outbox' = Append(outbox, m)
    BY SendIsTyped
  <1> HIDE DEF Message
  <1>3. /\ Len(outbox') = Len(outbox) + 1
        /\ \A i \in DOMAIN outbox : outbox'[i] = outbox[i]
        /\ outbox'[Len(outbox) + 1] = m
        /\ DOMAIN outbox' = (DOMAIN outbox) \cup {Len(outbox) + 1}
    BY <1>1, <1>2
  <1> QED BY <1>2, <1>3

\* The worker's places follow one another.
LEMMA WorkersWay ==
  ASSUME Base, Next
  PROVE  /\ \/ pc'["worker"] \in {"idle", pc["worker"]}
            \/ pc["worker"] = "idle" /\ pc'["worker"] = "turn"
               /\ \E d \in Devices, p \in Profiles : Publish(d, p)
            \/ pc["worker"] = "turn" /\ pc'["worker"] = "saving" /\ Remember
            \/ pc["worker"] = "saving" /\ pc'["worker"] = "connect"
               /\ (Save("worker") \/ SaveFails("worker"))
            \/ pc["worker"] = "connect" /\ pc'["worker"] = "turn2" /\ AwaitConnection
            \/ pc["worker"] = "turn2" /\ pc'["worker"] = "publishing" /\ PublishTakesTurn
         /\ pc["worker"] # "idle" /\ pc'["worker"] # "idle" => dev'["worker"] = dev["worker"]
         /\ profile' # profile => pc["worker"] = "idle" /\ pc'["worker"] = "turn"
               /\ \E d \in Devices, p \in Profiles : Publish(d, p)
  <1> USE DEF data, books, link, tasks, broker, history
  <1>0. Typed /\ TakesTurns
    BY DEF Base
  <1>1. CASE UNCHANGED <<profile, pc, dev>>
    BY <1>1
  <1>2. CASE StateSent \/ PublicationFails
    <2>1. job.stage # "none" /\ profile' = profile
      BY <1>2 DEF StateSent, PublicationFails
    <2>2. CASE Publishing = "worker"
      BY <1>0, <1>2, <2>1, <2>2, GoesThere, ThePublisher
      DEF StateSent, PublicationFails, Tasks, Places
    <2>3. CASE Publishing # "worker"
      BY <1>0, <1>2, <2>1, <2>3, GoesThere, ThePublisher
      DEF StateSent, PublicationFails, Tasks, Places
    <2> QED BY <2>2, <2>3
  <1>3. CASE \E d \in Devices, p \in Profiles : Publish(d, p)
    BY <1>0, <1>3, BeginsThere DEF Publish, Tasks
  <1>4. CASE Remember
    BY <1>0, <1>4, GoesThere DEF Remember, Tasks, Places
  <1>5. CASE AwaitConnection
    BY <1>0, <1>5, GoesThere DEF AwaitConnection, Tasks, Places
  <1>6. CASE NoConnection
    BY <1>0, <1>6, GoesThere DEF NoConnection, Tasks, Places
  <1>7. CASE PublishTakesTurn
    BY <1>0, <1>7, GoesThere DEF PublishTakesTurn, Tasks, Places
  <1>8. CASE RestoreWakes \/ RestoreTakesTurn \/ RestoreDone \/ RestoreAgain
    BY <1>0, <1>8, GoesThere DEF RestoreWakes, RestoreTakesTurn, RestoreDone, RestoreAgain,
                                 Tasks, Places
  <1>9. CASE \E d \in Devices : Forget(d)
    BY <1>0, <1>9, BeginsThere DEF Forget, Tasks
  <1>10. CASE ForgetTakesTurn
    BY <1>0, <1>10, GoesThere DEF ForgetTakesTurn, Tasks, Places
  <1>11. CASE \E t \in {"worker", "forget"} : Save(t) \/ SaveFails(t)
    <2>1. PICK t \in {"worker", "forget"} : Save(t) \/ SaveFails(t)
      BY <1>11
    <2>2. pc[t] = "saving" /\ Goes(t, IF t = "worker" THEN "connect" ELSE "idle")
          /\ profile' = profile
      BY <2>1 DEF Save, SaveFails, AfterSave
    <2> QED BY <1>0, <2>1, <2>2, GoesThere DEF Tasks, Places
  <1>12. CASE Restart
    BY <1>12 DEF Restart, Tasks
  <1>13. UNCHANGED <<profile, pc, dev>> \/ ~(\/ Connect \/ Disconnect \/ Birth \/ Deliver
           \/ Send \/ ConfigSent \/ Announced \/ ClearSent \/ ClearFails \/ RestoreNext)
    BY DEF Connect, Disconnect, Birth, Deliver, Send, ConfigSent, Announced, ClearSent,
       ClearFails, RestoreNext
  <1> QED
    BY <1>1, <1>2, <1>3, <1>4, <1>5, <1>6, <1>7, <1>8, <1>9, <1>10, <1>11, <1>12, <1>13 DEF Next

\* Who changes which reading: a snapshot becomes the last one, nothing or the
\* saved one, the saved ones become the snapshots, and Home Assistant gets the
\* oldest message on its way.
LEMMA ReadingsMove ==
  ASSUME Base, Next
  PROVE  /\ \/ snapshots' = snapshots
            \/ Remember
            \/ ForgetTakesTurn /\ snapshots' = [snapshots EXCEPT ![dev["forget"]] = 0]
            \/ Restart /\ snapshots' = disk
         /\ \/ disk' = disk
            \/ \E t \in {"worker", "forget"} : Save(t) /\ disk' = snapshots
         /\ \/ shown' = shown
            \/ Birth /\ shown' = [d \in Devices |-> 0]
            \/ Deliver
         /\ \/ outbox' = outbox \/ Deliver \/ Send
            \/ Restart /\ outbox' = <<>>
  BY DEF Next, data, books, link, tasks, broker, history, Connect, Disconnect, Birth, Send,
     ConfigSent, Announced, ClearSent, StateSent, ClearFails, PublicationFails, Publish,
     AwaitConnection, NoConnection, PublishTakesTurn, RestoreWakes, RestoreTakesTurn,
     RestoreNext, RestoreDone, RestoreAgain, Forget, ForgetTakesTurn, Save, SaveFails, Restart,
     Deliver, Remember

\* Home Assistant shows what it had, nothing, or the reading it was sent.
LEMMA ShownMoves ==
  ASSUME Base, Deliver
  PROVE  LET m == Head(outbox) IN
         \/ shown' = shown
         \/ /\ m.stage = "state" /\ TopicsOf[profile[m.reading]] \subseteq retained[m.dev]
            /\ shown' = [shown EXCEPT ![m.dev] = m.reading]
  BY DEF Deliver

\* The messages on their way carry readings there were.
LEMMA NumbersOnTheWay ==
  ASSUME Base, Next, NEW n \in Nat, UpTo(n), job.stage # "none" => job.reading <= n
  PROVE  \A i \in DOMAIN outbox' : outbox'[i].reading <= n
  <1>1. \A i \in DOMAIN outbox : outbox[i].reading <= n
    BY DEF UpTo
  <1>2. CASE outbox' = outbox
    BY <1>1, <1>2
  <1>3. CASE Deliver
    BY <1>1, <1>3, OldestLeaves
  <1>4. CASE Send
    <2>1. job.stage # "none"
      BY <1>4 DEF Send
    <2>2. outbox'[Len(outbox) + 1].reading = job.reading
      BY <1>4, NewestJoins
    <2>3. \A i \in DOMAIN outbox : outbox'[i] = outbox[i]
      BY <1>4, NewestJoins
    <2>4. DOMAIN outbox' = (DOMAIN outbox) \cup {Len(outbox) + 1}
      BY <1>4, NewestJoins
    <2> QED BY <1>1, <2>1, <2>2, <2>3, <2>4
  <1>5. CASE outbox' = <<>>
    BY <1>5
  <1> QED BY <1>2, <1>3, <1>4, <1>5, ReadingsMove

\* Unless the worker remembers its reading, no number grows.
LEMMA NumbersKept ==
  ASSUME Base, Next, NEW n \in Nat, UpTo(n), job.stage # "none" => job.reading <= n,
         Remember => n = Latest
  PROVE  UpTo(n)'
  <1>0. /\ \A d \in Devices : snapshots[d] <= n /\ disk[d] <= n /\ shown[d] <= n
        /\ \A i \in DOMAIN outbox : outbox[i].reading <= n
    BY DEF UpTo
  <1>a. /\ snapshots \in [Devices -> Nat] /\ disk \in [Devices -> Nat]
        /\ shown \in [Devices -> Nat] /\ Latest \in Nat
    BY DEF Base, Typed, Latest
  <1>1. \A d \in Devices : snapshots'[d] <= n
    <2>1. CASE Remember
      BY <1>0, <1>a, <2>1 DEF Remember
    <2>2. CASE snapshots' = snapshots
      BY <1>0, <2>2
    <2>3. CASE snapshots' = [snapshots EXCEPT ![dev["forget"]] = 0]
      BY <1>0, <1>a, <2>3
    <2>4. CASE snapshots' = disk
      BY <1>0, <2>4
    <2> QED BY <2>1, <2>2, <2>3, <2>4, ReadingsMove
  <1>2. \A d \in Devices : disk'[d] <= n
    BY <1>0, ReadingsMove
  <1>3. \A d \in Devices : shown'[d] <= n
    <2>1. CASE shown' = shown
      BY <1>0, <2>1
    <2>2. CASE shown' = [d \in Devices |-> 0]
      BY <2>2
    <2>3. CASE Deliver
      <3>1. Head(outbox).reading <= n
        BY <1>0, <2>3, OldestLeaves
      <3> QED BY <1>0, <1>a, <2>3, <3>1, ShownMoves
    <2> QED BY <2>1, <2>2, <2>3, ReadingsMove
  <1>4. \A i \in DOMAIN outbox' : outbox'[i].reading <= n
    BY NumbersOnTheWay
  <1> QED BY <1>1, <1>2, <1>3, <1>4 DEF UpTo

LEMMA NumberedStep ==
  ASSUME Base, Next
  PROVE  Numbered'
  <1>0. Latest \in Nat /\ Numbered /\ JobHeld /\ Typed
    BY DEF Base, Typed, Latest
  <1>1. CASE profile' # profile
    <2>1. PICK d \in Devices, p \in Profiles : Publish(d, p)
      BY <1>1, WorkersWay
    <2>2. Len(profile') = Len(profile) + 1 /\ UNCHANGED <<snapshots, disk, shown, outbox>>
      BY <1>0, <2>1 DEF Publish, Typed, data, broker
    <2>3. Latest' - 1 = Latest /\ Latest' > 0
      BY <1>0, <2>2 DEF Latest
    <2>4. UpTo(Latest)
      BY <1>0 DEF Numbered
    <2>5. /\ \A e \in Devices : snapshots[e] \in Nat /\ disk[e] \in Nat /\ shown[e] \in Nat
          /\ \A i \in DOMAIN outbox : outbox[i].reading \in Nat
      <3>1. \A i \in DOMAIN outbox : outbox[i] \in Message
        BY <1>0 DEF Typed
      <3>2. \A m \in Message : m.reading \in Nat
        BY DEF Message
      <3> QED BY <1>0, <3>1, <3>2 DEF Typed
    <2>6. UpTo(Latest)' /\ (UpTo(Latest - 1))'
      <3> DEFINE l == Latest
                 m == Latest'
      <3>1. m - 1 = l /\ l \in Nat /\ m \in Nat
        BY <1>0, <2>3, <2>2 DEF Latest
      <3>2. /\ \A e \in Devices : snapshots[e] <= l /\ disk[e] <= l /\ shown[e] <= l
            /\ \A i \in DOMAIN outbox : outbox[i].reading <= l
        BY <2>4 DEF UpTo
      <3> HIDE DEF l, m
      <3>3. /\ \A e \in Devices : snapshots[e] <= m /\ disk[e] <= m /\ shown[e] <= m
            /\ \A i \in DOMAIN outbox : outbox[i].reading <= m
            /\ \A e \in Devices : snapshots[e] <= m - 1 /\ disk[e] <= m - 1 /\ shown[e] <= m - 1
            /\ \A i \in DOMAIN outbox : outbox[i].reading <= m - 1
        BY <2>5, <3>1, <3>2
      <3> QED BY <2>2, <3>3 DEF UpTo, m
    <2> QED BY <2>3, <2>6 DEF Numbered
  <1>2. CASE profile' = profile
    <2>1. Latest' = Latest
      BY <1>2 DEF Latest
    <2>2. UpTo(Latest)'
      <3>1. UpTo(Latest) /\ (job.stage # "none" => job.reading <= Latest)
        BY <1>0 DEF Numbered, JobHeld
      <3> QED BY <1>0, <2>1, <3>1, NumbersKept DEF UpTo
    <2>3. pc'["worker"] # "idle" => Latest' > 0
      <3>1. pc["worker"] # "idle" => Latest > 0
        BY <1>0 DEF Numbered
      <3>2. (\E d \in Devices, p \in Profiles : Publish(d, p)) => profile' # profile
        <4> SUFFICES ASSUME NEW d \in Devices, NEW p \in Profiles, Publish(d, p)
                     PROVE  profile' # profile
          OBVIOUS
        <4>1. Len(profile') = Len(profile) + 1 /\ Len(profile) \in Nat
          BY <1>0 DEF Publish, Typed
        <4> QED BY <4>1
      <3> QED BY <1>2, <2>1, <3>1, <3>2, WorkersWay
    <2>4. ASSUME pc'["worker"] = "turn"
          PROVE  (UpTo(Latest - 1))'
      <3>1. (\E d \in Devices, p \in Profiles : Publish(d, p)) => profile' # profile
        <4> SUFFICES ASSUME NEW d \in Devices, NEW p \in Profiles, Publish(d, p)
                     PROVE  profile' # profile
          OBVIOUS
        <4>1. Len(profile') = Len(profile) + 1 /\ Len(profile) \in Nat
          BY <1>0 DEF Publish, Typed
        <4> QED BY <4>1
      <3>2. pc["worker"] = "turn"
        BY <1>2, <2>4, <3>1, WorkersWay
      <3>3. ~Remember
        BY <1>0, <2>4, GoesThere DEF Remember, Tasks, Places
      <3>4. Latest - 1 \in Nat /\ UpTo(Latest - 1)
        BY <1>0, <3>2 DEF Numbered
      <3>5. ASSUME job.stage # "none" PROVE job.reading <= Latest - 1
        <4>1. pc["restore"] = "publishing" /\ job.dev \in Devices
          BY <1>0, <3>2, <3>5 DEF JobHeld
        <4>2. job.reading = snapshots[job.dev]
          BY <1>0, <3>5, <4>1 DEF JobHeld
        <4> QED BY <3>4, <4>1, <4>2 DEF UpTo
      <3>6. \A n \in Nat : n = Latest - 1 => UpTo(n)'
        BY <3>3, <3>4, <3>5, NumbersKept
      <3> QED BY <2>1, <3>4, <3>6 DEF UpTo
    <2> QED BY <2>2, <2>3, <2>4 DEF Numbered
  <1> QED BY <1>1, <1>2

\* Base is inductive.
LEMMA BaseHolds == Spec => []Base
  <1>1. Init => Base
    BY BaseAtFirst
  <1>2. Base /\ [Next]_vars => Base'
    <2> SUFFICES ASSUME Base, [Next]_vars PROVE Base'
      OBVIOUS
    <2>1. CASE Next
      BY <2>1, TypedStep, TakesTurnsStep, JobHeldStep, NumberedStep DEF Base
    <2>2. CASE UNCHANGED vars
      BY <2>2 DEF Base, Typed, TakesTurns, JobHeld, Numbered, UpTo, Latest,
                  vars, link, books, tasks, broker, history
    <2> QED BY <2>1, <2>2
  <1> QED BY <1>1, <1>2, PTL DEF Spec

-----------------------------------------------------------------------------
(* Readings only go forward.                                               *)

\* The places of inverter d's states among the messages on their way, and the
\* readings they carry.
States(d) == {i \in DOMAIN outbox : outbox[i].stage = "state" /\ outbox[i].dev = d}
OnTheWay(d) == {outbox[i].reading : i \in States(d)}

\* The worker's reading is the snapshot, or there is none: no room, or forgotten.
WorkerKnows ==
  pc["worker"] \in Busy => snapshots[dev["worker"]] \in {0, Latest}

Ordered ==
  \A d \in Devices : \A i, j \in States(d) : i < j => outbox[i].reading <= outbox[j].reading

\* No state on its way is newer than the snapshot.
UpToDate ==
  \A d \in Known : \A r \in OnTheWay(d) : r <= snapshots[d]

\* What is on its way is no older than what is shown.  The file has the snapshots,
\* except while a task is saving them, and neither is older than what was sent.
Forward ==
  ~saveFailed =>
    /\ (\A t \in Tasks : pc[t] # "saving") => disk = snapshots
    /\ \A d \in Devices :
         /\ \A r \in OnTheWay(d) : r >= shown[d]
         /\ snapshots[d] # 0 => snapshots[d] >= shown[d]
         /\ disk[d] # 0 => disk[d] >= shown[d] /\ \A r \in OnTheWay(d) : r <= disk[d]
    /\ pc["worker"] \in Busy \ {"saving"} => disk[dev["worker"]] \in {0, Latest}

Sequel == Base /\ WorkerKnows /\ Ordered /\ UpToDate /\ Forward

LEMMA ReadingsAreNumbers ==
  ASSUME Base, NEW d \in Devices
  PROVE  /\ OnTheWay(d) \subseteq Nat \ {0}
         /\ States(d) \subseteq Nat
         /\ \A r \in OnTheWay(d) : r <= Latest
  <1>1. \A i \in DOMAIN outbox : i \in Nat /\ outbox[i] \in Message
    BY DEF Base, Typed
  <1>2. \A m \in Message : m.reading \in Nat \ {0}
    BY DEF Message
  <1>3. \A i \in DOMAIN outbox : outbox[i].reading <= Latest
    BY DEF Base, Numbered, UpTo
  <1> QED BY <1>1, <1>2, <1>3 DEF OnTheWay, States

\* A new state on its way is that of the snapshot being published.
LEMMA StatesMove ==
  ASSUME Base, Next, NEW d \in Devices, NEW r \in OnTheWay(d)'
  PROVE  r \in OnTheWay(d) \/ (Send /\ job.stage = "state" /\ job.dev = d /\ r = job.reading)
  <1>1. PICK i \in DOMAIN outbox' :
          outbox'[i].stage = "state" /\ outbox'[i].dev = d /\ r = outbox'[i].reading
    BY DEF OnTheWay, States
  <1>2. CASE outbox' = outbox
    BY <1>1, <1>2 DEF OnTheWay, States
  <1>3. CASE Deliver
    <2>1. i + 1 \in DOMAIN outbox /\ outbox'[i] = outbox[i + 1]
      BY <1>1, <1>3, OldestLeaves
    <2> QED BY <1>1, <2>1 DEF OnTheWay, States
  <1>4. CASE Send
    <2>1. CASE i \in DOMAIN outbox
      <3>1. outbox'[i] = outbox[i]
        BY <1>4, <2>1, NewestJoins
      <3> QED BY <1>1, <2>1, <3>1 DEF OnTheWay, States
    <2>2. CASE i \notin DOMAIN outbox
      <3>1. i = Len(outbox) + 1
        BY <1>1, <1>4, <2>2, NewestJoins
      <3>2. /\ outbox'[i].stage = job.stage /\ outbox'[i].dev = job.dev
            /\ outbox'[i].reading = job.reading
        BY <1>4, <3>1, NewestJoins
      <3> QED BY <1>1, <1>4, <3>2
    <2> QED BY <2>1, <2>2
  <1>5. CASE outbox' = <<>>
    BY <1>1, <1>5
  <1> QED BY <1>2, <1>3, <1>4, <1>5, ReadingsMove

\* Home Assistant gets the oldest of them.
LEMMA OldestArrives ==
  ASSUME Base, Ordered, Deliver, NEW d \in Devices, shown'[d] # shown[d]
  PROVE  shown'[d] \in OnTheWay(d) /\ \A r \in OnTheWay(d)' : r >= shown'[d]
  <1> DEFINE m == Head(outbox)
  <1>1. shown' = [shown EXCEPT ![m.dev] = m.reading] /\ m.stage = "state"
    BY ShownMoves
  <1>2. m = outbox[1] /\ 1 \in DOMAIN outbox
    BY OldestLeaves
  <1> HIDE DEF m
  <1>3. m.dev = d /\ shown'[d] = m.reading
    BY <1>1 DEF Base, Typed
  <1>4. 1 \in States(d)
    BY <1>1, <1>2, <1>3 DEF States
  <1>5. ASSUME NEW r \in OnTheWay(d)' PROVE r >= m.reading
    <2>1. PICK i \in DOMAIN outbox' :
            outbox'[i].stage = "state" /\ outbox'[i].dev = d /\ r = outbox'[i].reading
      BY DEF OnTheWay, States
    <2>2. i + 1 \in DOMAIN outbox /\ outbox'[i] = outbox[i + 1]
      BY <2>1, OldestLeaves
    <2>3. i + 1 \in States(d)
      BY <2>1, <2>2 DEF States
    <2>4. 1 < i + 1
      <3>1. i + 1 \in Nat /\ i \in Nat /\ i >= 1
        BY <2>1, <2>2, TypedStep DEF Base, Typed, Deliver
      <3> QED BY <3>1
    <2>5. outbox[1].reading <= outbox[i + 1].reading
      BY <1>4, <2>3, <2>4 DEF Ordered
    <2>6. outbox[1].reading \in Nat /\ outbox[i + 1].reading \in Nat
      BY <1>4, <2>3, ReadingsAreNumbers DEF OnTheWay
    <2> QED BY <1>2, <2>1, <2>2, <2>5, <2>6
  <1> QED BY <1>2, <1>3, <1>4, <1>5 DEF OnTheWay

LEMMA WorkerKnowsStep ==
  ASSUME Base, WorkerKnows, Next
  PROVE  WorkerKnows'
  <1> SUFFICES ASSUME pc'["worker"] \in Busy PROVE snapshots'[dev'["worker"]] \in {0, Latest'}
    BY DEF WorkerKnows
  <1>0. snapshots \in [Devices -> Nat] /\ Latest \in Nat /\ dev["worker"] \in Devices \cup {"none"}
    BY DEF Base, Typed, Latest, Tasks
  <1>1. pc["worker"] # "idle" /\ dev'["worker"] = dev["worker"] /\ profile' = profile
    BY WorkersWay DEF Busy
  <1>2. dev["worker"] \in Devices /\ Latest' = Latest
    BY <1>1 DEF Base, TakesTurns, Latest
  <1>3. CASE Remember
    BY <1>0, <1>1, <1>2, <1>3 DEF Remember, Known
  <1>4. CASE ~Remember
    <2>1. pc["worker"] \in Busy
      BY <1>4, <1>1, WorkersWay DEF Busy
    <2>2. snapshots[dev["worker"]] \in {0, Latest}
      BY <2>1 DEF WorkerKnows
    <2>3. CASE snapshots' = snapshots
      BY <1>1, <1>2, <2>2, <2>3
    <2>4. CASE snapshots' = [snapshots EXCEPT ![dev["forget"]] = 0]
      BY <1>0, <1>1, <1>2, <2>2, <2>4
    <2>5. ~Restart
      <3>1. Restart => pc'["worker"] = "idle"
        BY DEF Restart, Tasks
      <3> QED BY <3>1 DEF Busy
    <2> QED BY <1>4, <2>3, <2>4, <2>5, ReadingsMove
  <1> QED BY <1>3, <1>4

\* A state is sent in its turn: it is the worker's last reading, or a snapshot.
LEMMA StateIsSent ==
  ASSUME Base, Send
  PROVE  /\ job.dev \in Devices /\ job.reading \in 1..Latest
         /\ \/ pc["worker"] = "publishing" /\ job.dev = dev["worker"] /\ job.reading = Latest
            \/ job.reading = snapshots[job.dev]
         /\ \A t \in Tasks : pc[t] # "saving"
  <1>1. job.stage # "none"
    BY DEF Send
  <1>2. pc["worker"] = "publishing" \/ pc["restore"] = "publishing"
    BY <1>1 DEF Base, JobHeld
  <1>3. \A t \in Tasks : pc[t] # "saving"
    BY <1>2 DEF Base, TakesTurns, Tasks, Turn
  <1> QED BY <1>1, <1>2, <1>3 DEF Base, JobHeld

LEMMA OrderedStep ==
  ASSUME Base, WorkerKnows, Ordered, UpToDate, Next
  PROVE  Ordered'
  <1> SUFFICES ASSUME NEW d \in Devices, NEW i \in States(d)', NEW j \in States(d)', i < j
               PROVE  outbox'[i].reading <= outbox'[j].reading
    BY DEF Ordered
  <1>0. /\ i \in DOMAIN outbox' /\ outbox'[i].stage = "state" /\ outbox'[i].dev = d
        /\ j \in DOMAIN outbox' /\ outbox'[j].stage = "state" /\ outbox'[j].dev = d
    BY DEF States
  <1>a. Len(outbox) \in Nat /\ DOMAIN outbox = 1..Len(outbox)
        /\ i \in Nat /\ j \in Nat
    <2>1. Typed /\ Typed'
      BY TypedStep DEF Base
    <2> QED BY <1>0, <2>1 DEF Typed
  <1>1. CASE outbox' = outbox
    BY <1>0, <1>1 DEF Ordered, States
  <1>2. CASE Deliver
    <2>1. /\ i + 1 \in States(d) /\ outbox'[i] = outbox[i + 1]
          /\ j + 1 \in States(d) /\ outbox'[j] = outbox[j + 1]
      BY <1>0, <1>2, OldestLeaves DEF States
    <2>2. i + 1 < j + 1
      BY <1>a
    <2> QED BY <2>1, <2>2 DEF Ordered
  <1>3. CASE Send
    <2>1. CASE j \in DOMAIN outbox
      <3>1. i \in DOMAIN outbox
        BY <1>0, <1>3, <1>a, <2>1, NewestJoins
      <3>2. outbox'[i] = outbox[i] /\ outbox'[j] = outbox[j]
        BY <1>3, <2>1, <3>1, NewestJoins
      <3> QED BY <1>0, <2>1, <3>1, <3>2 DEF Ordered, States
    <2>2. CASE j \notin DOMAIN outbox
      <3>1. j = Len(outbox) + 1
        <4>1. DOMAIN outbox' = (DOMAIN outbox) \cup {Len(outbox) + 1}
          BY <1>3, NewestJoins
        <4>2. j \in DOMAIN outbox'
          BY <1>0
        <4> QED BY <2>2, <4>1, <4>2
      <3>2. i \in DOMAIN outbox
        BY <1>0, <1>3, <1>a, <3>1, NewestJoins
      <3>3. outbox'[i] = outbox[i]
        BY <1>3, <3>2, NewestJoins
      <3>4. outbox'[j].reading = job.reading /\ outbox'[j].dev = job.dev
        BY <1>3, <3>1, NewestJoins
      <3>5. outbox[i].reading \in OnTheWay(d) /\ job.dev = d
        BY <1>0, <3>2, <3>3, <3>4 DEF OnTheWay, States
      <3>6. outbox[i].reading <= job.reading
        <4>1. CASE job.reading = Latest
          BY <3>5, <4>1, ReadingsAreNumbers
        <4>2. CASE job.reading = snapshots[d]
          <5>1. d \in Known
            BY <1>3, <4>2, StateIsSent, <3>5 DEF Known, Base, Typed, Latest
          <5> QED BY <3>5, <4>2, <5>1 DEF UpToDate
        <4> QED BY <1>3, <3>5, <4>1, <4>2, StateIsSent
      <3> QED BY <3>3, <3>4, <3>6
    <2> QED BY <2>1, <2>2
  <1>4. CASE outbox' = <<>>
    BY <1>0, <1>4
  <1> QED BY <1>1, <1>2, <1>3, <1>4, ReadingsMove

LEMMA UpToDateStep ==
  ASSUME Base, WorkerKnows, UpToDate, Next
  PROVE  UpToDate'
  <1> SUFFICES ASSUME NEW d \in Devices, snapshots'[d] # 0, NEW r \in OnTheWay(d)'
               PROVE  r <= snapshots'[d]
    BY DEF UpToDate, Known
  <1>0. /\ snapshots \in [Devices -> Nat] /\ Latest \in Nat
        /\ dev \in [Tasks -> Devices \cup {"none"}]
    BY DEF Base, Typed, Latest
  <1>1. CASE r \in OnTheWay(d)
    <2>1. r <= Latest /\ r \in Nat
      BY <1>1, ReadingsAreNumbers
    <2>2. CASE Remember
      BY <1>0, <1>1, <2>1, <2>2 DEF Remember, Known, UpToDate
    <2>3. CASE Restart
      BY <2>3 DEF Restart, OnTheWay, States
    <2>4. CASE snapshots' = snapshots
      BY <1>1, <2>4 DEF UpToDate, Known
    <2>5. CASE snapshots' = [snapshots EXCEPT ![dev["forget"]] = 0]
      BY <1>0, <1>1, <2>5 DEF UpToDate, Known
    <2> QED BY <2>2, <2>3, <2>4, <2>5, ReadingsMove
  <1>2. CASE Send /\ job.stage = "state" /\ job.dev = d /\ r = job.reading
    <2>1. snapshots' = snapshots
      BY <1>2 DEF Send, data
    <2>2. CASE r = snapshots[d]
      BY <1>0, <2>1, <2>2
    <2>3. CASE pc["worker"] = "publishing" /\ d = dev["worker"] /\ r = Latest
      <3>1. snapshots[d] \in {0, Latest}
        BY <2>3 DEF WorkerKnows, Busy
      <3> QED BY <1>0, <2>1, <2>3, <3>1
    <2> QED BY <1>2, <2>2, <2>3, StateIsSent
  <1> QED BY <1>1, <1>2, StatesMove

\* A task stops saving when it has saved, has failed to, or with the process.
LEMMA SavingEnds ==
  ASSUME Base, Next, ~Restart, ~\E t \in {"worker", "forget"} : Save(t) \/ SaveFails(t),
         NEW t \in Tasks, pc[t] = "saving"
  PROVE  pc'[t] = "saving"
  <1> USE DEF data, books, link, tasks, broker, history
  <1>0. Typed /\ TakesTurns
    BY DEF Base
  <1>1. CASE UNCHANGED pc
    BY <1>1
  <1>2. CASE StateSent \/ PublicationFails
    <2>1. job.stage # "none"
      BY <1>2 DEF StateSent, PublicationFails
    <2>2. pc["worker"] = "publishing" \/ pc["restore"] = "publishing"
      BY <2>1 DEF Base, JobHeld
    <2> QED BY <1>0, <2>2 DEF TakesTurns, Turn, Tasks
  <1>3. CASE \E d \in Devices, p \in Profiles : Publish(d, p)
    BY <1>0, <1>3, BeginsThere DEF Publish, Tasks
  <1>4. CASE Remember \/ PublishTakesTurn \/ RestoreTakesTurn \/ ForgetTakesTurn
    BY <1>4 DEF Remember, PublishTakesTurn, RestoreTakesTurn, ForgetTakesTurn, LockFree
  <1>5. CASE AwaitConnection \/ NoConnection
    BY <1>0, <1>5, GoesThere DEF AwaitConnection, NoConnection, Tasks, Places
  <1>6. CASE RestoreWakes \/ RestoreDone \/ RestoreAgain
    BY <1>0, <1>6, GoesThere DEF RestoreWakes, RestoreDone, RestoreAgain, Tasks, Places
  <1>7. CASE \E d \in Devices : Forget(d)
    BY <1>0, <1>7, BeginsThere DEF Forget, Tasks
  <1>8. UNCHANGED pc \/ ~(\/ Connect \/ Disconnect \/ Birth \/ Deliver \/ Send
           \/ ConfigSent \/ Announced \/ ClearSent \/ ClearFails \/ RestoreNext)
    BY DEF Connect, Disconnect, Birth, Deliver, Send, ConfigSent, Announced, ClearSent,
       ClearFails, RestoreNext
  <1> QED BY <1>1, <1>2, <1>3, <1>4, <1>5, <1>6, <1>7, <1>8 DEF Next

\* Only a failed save is one.
LEMMA FailuresKept ==
  ASSUME Next
  PROVE  saveFailed' = saveFailed \/ \E t \in {"worker", "forget"} : SaveFails(t)
  BY DEF Next, data, books, link, tasks, broker, history, Connect, Disconnect, Birth, Send,
     ConfigSent, Announced, ClearSent, StateSent, ClearFails, PublicationFails, Publish,
     AwaitConnection, NoConnection, PublishTakesTurn, RestoreWakes, RestoreTakesTurn,
     RestoreNext, RestoreDone, RestoreAgain, Forget, ForgetTakesTurn, Save,
     Restart, Deliver, Remember

LEMMA ForwardStep ==
  ASSUME Sequel, Next
  PROVE  Forward'
  <1> SUFFICES ASSUME ~saveFailed'
               PROVE  /\ (\A t \in Tasks : pc'[t] # "saving") => disk' = snapshots'
                      /\ \A d \in Devices :
                           /\ \A r \in OnTheWay(d)' : r >= shown'[d]
                           /\ snapshots'[d] # 0 => snapshots'[d] >= shown'[d]
                           /\ disk'[d] # 0 =>
                                disk'[d] >= shown'[d] /\ \A r \in OnTheWay(d)' : r <= disk'[d]
                      /\ pc'["worker"] \in Busy \ {"saving"} =>
                           disk'[dev'["worker"]] \in {0, Latest'}
    BY DEF Forward
  <1> USE DEF Sequel
  <1>0. /\ snapshots \in [Devices -> Nat] /\ disk \in [Devices -> Nat]
        /\ shown \in [Devices -> Nat] /\ Latest \in Nat
        /\ dev \in [Tasks -> Devices \cup {"none"}]
    BY DEF Base, Typed, Latest
  <1>1. ~saveFailed /\ ~(\E t \in {"worker", "forget"} : SaveFails(t))
    <2>1. ASSUME NEW t \in {"worker", "forget"}, SaveFails(t) PROVE FALSE
      BY <2>1 DEF SaveFails
    <2> QED BY <2>1, FailuresKept
  <1>2. /\ (\A t \in Tasks : pc[t] # "saving") => disk = snapshots
        /\ \A d \in Devices :
             /\ \A r \in OnTheWay(d) : r >= shown[d]
             /\ snapshots[d] # 0 => snapshots[d] >= shown[d]
             /\ disk[d] # 0 => disk[d] >= shown[d] /\ \A r \in OnTheWay(d) : r <= disk[d]
        /\ pc["worker"] \in Busy \ {"saving"} => disk[dev["worker"]] \in {0, Latest}
    BY <1>1 DEF Forward
  <1>3. (\A t \in Tasks : pc'[t] # "saving") => disk' = snapshots'
    <2> SUFFICES ASSUME \A t \in Tasks : pc'[t] # "saving" PROVE disk' = snapshots'
      OBVIOUS
    <2>1. CASE \E t \in {"worker", "forget"} : Save(t)
      BY <2>1 DEF Save
    <2>2. CASE Restart
      BY <2>2 DEF Restart
    <2>3. CASE ~Restart /\ ~\E t \in {"worker", "forget"} : Save(t)
      <3>1. ~Remember /\ ~ForgetTakesTurn
        BY GoesThere DEF Remember, ForgetTakesTurn, Base, Tasks, Places
      <3>2. snapshots' = snapshots /\ disk' = disk
        BY <2>3, <3>1, ReadingsMove
      <3>3. \A t \in Tasks : pc[t] # "saving"
        BY <1>1, <2>3, SavingEnds
      <3> QED BY <1>2, <3>2, <3>3
    <2> QED BY <2>1, <2>2, <2>3
  <1>4. ASSUME NEW d \in Devices
        PROVE  \A r \in OnTheWay(d)' : r >= shown'[d]
    <2> SUFFICES ASSUME NEW r \in OnTheWay(d)' PROVE r >= shown'[d]
      OBVIOUS
    <2>1. CASE Deliver /\ shown'[d] # shown[d]
      BY <2>1, OldestArrives
    <2>2. CASE shown'[d] = shown[d]
      <3>1. CASE r \in OnTheWay(d)
        BY <1>2, <2>2, <3>1
      <3>2. CASE Send /\ job.dev = d /\ r = job.reading
        <4>1. CASE r = snapshots[d]
          <5>1. snapshots[d] # 0
            BY <3>2, <4>1, StateIsSent DEF Base, Typed, Latest
          <5> QED BY <1>2, <2>2, <4>1, <5>1
        <4>2. CASE r = Latest
          BY <2>2, <4>2 DEF Base, Numbered, UpTo
        <4> QED BY <3>2, <4>1, <4>2, StateIsSent
      <3> QED BY <3>1, <3>2, StatesMove
    <2>3. CASE Birth
      <3>1. shown'[d] = 0 /\ outbox' = outbox
        BY <2>3 DEF Birth
      <3>2. r \in OnTheWay(d)
        BY <3>1 DEF OnTheWay, States
      <3> QED BY <3>1, <3>2, ReadingsAreNumbers
    <2> QED BY <2>1, <2>2, <2>3, ReadingsMove
  \* What Home Assistant gets was on its way, or shown already.
  <1>5. ASSUME NEW d \in Devices, NEW n \in Nat, n >= shown[d], \A r \in OnTheWay(d) : r <= n
        PROVE  n >= shown'[d]
    <2>1. CASE Deliver /\ shown'[d] # shown[d]
      BY <1>5, <2>1, OldestArrives, ReadingsAreNumbers
    <2>2. CASE shown'[d] = 0
      BY <1>5, <2>2
    <2> QED BY <1>5, <2>1, <2>2, ReadingsMove
  <1>6. ASSUME NEW d \in Devices, snapshots'[d] # 0
        PROVE  snapshots'[d] >= shown'[d]
    <2>1. CASE snapshots'[d] = snapshots[d]
      <3>1. /\ snapshots[d] >= shown[d] /\ snapshots[d] \in Nat
            /\ \A r \in OnTheWay(d) : r <= snapshots[d]
        BY <1>0, <1>2, <1>6, <2>1 DEF UpToDate, Known
      <3> QED BY <1>5, <2>1, <3>1
    <2>2. CASE snapshots'[d] = Latest
      <3>1. shown[d] <= Latest /\ \A r \in OnTheWay(d) : r <= Latest
        BY ReadingsAreNumbers DEF Base, Numbered, UpTo
      <3> QED BY <1>0, <1>5, <2>2, <3>1
    <2>3. CASE snapshots'[d] = disk[d]
      <3>1. /\ disk[d] >= shown[d] /\ disk[d] \in Nat
            /\ \A r \in OnTheWay(d) : r <= disk[d]
        BY <1>0, <1>2, <1>6, <2>3
      <3> QED BY <1>5, <2>3, <3>1
    <2>4. snapshots'[d] \in {snapshots[d], Latest, disk[d], 0}
      <3>1. CASE Remember
        BY <1>0, <3>1 DEF Remember
      <3>2. CASE ~Remember
        BY <1>0, <3>2, ReadingsMove
      <3> QED BY <3>1, <3>2
    <2> QED BY <1>6, <2>1, <2>2, <2>3, <2>4
  <1>7. ASSUME NEW d \in Devices, disk'[d] # 0
        PROVE  disk'[d] >= shown'[d] /\ \A r \in OnTheWay(d)' : r <= disk'[d]
    <2>1. CASE disk' = disk
      <3>1. /\ disk[d] >= shown[d] /\ disk[d] \in Nat
            /\ \A r \in OnTheWay(d) : r <= disk[d]
        BY <1>0, <1>2, <1>7, <2>1
      <3>2. disk'[d] >= shown'[d]
        BY <1>5, <2>1, <3>1
      <3>3. ASSUME NEW r \in OnTheWay(d)' PROVE r <= disk'[d]
        <4>1. CASE r \in OnTheWay(d)
          BY <2>1, <3>1, <4>1
        <4>2. CASE Send /\ job.dev = d /\ r = job.reading
          <5>1. CASE r = snapshots[d]
            <6>1. disk = snapshots
              BY <1>2, <4>2, StateIsSent
            <6> QED BY <1>0, <2>1, <5>1, <6>1
          <5>2. CASE pc["worker"] = "publishing" /\ d = dev["worker"] /\ r = Latest
            <6>1. disk[d] \in {0, Latest}
              BY <1>2, <5>2 DEF Busy
            <6> QED BY <1>0, <1>7, <2>1, <5>2, <6>1
          <5> QED BY <4>2, <5>1, <5>2, StateIsSent
        <4> QED BY <4>1, <4>2, StatesMove
      <3> QED BY <3>2, <3>3
    <2>2. CASE \E t \in {"worker", "forget"} : Save(t) /\ disk' = snapshots
      <3>1. /\ snapshots[d] >= shown[d] /\ snapshots[d] \in Nat
            /\ \A r \in OnTheWay(d) : r <= snapshots[d]
        BY <1>0, <1>2, <1>7, <2>2 DEF UpToDate, Known
      <3>2. OnTheWay(d)' = OnTheWay(d)
        BY <2>2 DEF Save, OnTheWay, States
      <3> QED BY <1>5, <2>2, <3>1, <3>2
    <2> QED BY <2>1, <2>2, ReadingsMove
  <1>8. ASSUME pc'["worker"] \in Busy \ {"saving"}
        PROVE  disk'[dev'["worker"]] \in {0, Latest'}
    <2>1. /\ dev'["worker"] = dev["worker"] /\ Latest' = Latest
          /\ pc["worker"] \in Busy
      BY <1>8, WorkersWay DEF Busy, Latest
    <2>2. CASE \E t \in {"worker", "forget"} : Save(t) /\ disk' = snapshots
      BY <2>1, <2>2 DEF WorkerKnows
    <2>3. CASE disk' = disk /\ pc["worker"] # "saving"
      BY <1>2, <2>1, <2>3
    <2>4. pc["worker"] = "saving" => Save("worker")
      <3>1. pc["worker"] = "saving" => pc'["worker"] = "connect"
        BY <1>8, WorkersWay DEF Busy
      <3> QED BY <1>1, <3>1, WorkersWay
    <2>5. Save("worker") => disk' = snapshots
      BY DEF Save
    <2> QED BY <2>2, <2>3, <2>4, <2>5, ReadingsMove
  <1> QED BY <1>3, <1>4, <1>6, <1>7, <1>8

LEMMA SequelHolds == Spec => []Sequel
  <1>1. Init => WorkerKnows /\ Ordered /\ UpToDate /\ Forward
    <2> SUFFICES ASSUME Init PROVE WorkerKnows /\ Ordered /\ UpToDate /\ Forward
      OBVIOUS
    <2>1. \A d : States(d) = {} /\ OnTheWay(d) = {}
      BY DEF Init, States, OnTheWay
    <2> QED BY <2>1 DEF Init, WorkerKnows, Ordered, UpToDate, Forward, Tasks, Busy
  <1>2. Sequel /\ [Next]_vars => (WorkerKnows /\ Ordered /\ UpToDate /\ Forward)'
    <2> SUFFICES ASSUME Sequel, [Next]_vars
                 PROVE  (WorkerKnows /\ Ordered /\ UpToDate /\ Forward)'
      OBVIOUS
    <2>1. CASE Next
      BY <2>1, WorkerKnowsStep, OrderedStep, UpToDateStep, ForwardStep DEF Sequel
    <2>2. CASE UNCHANGED vars
      BY <2>2 DEF Sequel, WorkerKnows, Ordered, UpToDate, Forward, States, OnTheWay, Known,
                  Latest, vars, link, books, tasks, broker, history
    <2> QED BY <2>1, <2>2
  <1>3. (Base /\ WorkerKnows /\ Ordered /\ UpToDate /\ Forward) <=> Sequel
    BY DEF Sequel
  <1> QED BY <1>1, <1>2, <1>3, BaseHolds, PTL DEF Spec

\* Home Assistant never goes back to an older reading, not even after a crash,
\* as long as saving works (publisher.py saves a reading before it sends it).
THEOREM ReadingsGoForward == Spec => StateNeverGoesBack
  <1>1. Sequel /\ [Next]_vars
          => [~saveFailed => \A d \in Devices : shown'[d] = 0 \/ shown'[d] >= shown[d]]_vars
    <2> SUFFICES ASSUME Sequel, Next, ~saveFailed, NEW d \in Devices
                 PROVE  shown'[d] = 0 \/ shown'[d] >= shown[d]
      OBVIOUS
    <2>1. shown[d] \in Nat
      BY DEF Sequel, Base, Typed
    <2>2. CASE Deliver /\ shown'[d] # shown[d]
      BY <2>2, OldestArrives DEF Sequel, Forward
    <2>3. CASE shown'[d] \in {0, shown[d]}
      BY <2>1, <2>3
    <2> QED BY <2>2, <2>3, ReadingsMove DEF Sequel
  <1> QED BY <1>1, SequelHolds, PTL DEF Spec, StateNeverGoesBack

-----------------------------------------------------------------------------
(* The publisher's books and the broker's records.                         *)

\* The newest message on its way is the one the publisher waits for.
LastSent ==
  job.sent /\ outbox # <<>> =>
    outbox[Len(outbox)] = [stage |-> job.stage, dev |-> job.dev, topic |-> job.topic,
                           reading |-> job.reading]

\* No connection is the zeroth: what was never announced is announced on none.
Live == connected => generation > 0

\* What the publication under way has still to send.
JobTopics ==
  /\ job.stage = "announce" => job.left \subseteq TopicsOf[profile[job.reading]]
  /\ job.stage = "clean" => job.left \subseteq cleanup[job.dev]
  /\ job.stage = "state" => job.left = {"state"}
  /\ job.sent => job.topic \in job.left

\* Nothing that is announced is cleared, or is to be cleared.
CleansOthers ==
  \A d \in Devices : announced[d].gen # 0 =>
    /\ cleanup[d] \cap TopicsOf[announced[d].profile] = {}
    /\ announced[d].gen <= generation /\ announced[d].profile \in Profiles
    /\ \A i \in DOMAIN outbox : outbox[i].stage = "clean" /\ outbox[i].dev = d
         => outbox[i].topic \notin TopicsOf[announced[d].profile]

\* The part of an announcement that is done, the broker has; and nothing but
\* announcements is on its way after it.
Done == TopicsOf[profile[job.reading]] \ job.left
AnnouncedSoFar ==
  job.stage = "announce" /\ connected /\ job.gen = generation =>
    /\ Done \subseteq retained[job.dev]
    /\ Done # {} => \A i \in DOMAIN outbox : outbox[i].stage = "announce"
    /\ Delivered => job.topic \in retained[job.dev]

ClearedSoFar ==
  job.stage = "clean" /\ Delivered => job.topic \notin retained[job.dev]

\* Who changes the books, the work, the connection and the records.
LEMMA RecordsMove ==
  ASSUME Base, Next
  PROVE  /\ \/ books' = books
            \/ Announced \/ ClearSent
            \/ ForgetTakesTurn /\ topics' = topics /\ cleanup' = cleanup
            \/ Restart
         /\ \/ job' = job
            \/ Send \/ ConfigSent \/ Announced \/ ClearSent \/ ClearFails
            \/ PublishTakesTurn \/ RestoreNext
            \/ (StateSent \/ PublicationFails \/ Restart) /\ job' = NoJob
         /\ \/ connected' = connected /\ generation' = generation
            \/ Connect \/ Disconnect \/ Birth \/ Restart
         /\ retained' = retained \/ Disconnect \/ Deliver
         /\ \/ profile' = profile
            \/ \E d \in Devices, p \in Profiles : Publish(d, p)
  BY DEF Next, data, books, link, tasks, broker, history, Connect, Disconnect, Birth, Send,
     ConfigSent, Announced, ClearSent, StateSent, ClearFails, PublicationFails, Publish,
     AwaitConnection, NoConnection, PublishTakesTurn, RestoreWakes, RestoreTakesTurn,
     RestoreNext, RestoreDone, RestoreAgain, Forget, ForgetTakesTurn, Save, SaveFails, Restart,
     Deliver, Remember

\* A publication begins where there is none, for a reading there was.
LEMMA WorkIsTaken ==
  ASSUME Base, PublishTakesTurn \/ RestoreNext
  PROVE  \E d \in Devices, n \in 1..Latest :
           /\ job' = Job(d, n) /\ job.stage = "none"
           /\ UNCHANGED <<connected, generation, profile, books, outbox, retained, shown, missed,
                          snapshots>>
           /\ \/ PublishTakesTurn /\ d = dev["worker"] /\ n = Latest
              \/ RestoreNext /\ n = snapshots[d] /\ <<d, n>> \in todo /\ todo' = todo \ {<<d, n>>}
  <1> USE DEF data, books, link, tasks, broker, history
  <1>0. Typed /\ TakesTurns /\ JobHeld /\ Latest \in Nat
    BY DEF Base, Typed, Latest
  <1>1. CASE PublishTakesTurn
    <2>1. dev["worker"] \in Devices /\ Latest \in 1..Latest
      BY <1>1 DEF PublishTakesTurn, Base, Typed, TakesTurns, Numbered, Latest
    <2>2. job.stage = "none"
      BY <1>0, <1>1 DEF PublishTakesTurn, LockFree, JobHeld, Tasks
    <2> QED BY <1>1, <2>1, <2>2 DEF PublishTakesTurn
  <1>2. CASE RestoreNext
    <2>1. PICK item \in todo : job' = Job(item[1], item[2]) /\ todo' = todo \ {item}
      BY <1>2 DEF RestoreNext
    <2>2. item = <<item[1], item[2]>> /\ item[1] \in Devices /\ item[2] \in Nat \ {0}
          /\ item[2] = snapshots[item[1]]
      BY <1>0, <1>2, <2>1 DEF Typed, JobHeld, RestoreNext
    <2>3. item[2] \in 1..Latest
      BY <1>0, <2>2 DEF Base, Numbered, UpTo
    <2>4. job.stage = "none"
      BY <1>2, NoJobTyped DEF RestoreNext
    <2> QED BY <1>2, <2>1, <2>2, <2>3, <2>4 DEF RestoreNext
  <1> QED BY <1>1, <1>2

\* Whenever the work changes, nothing of what follows is sent yet.
LEMMA NextWorkIsUnsent ==
  ASSUME Base, \/ ConfigSent \/ Announced \/ ClearSent \/ ClearFails
               \/ PublishTakesTurn \/ RestoreNext
  PROVE  ~job'.sent /\ job' # job
  <1>0. job \in Work /\ Typed /\ JobHeld
    BY DEF Base, Typed
  <1>1. CASE ConfigSent
    BY <1>0, <1>1 DEF ConfigSent, Delivered, Work
  <1>2. CASE Announced
    <2>1. PICK pending \in SUBSET Topics : job' = Cleaning(job, pending)
      BY <1>2, AnnouncedIsTyped
    <2>2. ~job'.sent
      BY <1>0, <2>1, AfterTheAnnouncement
    <2> QED BY <1>2, <2>2 DEF Announced, Delivered
  <1>3. CASE ClearSent
    <2>1. Remaining \in SUBSET Topics
      BY <1>0, <1>3 DEF ClearSent, Remaining, JobHeld
    <2>2. ~job'.sent
      BY <1>0, <1>3, <2>1, AfterTheAnnouncement DEF ClearSent
    <2> QED BY <1>3, <2>2 DEF ClearSent, Delivered
  <1>4. CASE ClearFails
    BY <1>0, <1>4, AfterTheAnnouncement DEF ClearFails
  <1>5. CASE PublishTakesTurn \/ RestoreNext
    <2>1. PICK d \in Devices, n \in 1..Latest : job' = Job(d, n) /\ job.stage = "none"
      BY <1>5, WorkIsTaken
    <2>2. ~Job(d, n).sent /\ Job(d, n).stage # "none"
      BY <1>0, WorkBegins, WorkHasTopics
    <2> QED BY <2>1, <2>2
  <1> QED BY <1>1, <1>2, <1>3, <1>4, <1>5

\* While a publication goes on as it was, so do the books and its reading.
LEMMA WorkGoesOn ==
  ASSUME Base, Next, job' = job, job.stage # "none"
  PROVE  books' = books /\ profile'[job.reading] = profile[job.reading]
  <1>1. profile'[job.reading] = profile[job.reading]
    <2>1. CASE profile' = profile
      BY <2>1
    <2>2. CASE \E d \in Devices, p \in Profiles : Publish(d, p)
      <3>1. PICK p \in Profiles : profile' = Append(profile, p)
        BY <2>2 DEF Publish
      <3>2. job.reading \in 1..Len(profile) /\ profile \in Seq(Profiles)
        BY DEF Base, JobHeld, Typed, Latest
      <3> QED BY <3>1, <3>2
    <2> QED BY <2>1, <2>2, RecordsMove
  <1>2. ~ForgetTakesTurn
    BY DEF ForgetTakesTurn, LockFree, Base, JobHeld, Tasks
  <1>3. ~Restart
    BY NoJobTyped DEF Restart
  <1> QED BY <1>1, <1>2, <1>3, NextWorkIsUnsent, RecordsMove

LEMMA LastSentStep ==
  ASSUME Base, LastSent, Next
  PROVE  LastSent'
  <1> SUFFICES ASSUME job'.sent, outbox' # <<>>
               PROVE  outbox'[Len(outbox')] = [stage |-> job'.stage, dev |-> job'.dev,
                                               topic |-> job'.topic, reading |-> job'.reading]
    BY DEF LastSent
  <1>0. job \in Work /\ outbox \in Seq(Message)
    BY DEF Base, Typed
  <1>1. CASE Send
    <2>1. Len(outbox') = Len(outbox) + 1
          /\ outbox'[Len(outbox) + 1] = [stage |-> job.stage, dev |-> job.dev,
                                         topic |-> job'.topic, reading |-> job.reading]
      BY <1>1, NewestJoins
    <2>2. job'.stage = job.stage /\ job'.dev = job.dev /\ job'.reading = job.reading
      BY <1>1, SendIsTyped
    <2> QED BY <2>1, <2>2
  <1>2. CASE job' = job /\ ~Send
    <2>1. CASE outbox' = outbox
      BY <1>2, <2>1 DEF LastSent
    <2>2. CASE Deliver
      <3>1. /\ Len(outbox') = Len(outbox) - 1 /\ outbox # <<>>
            /\ \A i \in DOMAIN outbox' : outbox'[i] = outbox[i + 1]
        BY <2>2, OldestLeaves DEF Deliver
      <3>2. outbox' \in Seq(Message)
        BY <2>2, DeliverIsTyped
      <3>3. Len(outbox') \in DOMAIN outbox'
        BY <3>2
      <3>4. outbox'[Len(outbox')] = outbox[Len(outbox)]
        <4>1. Len(outbox') + 1 = Len(outbox)
          BY <3>1, <1>0
        <4> QED BY <3>1, <3>3, <4>1
      <3> QED BY <1>2, <3>1, <3>4 DEF LastSent
    <2>3. CASE outbox' = <<>>
      BY <2>3
    <2> QED BY <1>2, <2>1, <2>2, <2>3, ReadingsMove
  <1>3. job' = job \/ Send
    <2>1. job' # NoJob
      BY NoJobTyped
    <2> QED BY <2>1, NextWorkIsUnsent, RecordsMove
  <1> QED BY <1>1, <1>2, <1>3

LEMMA JobTopicsStep ==
  ASSUME Base, JobTopics, Next
  PROVE  JobTopics'
  <1>0. job \in Work /\ cleanup \in [Devices -> SUBSET Topics] /\ Typed /\ JobHeld
    BY DEF Base, Typed
  <1>1. CASE job' = job
    <2>1. CASE job.stage = "none"
      BY <1>0, <1>1, <2>1, NoJobTyped DEF JobTopics, JobHeld
    <2>2. CASE job.stage # "none"
      <3>1. profile'[job.reading] = profile[job.reading] /\ cleanup' = cleanup
        BY <1>1, <2>2, WorkGoesOn DEF books
      <3> QED BY <1>1, <3>1 DEF JobTopics
    <2> QED BY <2>1, <2>2
  <1>2. CASE Send
    <2>1. profile' = profile /\ cleanup' = cleanup
      BY <1>2 DEF Send, data, history
    <2>2. /\ job'.stage = job.stage /\ job'.dev = job.dev /\ job'.reading = job.reading
          /\ job'.left = job.left /\ job'.topic \in job.left
      BY <1>2, SendIsTyped
    <2> QED BY <2>1, <2>2 DEF JobTopics
  <1>3. CASE ConfigSent
    <2>1. profile' = profile /\ cleanup' = cleanup /\ job.stage = "announce"
      BY <1>3 DEF ConfigSent, data, history
    <2>2. /\ job'.stage = job.stage /\ job'.dev = job.dev /\ job'.reading = job.reading
          /\ job'.left \subseteq job.left /\ ~job'.sent
      BY <1>0, <1>3 DEF ConfigSent, Work, Remaining
    <2> QED BY <2>1, <2>2 DEF JobTopics
  <1>4. CASE Announced
    <2>1. PICK pending \in SUBSET Topics :
            cleanup' = [cleanup EXCEPT ![job.dev] = pending] /\ job' = Cleaning(job, pending)
      BY <1>4, AnnouncedIsTyped
    <2>2. cleanup'[job.dev] = pending
      BY <1>0, <1>4, <2>1, AnnouncedIsTyped
    <2> QED BY <1>0, <2>1, <2>2, AfterTheAnnouncement DEF JobTopics
  <1>5. CASE ClearSent
    <2>1. /\ job.stage = "clean" /\ job.dev \in Devices /\ job' = Cleaning(job, Remaining)
          /\ cleanup' = [cleanup EXCEPT ![job.dev] = @ \ {job.topic}]
      BY <1>0, <1>5 DEF ClearSent, JobHeld
    <2>2. Remaining \in SUBSET Topics /\ Remaining \subseteq cleanup'[job.dev]
      BY <1>0, <2>1 DEF Remaining, JobHeld, JobTopics
    <2> QED BY <1>0, <2>1, <2>2, AfterTheAnnouncement DEF JobTopics
  <1>6. CASE ClearFails
    <2>1. job' = Cleaning(job, {})
      BY <1>6 DEF ClearFails
    <2> QED BY <1>0, <2>1, AfterTheAnnouncement DEF JobTopics
  <1>7. CASE PublishTakesTurn \/ RestoreNext
    <2>1. PICK d \in Devices, n \in 1..Latest :
            job' = Job(d, n) /\ UNCHANGED <<generation, profile, books>>
      BY <1>7, WorkIsTaken
    <2>2. cleanup' = cleanup
      BY <2>1 DEF books
    <2>3. /\ ~job'.sent /\ job'.dev = d /\ job'.reading = n
          /\ \/ job'.stage = "announce" /\ job'.left = TopicsOf[profile[n]]
             \/ job'.stage = "clean" /\ job'.left = cleanup[d]
             \/ job'.stage = "state" /\ job'.left = {"state"}
      BY <1>0, <2>1, WorkBegins
    <2> QED BY <2>1, <2>2, <2>3 DEF JobTopics
  <1>8. CASE job' = NoJob
    BY <1>8, NoJobTyped DEF JobTopics
  <1> QED BY <1>1, <1>2, <1>3, <1>4, <1>5, <1>6, <1>7, <1>8, RecordsMove

\* What the broker's records become with the oldest message.
LEMMA RecordArrives ==
  ASSUME Base, Deliver, NEW d \in Devices
  PROVE  /\ 1 \in DOMAIN outbox
         /\ outbox[1].stage = "announce" => retained[d] \subseteq retained'[d]
         /\ outbox[1].stage = "announce" /\ outbox[1].dev = d => outbox[1].topic \in retained'[d]
         /\ outbox[1].stage = "clean" /\ outbox[1].dev = d =>
              retained'[d] = retained[d] \ {outbox[1].topic}
         /\ outbox[1].stage = "clean" /\ outbox[1].dev # d => retained'[d] = retained[d]
         /\ outbox[1].stage = "state" => retained'[d] = retained[d]
  <1> DEFINE m == Head(outbox)
  <1>1. m = outbox[1] /\ 1 \in DOMAIN outbox
    BY OldestLeaves
  <1>2. m.stage \in Stages /\ m.dev \in Devices
    BY DeliverIsTyped DEF Message
  <1>3. retained' = CASE m.stage = "announce" -> [retained EXCEPT ![m.dev] = @ \cup {m.topic}]
                      [] m.stage = "clean" -> [retained EXCEPT ![m.dev] = @ \ {m.topic}]
                      [] m.stage = "state" -> retained
    BY DEF Deliver
  <1>4. retained \in [Devices -> SUBSET (Topics \cup {"state"})]
    BY DEF Base, Typed
  <1> HIDE DEF m
  <1>5. CASE m.stage = "announce"
    <2>1. retained' = [retained EXCEPT ![m.dev] = @ \cup {m.topic}]
      BY <1>3, <1>5
    <2> QED BY <1>1, <1>2, <1>4, <1>5, <2>1
  <1>6. CASE m.stage = "clean"
    <2>1. retained' = [retained EXCEPT ![m.dev] = @ \ {m.topic}]
      BY <1>3, <1>6
    <2> QED BY <1>1, <1>2, <1>4, <1>6, <2>1
  <1>7. CASE m.stage = "state"
    <2>1. retained' = retained
      BY <1>3, <1>7
    <2> QED BY <1>1, <1>4, <1>7, <2>1
  <1> QED BY <1>2, <1>5, <1>6, <1>7 DEF Stages

LEMMA LiveStep ==
  ASSUME Base, Live, Next
  PROVE  Live'
  <1>0. generation \in Nat
    BY DEF Base, Typed
  <1>1. CASE Connect
    BY <1>0, <1>1 DEF Connect, Live
  <1>2. CASE Disconnect \/ Restart
    BY <1>2 DEF Disconnect, Restart, Live
  <1>3. CASE Birth
    <2>1. connected' = connected /\ generation' >= generation
      BY <1>0, <1>3 DEF Birth
    <2>2. generation' \in Nat
      BY <1>0, <1>3 DEF Birth
    <2> QED BY <1>0, <2>1, <2>2 DEF Live
  <1>4. CASE connected' = connected /\ generation' = generation
    BY <1>4 DEF Live
  <1> QED BY <1>1, <1>2, <1>3, <1>4, RecordsMove

\* The connection grows older, but for a new process.
LEMMA GenerationGrows ==
  ASSUME Base, Next, ~Restart
  PROVE  generation \in Nat /\ generation' \in Nat /\ generation' >= generation
  <1>0. generation \in Nat
    BY DEF Base, Typed
  <1>1. CASE Connect \/ Disconnect \/ Birth
    BY <1>0, <1>1 DEF Connect, Disconnect, Birth
  <1>2. CASE generation' = generation
    BY <1>0, <1>2
  <1> QED BY <1>1, <1>2, RecordsMove

\* A clearing that joins the messages on their way is one of the books'.
LEMMA ClearingsOnTheWay ==
  ASSUME Base, JobTopics, Next, NEW i \in DOMAIN outbox', outbox'[i].stage = "clean"
  PROVE  \/ \E j \in DOMAIN outbox : outbox'[i] = outbox[j]
         \/ /\ Send /\ outbox'[i].dev = job.dev /\ job.dev \in Devices
            /\ outbox'[i].topic \in cleanup[job.dev]
  <1>1. CASE outbox' = outbox
    BY <1>1
  <1>2. CASE Deliver
    BY <1>2, OldestLeaves
  <1>3. CASE Send
    <2>1. CASE i \in DOMAIN outbox
      BY <1>3, <2>1, NewestJoins
    <2>2. CASE i \notin DOMAIN outbox
      <3>1. i = Len(outbox) + 1
        BY <1>3, <2>2, NewestJoins
      <3>2. outbox'[i].stage = job.stage /\ outbox'[i].dev = job.dev
            /\ outbox'[i].topic = job'.topic
        BY <1>3, <3>1, NewestJoins
      <3>3. job'.topic \in job.left /\ job.stage = "clean"
        BY <1>3, <3>2, SendIsTyped
      <3> QED BY <1>3, <3>2, <3>3 DEF JobTopics, Base, JobHeld
    <2> QED BY <2>1, <2>2
  <1>4. CASE outbox' = <<>>
    BY <1>4
  <1> QED BY <1>1, <1>2, <1>3, <1>4, ReadingsMove

LEMMA CleansOthersStep ==
  ASSUME Base, JobTopics, CleansOthers, Next
  PROVE  CleansOthers'
  <1> SUFFICES ASSUME NEW d \in Devices, announced'[d].gen # 0
               PROVE  /\ cleanup'[d] \cap TopicsOf[announced'[d].profile] = {}
                      /\ announced'[d].gen <= generation' /\ announced'[d].profile \in Profiles
                      /\ \A i \in DOMAIN outbox' : outbox'[i].stage = "clean" /\ outbox'[i].dev = d
                           => outbox'[i].topic \notin TopicsOf[announced'[d].profile]
    BY DEF CleansOthers
  <1>0. /\ announced \in [Devices -> Announcement] /\ cleanup \in [Devices -> SUBSET Topics]
        /\ generation \in Nat
    BY DEF Base, Typed
  <1>1. ~Restart
    BY NoJobTyped DEF Restart
  <1>2. generation' \in Nat /\ generation' >= generation
    BY <1>1, GenerationGrows
  <1>3. CASE Announced /\ d = job.dev
    <2> DEFINE p == profile[job.reading]
    <2>1. announced' = [announced EXCEPT ![d] = [gen |-> job.gen, profile |-> p]]
          /\ p \in Profiles
      BY <1>3, AnnouncedIsTyped
    <2>2. PICK pending \in SUBSET Topics :
            pending = (cleanup[d] \cup topics[d] \cup Lineage[p]) \ TopicsOf[p]
            /\ cleanup' = [cleanup EXCEPT ![d] = pending]
      BY <1>3, AnnouncedIsTyped
    <2> HIDE DEF p
    <2>3. announced'[d].gen = job.gen /\ announced'[d].profile = p /\ cleanup'[d] = pending
      BY <1>0, <2>1, <2>2
    <2>4. outbox' = <<>> /\ generation' = generation /\ job.gen <= generation
      BY <1>3 DEF Announced, Delivered, link, Base, JobHeld
    <2> QED BY <2>1, <2>2, <2>3, <2>4
  <1>4. CASE ~(Announced /\ d = job.dev)
    <2>1. announced'[d] = announced[d] /\ cleanup'[d] \subseteq cleanup[d]
      <3>1. CASE books' = books
        BY <3>1 DEF books
      <3>2. CASE Announced
        <4>1. PICK pending \in SUBSET Topics : cleanup' = [cleanup EXCEPT ![job.dev] = pending]
          BY <3>2, AnnouncedIsTyped
        <4>2. announced' = [announced EXCEPT ![job.dev] = Fingerprint]
          BY <3>2 DEF Announced
        <4> QED BY <1>0, <1>4, <3>2, <4>1, <4>2
      <3>3. CASE ClearSent
        BY <1>0, <3>3 DEF ClearSent
      <3>4. CASE ForgetTakesTurn /\ topics' = topics /\ cleanup' = cleanup
        <4>1. announced' = [announced EXCEPT ![dev["forget"]] = Never]
          BY <3>4 DEF ForgetTakesTurn
        <4>2. d # dev["forget"]
          BY <1>0, <4>1, NoJobTyped
        <4> QED BY <1>0, <3>4, <4>1, <4>2
      <3> QED BY <1>1, <3>1, <3>2, <3>3, <3>4, RecordsMove
    <2>2. /\ cleanup[d] \cap TopicsOf[announced[d].profile] = {}
          /\ announced[d].gen <= generation /\ announced[d].profile \in Profiles
          /\ \A i \in DOMAIN outbox : outbox[i].stage = "clean" /\ outbox[i].dev = d
               => outbox[i].topic \notin TopicsOf[announced[d].profile]
      BY <2>1 DEF CleansOthers
    <2>3. announced'[d].gen <= generation'
      <3>1. announced[d].gen \in Nat
        BY <1>0 DEF Announcement
      <3> QED BY <1>0, <1>2, <2>1, <2>2, <3>1
    <2>4. ASSUME NEW i \in DOMAIN outbox', outbox'[i].stage = "clean", outbox'[i].dev = d
          PROVE  outbox'[i].topic \notin TopicsOf[announced[d].profile]
      BY <2>2, <2>4, ClearingsOnTheWay
    <2> QED BY <2>1, <2>2, <2>3, <2>4
  <1> QED BY <1>3, <1>4

\* When the publisher's message is the last one the broker takes.
LEMMA LastIsTaken ==
  ASSUME Base, LastSent, Deliver, job.sent, outbox' = <<>>
  PROVE  outbox[1].stage = job.stage /\ outbox[1].dev = job.dev /\ outbox[1].topic = job.topic
         /\ outbox[1].reading = job.reading
  <1>1. Len(outbox) \in Nat /\ Len(outbox') = 0
    BY DEF Base, Typed
  <1>2. Len(outbox) = 1
    BY <1>1, OldestLeaves
  <1>3. outbox # <<>>
    BY DEF Deliver
  <1> QED BY <1>2, <1>3 DEF LastSent

LEMMA SendLeavesMore ==
  ASSUME Base, Send
  PROVE  outbox' # <<>>
  <1>1. Len(outbox') = Len(outbox) + 1 /\ Len(outbox) \in Nat
    BY NewestJoins DEF Base, Typed
  <1>2. outbox' # <<>>
    BY <1>1
  <1> QED BY <1>2

LEMMA AnnouncedSoFarStep ==
  ASSUME Base, LastSent, JobTopics, AnnouncedSoFar, Next
  PROVE  AnnouncedSoFar'
  <1> SUFFICES ASSUME job'.stage = "announce", connected', job'.gen = generation'
               PROVE  /\ Done' \subseteq retained'[job'.dev]
                      /\ Done' # {} => \A i \in DOMAIN outbox' : outbox'[i].stage = "announce"
                      /\ Delivered' => job'.topic \in retained'[job'.dev]
    BY DEF AnnouncedSoFar
  <1>0. job \in Work /\ Typed /\ JobHeld
    BY DEF Base, Typed
  <1>1. CASE job' = job /\ ~Send
    <2>1. job.dev \in Devices /\ job.gen <= generation /\ generation \in Nat /\ job.gen \in Nat
      BY <1>0, <1>1 DEF JobHeld, Typed, Work
    <2>2. ~Restart
      BY <1>1, NoJobTyped DEF Restart
    <2>3. ~Connect /\ ~Disconnect /\ ~Birth
      <3>1. ~Connect
        BY <1>1, <2>1 DEF Connect
      <3>2. ~Disconnect
        BY DEF Disconnect
      <3>3. ~Birth
        <4> SUFFICES ASSUME Birth PROVE FALSE
          OBVIOUS
        <4>1. connected
          BY DEF Birth
        <4>2. generation' = generation + 1
          BY <4>1 DEF Birth
        <4> QED BY <1>1, <2>1, <4>2
      <3> QED BY <3>1, <3>2, <3>3
    <2>4. connected /\ job.gen = generation
      BY <1>1, <2>2, <2>3, RecordsMove
    <2>5. /\ Done \subseteq retained[job.dev]
          /\ Done # {} => \A i \in DOMAIN outbox : outbox[i].stage = "announce"
          /\ Delivered => job.topic \in retained[job.dev]
      BY <1>1, <2>4 DEF AnnouncedSoFar
    <2>6. Done' = Done
      BY <1>1, WorkGoesOn DEF Done
    <2>7. CASE Deliver
      <3>1. Done' \subseteq retained'[job.dev]
        BY <2>1, <2>5, <2>6, <2>7, RecordArrives
      <3>2. Done' # {} => \A i \in DOMAIN outbox' : outbox'[i].stage = "announce"
        BY <2>5, <2>6, <2>7, OldestLeaves
      <3>3. ASSUME Delivered' PROVE job.topic \in retained'[job.dev]
        <4>1. job.sent /\ outbox' = <<>>
          BY <1>1, <3>3 DEF Delivered
        <4> QED BY <1>1, <2>1, <2>7, <4>1, LastIsTaken, RecordArrives
      <3> QED BY <1>1, <3>1, <3>2, <3>3
    <2>8. CASE ~Deliver
      <3>1. outbox' = outbox /\ retained' = retained
        BY <1>1, <2>2, <2>3, <2>8, ReadingsMove, RecordsMove
      <3> QED BY <1>1, <2>5, <2>6, <3>1 DEF Delivered
    <2> QED BY <2>7, <2>8
  <1>2. CASE Send
    <2>1. /\ job'.stage = job.stage /\ job'.dev = job.dev /\ job'.reading = job.reading
          /\ job'.gen = job.gen /\ job'.left = job.left
      BY <1>2, SendIsTyped
    <2>2. UNCHANGED <<connected, generation, profile, retained>>
      BY <1>2 DEF Send, link, history, broker
    <2>3. /\ Done \subseteq retained[job.dev]
          /\ Done # {} => \A i \in DOMAIN outbox : outbox[i].stage = "announce"
      BY <2>1, <2>2 DEF AnnouncedSoFar
    <2>4. Done' = Done
      BY <2>1, <2>2 DEF Done
    <2>5. ASSUME Done' # {}, NEW i \in DOMAIN outbox' PROVE outbox'[i].stage = "announce"
      <3>1. CASE i \in DOMAIN outbox
        BY <1>2, <2>3, <2>4, <2>5, <3>1, NewestJoins
      <3>2. CASE i = Len(outbox) + 1
        <4>1. outbox'[Len(outbox) + 1].stage = job.stage
          BY <1>2, NewestJoins
        <4> QED BY <2>1, <3>2, <4>1
      <3>3. DOMAIN outbox' = (DOMAIN outbox) \cup {Len(outbox) + 1}
        BY <1>2, NewestJoins
      <3> QED BY <2>5, <3>1, <3>2, <3>3
    <2>6. ~Delivered'
      BY <1>2, SendLeavesMore DEF Delivered
    <2> QED BY <2>1, <2>2, <2>3, <2>4, <2>5, <2>6
  <1>3. CASE ConfigSent
    <2>1. job.sent /\ outbox = <<>> /\ outbox' = <<>>
      BY <1>3 DEF ConfigSent, Delivered
    <2>2. /\ job'.stage = job.stage /\ job'.dev = job.dev /\ job'.reading = job.reading
          /\ job'.gen = job.gen /\ job'.left = job.left \ {job.topic} /\ ~job'.sent
      BY <1>0, <1>3 DEF ConfigSent, Work, Remaining
    <2>3. UNCHANGED <<connected, generation, profile, retained>>
      BY <1>3 DEF ConfigSent, link, history, broker
    <2>4. /\ Done \subseteq retained[job.dev]
          /\ job.topic \in retained[job.dev]
      BY <2>1, <2>2, <2>3 DEF AnnouncedSoFar, Delivered
    <2>5. Done' \subseteq Done \cup {job.topic}
      BY <2>2, <2>3 DEF Done
    <2> QED BY <2>1, <2>2, <2>3, <2>4, <2>5 DEF Delivered
  <1>4. CASE Announced
    <2>1. PICK pending \in SUBSET Topics : job' = Cleaning(job, pending)
      BY <1>4, AnnouncedIsTyped
    <2> QED BY <1>0, <2>1, AfterTheAnnouncement
  <1>5. CASE ClearSent
    <2>1. Remaining \in SUBSET Topics /\ job' = Cleaning(job, Remaining)
      BY <1>0, <1>5 DEF ClearSent, Remaining, JobHeld
    <2> QED BY <1>0, <2>1, AfterTheAnnouncement
  <1>6. CASE ClearFails
    BY <1>0, <1>6, AfterTheAnnouncement DEF ClearFails
  <1>7. CASE PublishTakesTurn \/ RestoreNext
    <2>1. PICK d \in Devices, n \in 1..Latest : job' = Job(d, n) /\ profile' = profile
      BY <1>7, WorkIsTaken
    <2>2. job'.reading = n /\ ~job'.sent /\ job'.left = TopicsOf[profile[n]]
      BY <1>0, <2>1, WorkBegins
    <2>3. Done' = {}
      BY <2>1, <2>2 DEF Done
    <2> QED BY <2>2, <2>3 DEF Delivered
  <1>8. CASE job' = NoJob
    BY <1>8, NoJobTyped
  <1> QED BY <1>1, <1>2, <1>3, <1>4, <1>5, <1>6, <1>7, <1>8, RecordsMove

LEMMA ClearedSoFarStep ==
  ASSUME Base, LastSent, ClearedSoFar, Next
  PROVE  ClearedSoFar'
  <1> SUFFICES ASSUME job'.stage = "clean", job'.sent, outbox' = <<>>
               PROVE  job'.topic \notin retained'[job'.dev]
    BY DEF ClearedSoFar, Delivered
  <1>1. ~Send
    BY SendLeavesMore
  <1>2. job' = job
    BY <1>1, NextWorkIsUnsent, NoJobTyped, RecordsMove
  <1>3. job.dev \in Devices
    BY <1>2 DEF Base, JobHeld
  <1>4. CASE Deliver
    <2>1. outbox[1].stage = "clean" /\ outbox[1].dev = job.dev /\ outbox[1].topic = job.topic
      BY <1>2, <1>4, LastIsTaken
    <2>2. retained'[job.dev] = retained[job.dev] \ {job.topic}
      BY <1>3, <1>4, <2>1, RecordArrives
    <2> QED BY <1>2, <2>2
  <1>5. CASE ~Deliver
    <2>1. ~Restart
      BY <1>2, NoJobTyped DEF Restart
    <2>2. outbox = <<>>
      BY <1>1, <1>5, <2>1, ReadingsMove
    <2>3. job.topic \notin retained[job.dev]
      BY <1>2, <2>2 DEF ClearedSoFar, Delivered
    <2>4. CASE retained' = retained
      BY <1>2, <2>3, <2>4
    <2>5. CASE Disconnect
      BY <1>2, <1>3, <2>3, <2>5 DEF Disconnect
    <2> QED BY <1>5, <2>4, <2>5, RecordsMove
  <1> QED BY <1>4, <1>5

LEMMA AnnouncedIsRetainedStep ==
  ASSUME Base, Live, JobTopics, CleansOthers, AnnouncedSoFar, AnnouncedIsRetained, Next
  PROVE  AnnouncedIsRetained'
  <1> SUFFICES ASSUME NEW d \in Devices, connected', announced'[d].gen = generation'
               PROVE  TopicsOf[announced'[d].profile] \subseteq retained'[d]
    BY DEF AnnouncedIsRetained
  <1>0. announced \in [Devices -> Announcement] /\ generation \in Nat /\ generation' \in Nat
        /\ announced' \in [Devices -> Announcement]
    BY TypedStep DEF Base, Typed
  <1>1. generation' > 0
    BY <1>0, LiveStep DEF Live
  <1>2. ~Restart /\ ~Disconnect
    BY DEF Restart, Disconnect
  <1>3. CASE Announced /\ d = job.dev
    <2>1. /\ announced' = [announced EXCEPT ![d] = [gen |-> job.gen, profile |-> profile[job.reading]]]
          /\ UNCHANGED <<connected, generation, retained>>
          /\ job.stage = "announce" /\ job.sent /\ Delivered /\ Remaining = {}
      BY <1>3, AnnouncedIsTyped DEF Announced, link, broker, Delivered
    <2>2. announced'[d].gen = job.gen /\ announced'[d].profile = profile[job.reading]
      BY <1>0, <2>1
    <2>3. /\ Done \subseteq retained[d] /\ job.topic \in retained[d]
      BY <1>3, <2>1, <2>2 DEF AnnouncedSoFar
    <2>4. TopicsOf[profile[job.reading]] \subseteq Done \cup {job.topic}
      BY <2>1 DEF Done, Remaining
    <2> QED BY <2>1, <2>2, <2>3, <2>4
  <1>4. CASE ~(Announced /\ d = job.dev)
    <2>1. announced'[d] = announced[d]
      <3>1. CASE books' = books
        BY <3>1 DEF books
      <3>2. CASE Announced
        <4>1. announced' = [announced EXCEPT ![job.dev] = Fingerprint]
          BY <3>2 DEF Announced
        <4> QED BY <1>0, <1>4, <3>2, <4>1
      <3>3. CASE ClearSent
        BY <3>3 DEF ClearSent
      <3>4. CASE ForgetTakesTurn
        <4>1. announced' = [announced EXCEPT ![dev["forget"]] = Never]
          BY <3>4 DEF ForgetTakesTurn
        <4>2. d # dev["forget"]
          BY <1>0, <1>1, <4>1, NoJobTyped
        <4> QED BY <1>0, <4>1, <4>2
      <3> QED BY <1>2, <3>1, <3>2, <3>3, <3>4, RecordsMove
    <2>2. announced[d].gen \in Nat /\ announced[d].gen <= generation
      <3>1. announced[d].gen \in Nat
        BY <1>0 DEF Announcement
      <3>2. announced[d].gen # 0
        BY <1>1, <2>1
      <3> QED BY <3>1, <3>2 DEF CleansOthers
    <2>3. ~Connect /\ ~Birth
      <3>1. ~Connect
        BY <1>0, <2>1, <2>2 DEF Connect
      <3>2. ~Birth
        <4> SUFFICES ASSUME Birth PROVE FALSE
          OBVIOUS
        <4>1. connected
          BY DEF Birth
        <4>2. generation' = generation + 1
          BY <4>1 DEF Birth
        <4> QED BY <1>0, <2>1, <2>2, <4>2
      <3> QED BY <3>1, <3>2
    <2>4. connected /\ announced[d].gen = generation
      BY <1>2, <2>1, <2>3, RecordsMove
    <2>5. TopicsOf[announced[d].profile] \subseteq retained[d]
      BY <2>4 DEF AnnouncedIsRetained
    <2>6. CASE Deliver
      <3>1. 1 \in DOMAIN outbox /\ outbox[1] \in Message
        BY <2>6, OldestLeaves, DeliverIsTyped
      <3>2. outbox[1].stage = "clean" /\ outbox[1].dev = d
              => outbox[1].topic \notin TopicsOf[announced[d].profile]
        BY <1>1, <2>1, <3>1 DEF CleansOthers
      <3>3. outbox[1].stage \in {"announce", "clean", "state"}
        BY <3>1 DEF Message, Stages
      <3> QED BY <2>1, <2>5, <2>6, <3>2, <3>3, RecordArrives
    <2>7. CASE retained' = retained
      BY <2>1, <2>5, <2>7
    <2> QED BY <1>2, <2>6, <2>7, RecordsMove
  <1> QED BY <1>3, <1>4

Records ==
  /\ LastSent /\ Live /\ JobTopics /\ CleansOthers
  /\ AnnouncedSoFar /\ ClearedSoFar /\ AnnouncedIsRetained

LEMMA RecordsHold == Spec => [](Base /\ Records)
  <1>1. Init => Records
    <2> SUFFICES ASSUME Init PROVE Records
      OBVIOUS
    <2>1. job.stage = "none" /\ ~job.sent /\ outbox = <<>> /\ ~connected
      BY NoJobTyped DEF Init
    <2>2. \A d \in Devices : announced[d].gen = 0
      BY NoJobTyped DEF Init
    <2> QED BY <2>1, <2>2 DEF Records, LastSent, Live, JobTopics, CleansOthers, AnnouncedSoFar,
                              ClearedSoFar, AnnouncedIsRetained
  <1>2. Base /\ Records /\ [Next]_vars => Records'
    <2> SUFFICES ASSUME Base, Records, [Next]_vars PROVE Records'
      OBVIOUS
    <2>1. CASE Next
      BY <2>1, LastSentStep, LiveStep, JobTopicsStep, CleansOthersStep, AnnouncedSoFarStep,
         ClearedSoFarStep, AnnouncedIsRetainedStep DEF Records
    <2>2. CASE UNCHANGED vars
      BY <2>2 DEF Records, LastSent, Live, JobTopics, CleansOthers, AnnouncedSoFar, Done,
                  Delivered, ClearedSoFar, AnnouncedIsRetained, vars, link, books, broker, history
    <2> QED BY <2>1, <2>2
  <1> QED BY <1>1, <1>2, BaseHolds, PTL DEF Spec

\* What the publisher takes for announced on this connection, the broker has
\* (publisher.py notes the connection an announcement began on).
THEOREM AnnouncedRecordsExist == Spec => []AnnouncedIsRetained
  <1>1. Records => AnnouncedIsRetained
    BY DEF Records
  <1> QED BY <1>1, RecordsHold, PTL

\* A discovery record leaves the books only when the broker no longer has it,
\* or with the whole process (_publish_snapshot: cleanup is retried until sent).
THEOREM ClearingsAreRetried == Spec => NoRecordForgotten
  <1>1. Base /\ Records /\ [Next]_vars
          => [(pc' # [t \in Tasks |-> "idle"]) =>
                \A d \in Devices :
                  ((topics[d] \cup cleanup[d]) \ (topics'[d] \cup cleanup'[d]))
                    \cap retained'[d] = {}]_vars
    <2> SUFFICES ASSUME Base, Records, Next, pc' # [t \in Tasks |-> "idle"],
                        NEW d \in Devices
                 PROVE  ((topics[d] \cup cleanup[d]) \ (topics'[d] \cup cleanup'[d]))
                          \cap retained'[d] = {}
      OBVIOUS
    <2>0. topics \in [Devices -> SUBSET Topics] /\ cleanup \in [Devices -> SUBSET Topics]
      BY DEF Base, Typed
    <2>1. CASE books' = books
      BY <2>1 DEF books
    <2>2. CASE Announced
      <3> DEFINE p == profile[job.reading]
      <3>0. topics' = [topics EXCEPT ![job.dev] = TopicsOf[p]]
        BY <2>2, AnnouncedIsTyped
      <3>1. PICK pending \in SUBSET Topics :
              /\ pending = (cleanup[job.dev] \cup topics[job.dev] \cup Lineage[p]) \ TopicsOf[p]
              /\ cleanup' = [cleanup EXCEPT ![job.dev] = pending]
        BY <2>2, AnnouncedIsTyped
      <3> HIDE DEF p
      <3> QED BY <2>0, <3>0, <3>1
    <2>3. CASE ClearSent
      <3>1. job.topic \notin retained[job.dev]
        BY <2>3 DEF ClearSent, Records, ClearedSoFar
      <3>2. /\ cleanup' = [cleanup EXCEPT ![job.dev] = @ \ {job.topic}]
            /\ topics' = topics /\ retained' = retained
        BY <2>3 DEF ClearSent, broker
      <3> QED BY <2>0, <3>1, <3>2
    <2>4. CASE topics' = topics /\ cleanup' = cleanup
      BY <2>4
    <2>5. ~Restart
      BY DEF Restart
    <2> QED BY <2>1, <2>2, <2>3, <2>4, <2>5, RecordsMove
  <1> QED BY <1>1, RecordsHold, PTL DEF Spec, NoRecordForgotten

-----------------------------------------------------------------------------
(* What is left to do when nothing is shown yet.                           *)

\* The stages after the announcement rest on one.
Certified ==
  job.stage \in {"clean", "state"} =>
    announced[job.dev] = [gen |-> job.gen, profile |-> profile[job.reading]]

\* What is shown is not overtaken by anything else on its way.
ShownStays ==
  \A d \in Known : shown[d] = snapshots[d] => OnTheWay(d) \subseteq {snapshots[d]}

\* Where the snapshot of an inverter is that Home Assistant does not show: the
\* restore loop will take it, or has it; the worker has it; it is being
\* published; its state is on its way, announced on this connection.
ToRestore(d) ==
  \/ ~connected \/ restore \/ pc["restore"] \in {"turn", "pause"}
  \/ pc["restore"] = "publishing" /\ <<d, snapshots[d]>> \in todo
WithWorker(d) == dev["worker"] = d /\ pc["worker"] \in {"saving", "connect", "turn2"}
InWork(d) ==
  /\ job.stage # "none" /\ job.dev = d /\ job.gen = generation /\ job.reading = snapshots[d]
  /\ ~(job.stage = "state" /\ job.sent)
Underway(d) == snapshots[d] \in OnTheWay(d) /\ Current(d, snapshots[d])

Coming(d) ==
  \/ ToRestore(d) \/ WithWorker(d) \/ InWork(d) \/ Underway(d)
  \/ shown[d] = snapshots[d]

NothingLeftOut == \A d \in Known \ missed : Coming(d)

LEMMA CertifiedStep ==
  ASSUME Base, Certified, Next
  PROVE  Certified'
  <1> SUFFICES ASSUME job'.stage \in {"clean", "state"}
               PROVE  announced'[job'.dev] = [gen |-> job'.gen, profile |-> profile'[job'.reading]]
    BY DEF Certified
  <1>0. job \in Work /\ Typed /\ JobHeld /\ announced \in [Devices -> Announcement]
    BY DEF Base, Typed
  <1>1. CASE job' = job
    BY <1>1, WorkGoesOn DEF Certified, books
  <1>2. CASE Send
    <2>1. announced' = announced /\ profile' = profile
      BY <1>2 DEF Send, data, history
    <2> QED BY <1>2, <2>1, SendIsTyped DEF Certified
  <1>3. CASE ConfigSent
    BY <1>0, <1>3 DEF ConfigSent, Work
  <1>4. CASE Announced
    <2>1. PICK pending \in SUBSET Topics : job' = Cleaning(job, pending)
      BY <1>4, AnnouncedIsTyped
    <2>2. job'.dev = job.dev /\ job'.reading = job.reading /\ job'.gen = job.gen
      BY <1>0, <2>1, AfterTheAnnouncement
    <2>3. /\ announced' = [announced EXCEPT ![job.dev] =
                             [gen |-> job.gen, profile |-> profile[job.reading]]]
          /\ profile' = profile /\ job.dev \in Devices
      BY <1>4, AnnouncedIsTyped DEF Announced, history
    <2> QED BY <1>0, <2>2, <2>3
  <1>5. CASE ClearSent \/ ClearFails
    <2>1. \E pending \in SUBSET Topics : job' = Cleaning(job, pending)
      BY <1>0, <1>5 DEF ClearSent, ClearFails, Remaining, JobHeld
    <2>2. job'.dev = job.dev /\ job'.reading = job.reading /\ job'.gen = job.gen
      BY <1>0, <2>1, AfterTheAnnouncement
    <2>3. announced' = announced /\ profile' = profile /\ job.stage = "clean"
      BY <1>5 DEF ClearSent, ClearFails, history, data
    <2> QED BY <2>2, <2>3 DEF Certified
  <1>6. CASE PublishTakesTurn \/ RestoreNext
    <2>1. PICK d \in Devices, n \in 1..Latest :
            job' = Job(d, n) /\ UNCHANGED <<generation, profile, books>>
      BY <1>6, WorkIsTaken
    <2>2. job'.dev = d /\ job'.reading = n /\ job'.gen = generation /\ Current(d, n)
      BY <1>0, <2>1, WorkBegins
    <2> QED BY <2>1, <2>2 DEF Current, books
  <1>7. CASE job' = NoJob
    BY <1>7, NoJobTyped
  <1> QED BY <1>1, <1>2, <1>3, <1>4, <1>5, <1>6, <1>7, RecordsMove

LEMMA ShownStaysStep ==
  ASSUME Sequel, ShownStays, Next
  PROVE  ShownStays'
  <1> SUFFICES ASSUME NEW d \in Devices, snapshots'[d] # 0, shown'[d] = snapshots'[d],
                      NEW r \in OnTheWay(d)'
               PROVE  r = snapshots'[d]
    BY DEF ShownStays, Known
  <1> USE DEF Sequel
  <1>0. /\ snapshots \in [Devices -> Nat] /\ shown \in [Devices -> Nat] /\ Latest \in Nat
        /\ dev \in [Tasks -> Devices \cup {"none"}]
    BY DEF Base, Typed, Latest
  <1>1. CASE Deliver /\ shown'[d] # shown[d]
    <2>1. r >= shown'[d]
      BY <1>1, OldestArrives
    <2>2. snapshots' = snapshots /\ r \in OnTheWay(d)
      BY <1>1, StatesMove DEF Deliver, data, Send, broker
    <2>3. r <= snapshots[d] /\ r \in Nat
      BY <2>2, ReadingsAreNumbers DEF UpToDate, Known
    <2> QED BY <1>0, <2>1, <2>2, <2>3
  <1>2. CASE shown'[d] = shown[d]
    <2>1. CASE snapshots'[d] = snapshots[d]
      <3>1. CASE r \in OnTheWay(d)
        BY <1>2, <2>1, <3>1 DEF ShownStays, Known
      <3>2. CASE Send /\ job.dev = d /\ r = job.reading
        <4>1. CASE pc["worker"] = "publishing" /\ d = dev["worker"] /\ r = Latest
          <5>1. snapshots[d] \in {0, Latest}
            BY <4>1 DEF WorkerKnows, Busy
          <5> QED BY <2>1, <4>1, <5>1
        <4>2. CASE r = snapshots[d]
          BY <2>1, <4>2
        <4>3. \/ pc["worker"] = "publishing" /\ d = dev["worker"] /\ r = Latest
              \/ r = snapshots[d]
          BY <3>2, StateIsSent
        <4> QED BY <4>1, <4>2, <4>3
      <3> QED BY <3>1, <3>2, StatesMove
    <2>2. CASE snapshots'[d] # snapshots[d]
      <3>1. CASE Remember
        <4>1. snapshots'[d] = Latest /\ pc["worker"] = "turn"
          BY <1>0, <2>2, <3>1 DEF Remember
        <4>2. shown[d] <= Latest - 1
          BY <4>1 DEF Base, Numbered, UpTo
        <4>3. shown[d] = Latest
          BY <1>2, <4>1
        <4>4. \A n \in Nat : ~(n <= n - 1)
          OBVIOUS
        <4> QED BY <1>0, <4>2, <4>3, <4>4
      <3>2. CASE Restart
        BY <3>2 DEF Restart, OnTheWay, States
      <3>3. CASE snapshots' = [snapshots EXCEPT ![dev["forget"]] = 0]
        BY <1>0, <2>2, <3>3
      <3> QED BY <2>2, <3>1, <3>2, <3>3, ReadingsMove
    <2> QED BY <2>1, <2>2
  <1>3. CASE shown'[d] = 0
    BY <1>3
  <1> QED BY <1>1, <1>2, <1>3, ReadingsMove

\* The inverters whose publication failed are the same but for a failure, and
\* for the arrival of what was missed.
LEMMA MissedMoves ==
  ASSUME Next
  PROVE  \/ missed' = missed \/ Restart
         \/ PublicationFails \/ Deliver
  BY DEF Next, data, books, link, tasks, broker, history, Connect, Disconnect, Birth, Send,
     ConfigSent, Announced, ClearSent, StateSent, ClearFails, Publish,
     AwaitConnection, NoConnection, PublishTakesTurn, RestoreWakes, RestoreTakesTurn,
     RestoreNext, RestoreDone, RestoreAgain, Forget, ForgetTakesTurn, Save, SaveFails, Remember

\* Reading n of the past keeps its profile.
LEMMA ProfilesStay ==
  ASSUME Base, Next, NEW n \in 1..Latest
  PROVE  profile'[n] = profile[n]
  <1>1. CASE profile' = profile
    BY <1>1
  <1>2. CASE \E d \in Devices, p \in Profiles : Publish(d, p)
    <2>1. PICK p \in Profiles : profile' = Append(profile, p)
      BY <1>2 DEF Publish
    <2>2. n \in 1..Len(profile) /\ profile \in Seq(Profiles)
      BY DEF Base, Typed, Latest
    <2> QED BY <2>1, <2>2
  <1> QED BY <1>1, <1>2, RecordsMove

\* A state on its way stays there until the broker takes it.
LEMMA StatesStay ==
  ASSUME Base, Next, ~Restart, NEW d \in Devices, NEW r \in OnTheWay(d)
  PROVE  \/ r \in OnTheWay(d)'
         \/ /\ Deliver /\ 1 \in DOMAIN outbox /\ outbox[1].stage = "state" /\ outbox[1].dev = d
            /\ outbox[1].reading = r
  <1>1. PICK i \in DOMAIN outbox :
          outbox[i].stage = "state" /\ outbox[i].dev = d /\ r = outbox[i].reading
    BY DEF OnTheWay, States
  <1>2. CASE outbox' = outbox
    BY <1>2 DEF OnTheWay, States
  <1>3. CASE Deliver
    <2>1. CASE i = 1
      BY <1>1, <1>3, <2>1
    <2>2. CASE i # 1
      <3>1. outbox \in Seq(Message) /\ outbox' \in Seq(Message) /\ Len(outbox') = Len(outbox) - 1
        BY <1>3, OldestLeaves, DeliverIsTyped DEF Base, Typed
      <3>2. i - 1 \in DOMAIN outbox' /\ (i - 1) + 1 = i
        BY <1>1, <2>2, <3>1
      <3>3. outbox'[i - 1] = outbox[i]
        BY <1>3, <3>2, OldestLeaves
      <3> QED BY <1>1, <3>2, <3>3 DEF OnTheWay, States
    <2> QED BY <2>1, <2>2
  <1>4. CASE Send
    <2>1. i \in DOMAIN outbox' /\ outbox'[i] = outbox[i]
      BY <1>1, <1>4, NewestJoins
    <2> QED BY <1>1, <2>1 DEF OnTheWay, States
  <1> QED BY <1>2, <1>3, <1>4, ReadingsMove

\* A state that arrives is shown, as its records are there.
LEMMA StateArrives ==
  ASSUME Base, Deliver, NEW d \in Devices, outbox[1].stage = "state", outbox[1].dev = d,
         TopicsOf[profile[outbox[1].reading]] \subseteq retained[d]
  PROVE  shown'[d] = outbox[1].reading
  <1> DEFINE m == Head(outbox)
  <1>1. m = outbox[1]
    BY OldestLeaves
  <1>2. shown' = IF m.stage = "state" /\ TopicsOf[profile[m.reading]] \subseteq retained[m.dev]
                 THEN [shown EXCEPT ![m.dev] = m.reading] ELSE shown
    BY DEF Deliver
  <1> HIDE DEF m
  <1>3. shown' = [shown EXCEPT ![d] = outbox[1].reading]
    BY <1>1, <1>2
  <1> QED BY <1>3 DEF Base, Typed

\* The restore loop's places follow one another.
LEMMA RestoresWay ==
  ASSUME Base, Next
  PROVE  \/ pc'["restore"] = pc["restore"] /\ todo' = todo /\ (restore => restore')
         \/ RestoreNext /\ pc'["restore"] = pc["restore"] /\ restore' = restore
         \/ pc'["restore"] = "turn"
         \/ RestoreTakesTurn /\ pc'["restore"] = "publishing" /\ restore' = restore
         \/ pc["restore"] = "publishing" /\ todo = {} /\ restore' = restore
         \/ RestoreAgain /\ restore'
         \/ PublicationFails /\ pc'["restore"] = "pause"
         \/ Restart
  <1> USE DEF data, books, link, tasks, broker, history
  <1>0. Typed /\ TakesTurns
    BY DEF Base
  <1>1. CASE UNCHANGED <<pc, todo, restore>>
    BY <1>1
  <1>2. CASE Connect \/ Birth
    BY <1>2 DEF Connect, Birth
  <1>3. CASE StateSent \/ PublicationFails
    <2>1. job.stage # "none" /\ todo' = todo /\ restore' = restore
      BY <1>3 DEF StateSent, PublicationFails
    <2>2. CASE Publishing = "worker"
      BY <1>0, <1>3, <2>1, <2>2, GoesThere, ThePublisher
      DEF StateSent, PublicationFails, Tasks, Places
    <2>3. CASE Publishing # "worker"
      BY <1>0, <1>3, <2>1, <2>3, GoesThere, ThePublisher
      DEF StateSent, PublicationFails, Tasks, Places
    <2> QED BY <2>2, <2>3
  <1>4. CASE (\E d \in Devices, p \in Profiles : Publish(d, p)) \/ \E d \in Devices : Forget(d)
    BY <1>0, <1>4, BeginsThere DEF Publish, Forget, Tasks
  <1>5. CASE Remember \/ AwaitConnection \/ NoConnection \/ PublishTakesTurn \/ ForgetTakesTurn
    BY <1>0, <1>5, GoesThere DEF Remember, AwaitConnection, NoConnection, PublishTakesTurn,
                                 ForgetTakesTurn, Tasks, Places
  <1>6. CASE RestoreWakes \/ RestoreTakesTurn \/ RestoreDone \/ RestoreAgain
    BY <1>0, <1>6, GoesThere DEF RestoreWakes, RestoreTakesTurn, RestoreDone, RestoreAgain,
                                 Tasks, Places
  <1>7. CASE RestoreNext
    BY <1>7 DEF RestoreNext
  <1>8. CASE \E t \in {"worker", "forget"} : Save(t) \/ SaveFails(t)
    <2>1. PICK t \in {"worker", "forget"} : Save(t) \/ SaveFails(t)
      BY <1>8
    <2>2. Goes(t, IF t = "worker" THEN "connect" ELSE "idle") /\ UNCHANGED <<todo, restore>>
      BY <2>1 DEF Save, SaveFails, AfterSave
    <2> QED BY <1>0, <2>1, <2>2, GoesThere DEF Tasks, Places
  <1>9. CASE Restart
    BY <1>9
  <1>10. UNCHANGED <<pc, todo, restore>> \/ ~(\/ Disconnect \/ Deliver
           \/ Send \/ ConfigSent \/ Announced \/ ClearSent \/ ClearFails)
    BY DEF Disconnect, Deliver, Send, ConfigSent, Announced, ClearSent, ClearFails
  <1> QED BY <1>1, <1>2, <1>3, <1>4, <1>5, <1>6, <1>7, <1>8, <1>9, <1>10 DEF Next

\* The worker is done with a reading without a connection, after publishing it,
\* or with the process.
LEMMA WorkerRests ==
  ASSUME Base, Next, pc'["worker"] = "idle", pc["worker"] # "idle"
  PROVE  NoConnection \/ Restart \/ pc["worker"] = "publishing"
  <1> USE DEF data, books, link, tasks, broker, history
  <1>0. Typed /\ TakesTurns
    BY DEF Base
  <1>1. CASE UNCHANGED pc
    BY <1>1
  <1>2. CASE StateSent \/ PublicationFails
    <2>1. job.stage # "none"
      BY <1>2 DEF StateSent, PublicationFails
    <2>2. CASE Publishing = "worker"
      BY <2>1, <2>2, ThePublisher
    <2>3. CASE Publishing # "worker"
      BY <1>0, <1>2, <2>1, <2>3, GoesThere, ThePublisher
      DEF StateSent, PublicationFails, Tasks, Places
    <2> QED BY <2>2, <2>3
  <1>3. CASE (\E d \in Devices, p \in Profiles : Publish(d, p)) \/ \E d \in Devices : Forget(d)
    BY <1>0, <1>3, BeginsThere DEF Publish, Forget, Tasks
  <1>4. CASE Remember \/ AwaitConnection \/ PublishTakesTurn \/ ForgetTakesTurn
    BY <1>0, <1>4, GoesThere DEF Remember, AwaitConnection, PublishTakesTurn,
                                 ForgetTakesTurn, Tasks, Places
  <1>5. CASE RestoreWakes \/ RestoreTakesTurn \/ RestoreDone \/ RestoreAgain
    BY <1>0, <1>5, GoesThere DEF RestoreWakes, RestoreTakesTurn, RestoreDone, RestoreAgain,
                                 Tasks, Places
  <1>6. CASE \E t \in {"worker", "forget"} : Save(t) \/ SaveFails(t)
    <2>1. PICK t \in {"worker", "forget"} : Save(t) \/ SaveFails(t)
      BY <1>6
    <2>2. Goes(t, IF t = "worker" THEN "connect" ELSE "idle")
      BY <2>1 DEF Save, SaveFails, AfterSave
    <2> QED BY <1>0, <2>1, <2>2, GoesThere DEF Tasks, Places
  <1>7. UNCHANGED pc \/ ~(\/ Connect \/ Disconnect \/ Birth \/ Deliver \/ RestoreNext
           \/ Send \/ ConfigSent \/ Announced \/ ClearSent \/ ClearFails)
    BY DEF Connect, Disconnect, Birth, Deliver, Send, ConfigSent, Announced, ClearSent,
           ClearFails, RestoreNext
  <1> QED BY <1>1, <1>2, <1>3, <1>4, <1>5, <1>6, <1>7 DEF Next

\* Between its first message and its state a publication keeps its reading.
LEMMA WorkIsKept ==
  ASSUME Base, ConfigSent \/ Announced \/ ClearSent \/ ClearFails
  PROVE  /\ job'.dev = job.dev /\ job'.reading = job.reading /\ job'.gen = job.gen
         /\ job'.stage # "none" /\ ~job'.sent
  <1>0. job \in Work /\ Typed /\ JobHeld
    BY DEF Base, Typed
  <1>1. CASE ConfigSent
    BY <1>0, <1>1 DEF ConfigSent, Work
  <1>2. CASE Announced \/ ClearSent \/ ClearFails
    <2>1. \E pending \in SUBSET Topics : job' = Cleaning(job, pending)
      <3>1. CASE Announced
        BY <3>1, AnnouncedIsTyped
      <3>2. CASE ClearSent
        BY <3>2, <1>0 DEF ClearSent, Remaining, JobHeld
      <3>3. CASE ClearFails
        BY <3>3 DEF ClearFails
      <3> QED BY <1>2, <3>1, <3>2, <3>3
    <2> QED BY <1>0, <2>1, AfterTheAnnouncement
  <1> QED BY <1>1, <1>2

LEMMA ComingStep ==
  ASSUME Sequel, Records, Certified, ShownStays, NothingLeftOut, Next,
         NEW d \in Devices, snapshots'[d] # 0, d \notin missed'
  PROVE  Coming(d)'
  <1> USE DEF Sequel
  <1> SUFFICES ASSUME connected', shown'[d] # snapshots'[d], ~restore'
               PROVE  Coming(d)'
    BY DEF Coming, ToRestore
  <1>0. /\ snapshots \in [Devices -> Nat] /\ shown \in [Devices -> Nat] /\ Latest \in Nat
        /\ announced \in [Devices -> Announcement] /\ dev \in [Tasks -> Devices \cup {"none"}]
        /\ job \in Work /\ Typed
    BY DEF Base, Typed, Latest
  <1>1. ~Restart /\ ~Connect /\ ~Disconnect /\ ~Birth
    <2>1. ~Restart /\ ~Connect /\ ~Disconnect
      BY DEF Restart, Connect, Disconnect
    <2>2. ~Birth
      BY DEF Birth
    <2> QED BY <2>1, <2>2
  <1>2. connected /\ generation' = generation
    BY <1>1, RecordsMove
  <1>3. CASE snapshots'[d] # snapshots[d]
    <2>1. Remember /\ d = dev["worker"]
      <3>1. snapshots' # [snapshots EXCEPT ![dev["forget"]] = 0]
        BY <1>0, <1>3
      <3>2. Remember
        BY <1>1, <1>3, <3>1, ReadingsMove
      <3> QED BY <1>0, <1>3, <3>2 DEF Remember
    <2>2. pc'["worker"] = "saving" /\ dev' = dev
      BY <1>0, <2>1, GoesThere DEF Remember, Tasks, Places
    <2> QED BY <2>1, <2>2 DEF Coming, WithWorker
  <1>4. CASE snapshots'[d] = snapshots[d]
    <2>0. snapshots[d] # 0 /\ d \in Known /\ snapshots[d] \in 1..Latest
      BY <1>0, <1>4 DEF Known, Base, Numbered, UpTo
    <2>1. d \notin missed
      <3>1. CASE Deliver
        BY <3>1 DEF Deliver, data
      <3>2. CASE PublicationFails
        BY <3>2 DEF PublicationFails
      <3> QED BY <1>1, <3>1, <3>2, MissedMoves
    <2>2. Coming(d)
      BY <2>0, <2>1 DEF NothingLeftOut
    <2>3. announced'[d] = announced[d] \/ (Announced /\ job.dev = d)
      <3>1. CASE ForgetTakesTurn
        <4>1. /\ announced' = [announced EXCEPT ![dev["forget"]] = Never]
              /\ snapshots' = [snapshots EXCEPT ![dev["forget"]] = 0]
          BY <3>1 DEF ForgetTakesTurn
        <4>2. d # dev["forget"]
          BY <1>0, <4>1
        <4> QED BY <1>0, <4>1, <4>2
      <3>2. CASE Announced
        BY <1>0, <3>2 DEF Announced
      <3>3. CASE ClearSent
        BY <3>3 DEF ClearSent
      <3>4. CASE books' = books
        BY <3>4 DEF books
      <3> QED BY <1>1, <3>1, <3>2, <3>3, <3>4, RecordsMove
    <2>4. profile'[snapshots[d]] = profile[snapshots[d]]
      BY <2>0, ProfilesStay
    <2>5. CASE shown[d] = snapshots[d]
      <3>1. Deliver /\ shown'[d] # shown[d]
        BY <1>1, <1>4, <2>5, ReadingsMove
      <3>2. shown'[d] \in OnTheWay(d)
        BY <3>1, OldestArrives
      <3> QED BY <1>4, <2>0, <2>5, <3>2 DEF ShownStays
    <2>6. CASE Underway(d)
      <3>1. snapshots[d] \in OnTheWay(d) /\ Current(d, snapshots[d])
        BY <2>6 DEF Underway
      <3>2. announced'[d] = announced[d]
        <4>1. ASSUME Announced PROVE FALSE
          <5>1. outbox = <<>>
            BY <4>1 DEF Announced, Delivered
          <5> QED BY <3>1, <5>1 DEF OnTheWay, States
        <4> QED BY <2>3, <4>1
      <3>3. Current(d, snapshots[d])'
        BY <1>2, <1>4, <2>4, <3>1, <3>2 DEF Current
      <3>4. CASE snapshots[d] \in OnTheWay(d)'
        BY <1>4, <3>3, <3>4 DEF Coming, Underway, Current
      <3>5. CASE /\ Deliver /\ 1 \in DOMAIN outbox /\ outbox[1].stage = "state"
                 /\ outbox[1].dev = d /\ outbox[1].reading = snapshots[d]
        <4>1. announced[d].gen = generation /\ announced[d].profile = profile[snapshots[d]]
          BY <3>1 DEF Current
        <4>2. TopicsOf[profile[snapshots[d]]] \subseteq retained[d]
          BY <1>2, <4>1 DEF Records, AnnouncedIsRetained
        <4> QED BY <1>4, <3>5, <4>2, StateArrives
      <3> QED BY <1>1, <3>1, <3>4, <3>5, StatesStay
    <2>7. CASE InWork(d)
      <3>0. /\ job.stage # "none" /\ job.dev = d /\ job.gen = generation
            /\ job.reading = snapshots[d] /\ ~(job.stage = "state" /\ job.sent)
        BY <2>7 DEF InWork
      <3>1. CASE job' = job
        BY <1>2, <1>4, <3>0, <3>1 DEF Coming, InWork
      <3>2. CASE Send
        <4>1. /\ job'.stage = job.stage /\ job'.dev = job.dev /\ job'.reading = job.reading
              /\ job'.gen = job.gen
          BY <3>2, SendIsTyped
        <4>2. CASE job.stage # "state"
          BY <1>2, <1>4, <3>0, <4>1, <4>2 DEF Coming, InWork
        <4>3. CASE job.stage = "state"
          <5>1. Len(outbox) + 1 \in DOMAIN outbox'
            BY <3>2, NewestJoins
          <5>2. /\ outbox'[Len(outbox) + 1].stage = "state"
                /\ outbox'[Len(outbox) + 1].dev = d
                /\ outbox'[Len(outbox) + 1].reading = snapshots[d]
            BY <3>0, <3>2, <4>3, NewestJoins
          <5>3. snapshots[d] \in OnTheWay(d)'
            BY <5>1, <5>2 DEF OnTheWay, States
          <5>4. announced' = announced /\ profile' = profile
            BY <3>2 DEF Send, data, history
          <5>5. announced'[d] = [gen |-> generation, profile |-> profile[snapshots[d]]]
            BY <3>0, <4>3, <5>4 DEF Certified
          <5> QED BY <1>2, <1>4, <5>3, <5>4, <5>5 DEF Coming, Underway, Current
        <4> QED BY <4>2, <4>3
      <3>3. CASE ConfigSent \/ Announced \/ ClearSent \/ ClearFails
        BY <1>2, <1>4, <3>0, <3>3, WorkIsKept DEF Coming, InWork
      <3>4. ~(PublishTakesTurn \/ RestoreNext)
        BY <3>0, WorkIsTaken
      <3>5. ~StateSent
        BY <3>0 DEF StateSent, Delivered
      <3>6. CASE PublicationFails
        <4>1. CASE Publishing = "worker"
          BY <1>2, <3>0, <3>6, <4>1 DEF PublicationFails
        <4>2. CASE Publishing # "worker"
          <5>1. pc'["restore"] = "pause"
            BY <1>0, <3>6, <4>2, GoesThere DEF PublicationFails, Tasks, Places
          <5> QED BY <5>1 DEF Coming, ToRestore
        <4> QED BY <4>1, <4>2
      <3> QED BY <1>1, <3>1, <3>2, <3>3, <3>4, <3>5, <3>6, RecordsMove
    <2>8. CASE WithWorker(d)
      <3>0. dev["worker"] = d /\ pc["worker"] \in {"saving", "connect", "turn2"}
        BY <2>8 DEF WithWorker
      <3>1. pc'["worker"] # "idle"
        BY <1>1, <1>2, <3>0, WorkerRests DEF NoConnection
      <3>2. dev'["worker"] = d
        BY <3>0, <3>1, WorkersWay
      <3>3. CASE pc'["worker"] \in {"saving", "connect", "turn2"}
        BY <3>2, <3>3 DEF Coming, WithWorker
      <3>4. CASE PublishTakesTurn
        <4>1. job' = Job(d, Latest) /\ Latest \in 1..Latest
          BY <1>0, <2>0, <3>0, <3>4 DEF PublishTakesTurn
        <4>2. /\ ~job'.sent /\ job'.dev = d /\ job'.reading = Latest /\ job'.gen = generation
              /\ job'.stage # "none"
          BY <1>0, <4>1, WorkBegins, WorkHasTopics
        <4>3. snapshots[d] = Latest
          BY <2>0, <3>0 DEF WorkerKnows, Busy
        <4> QED BY <1>2, <1>4, <4>2, <4>3 DEF Coming, InWork
      <3> QED BY <3>0, <3>1, <3>3, <3>4, WorkersWay
    <2>9. CASE ToRestore(d)
      <3>1. CASE pc["restore"] \in {"turn", "pause"}
        <4>1. CASE pc'["restore"] \in {"turn", "pause"}
          BY <4>1 DEF Coming, ToRestore
        <4>2. CASE RestoreTakesTurn /\ pc'["restore"] = "publishing"
          <5>1. <<d, snapshots[d]>> \in todo'
            BY <2>0, <4>2 DEF RestoreTakesTurn
          <5> QED BY <1>4, <4>2, <5>1 DEF Coming, ToRestore
        <4> QED BY <1>1, <3>1, <4>1, <4>2, RestoresWay
      <3>2. CASE restore
        <4>1. pc'["restore"] \in {"turn", "pause"}
          BY <1>1, <3>2, RestoresWay
        <4> QED BY <4>1 DEF Coming, ToRestore
      <3>3. CASE pc["restore"] = "publishing" /\ <<d, snapshots[d]>> \in todo
        <4>1. CASE pc'["restore"] = pc["restore"] /\ todo' = todo
          BY <1>4, <3>3, <4>1 DEF Coming, ToRestore
        <4>2. CASE RestoreNext /\ pc'["restore"] = pc["restore"]
          <5>1. PICK e \in Devices, n \in 1..Latest :
                  job' = Job(e, n) /\ n = snapshots[e] /\ todo' = todo \ {<<e, n>>}
            BY <4>2, WorkIsTaken DEF RestoreNext, PublishTakesTurn, LockFree, Tasks
          <5>2. CASE e = d
            <6>1. /\ ~job'.sent /\ job'.dev = d /\ job'.reading = snapshots[d]
                  /\ job'.gen = generation /\ job'.stage # "none"
              BY <1>0, <5>1, <5>2, WorkBegins, WorkHasTopics
            <6> QED BY <1>2, <1>4, <6>1 DEF Coming, InWork
          <5>3. CASE e # d
            <6>1. <<d, snapshots[d]>> \in todo'
              BY <3>3, <5>1, <5>3
            <6> QED BY <1>4, <3>3, <4>2, <6>1 DEF Coming, ToRestore
          <5> QED BY <5>2, <5>3
        <4>3. CASE pc'["restore"] \in {"turn", "pause"}
          BY <4>3 DEF Coming, ToRestore
        <4>4. ~RestoreTakesTurn
          BY <3>3 DEF RestoreTakesTurn
        <4> QED BY <1>1, <3>3, <4>1, <4>2, <4>3, <4>4, RestoresWay
      <3> QED BY <1>2, <2>9, <3>1, <3>2, <3>3 DEF ToRestore
    <2> QED BY <2>2, <2>5, <2>6, <2>7, <2>8, <2>9 DEF Coming
  <1> QED BY <1>3, <1>4

\* When nothing is left to do Home Assistant shows every saved reading, except
\* where a delivery failed although the connection held (publisher.py: the
\* restore loop runs again after each failure, connection and birth).
THEOREM QuietIsComplete == Spec => []QuietMeansShown
  <1> DEFINE Kept == Certified /\ ShownStays /\ NothingLeftOut
  <1>1. Init => Kept
    <2> SUFFICES ASSUME Init PROVE Kept
      OBVIOUS
    <2>1. job.stage = "none" /\ Known = {}
      BY NoJobTyped DEF Init, Known
    <2> QED BY <2>1 DEF Certified, ShownStays, NothingLeftOut
  <1>2. Sequel /\ Records /\ Kept /\ [Next]_vars => Kept'
    <2> SUFFICES ASSUME Sequel, Records, Kept, [Next]_vars PROVE Kept'
      OBVIOUS
    <2>1. CASE Next
      <3>1. Certified' /\ ShownStays'
        BY <2>1, CertifiedStep, ShownStaysStep DEF Sequel
      <3>2. ASSUME NEW d \in Devices, snapshots'[d] # 0, d \notin missed' PROVE Coming(d)'
        BY <2>1, <3>2, ComingStep
      <3> QED BY <3>1, <3>2 DEF NothingLeftOut, Known
    <2>2. CASE UNCHANGED vars
      BY <2>2 DEF Certified, ShownStays, NothingLeftOut, Coming, ToRestore, WithWorker, InWork,
                  Underway, Current, OnTheWay, States, Known, vars, link, books, tasks, broker,
                  history
    <2> QED BY <2>1, <2>2
  <1>3. Sequel /\ Kept => QuietMeansShown
    <2> SUFFICES ASSUME Sequel, Kept, Quiet, NEW d \in Known \ missed
                 PROVE  shown[d] = snapshots[d]
      BY DEF QuietMeansShown
    <2>1. Coming(d)
      BY DEF NothingLeftOut
    <2>2. ~ToRestore(d) /\ ~WithWorker(d)
      BY DEF ToRestore, WithWorker, Quiet, Tasks
    <2>3. ~InWork(d)
      BY DEF InWork, Quiet, Sequel, Base, JobHeld, Tasks
    <2>4. ~Underway(d)
      BY DEF Underway, OnTheWay, States, Quiet
    <2> QED BY <2>1, <2>2, <2>3, <2>4 DEF Coming
  <1> HIDE DEF Kept
  <1>4. Spec => []Records
    BY RecordsHold, PTL
  <1> QED BY <1>1, <1>2, <1>3, <1>4, SequelHolds, PTL DEF Spec

=============================================================================
