------------------------------- MODULE Publisher -------------------------------
(***************************************************************************)
(* The publisher of readings to Home Assistant over MQTT, and its cache of *)
(* the last readings (publisher.py, recovery.py).                          *)
(*                                                                         *)
(* Three tasks use the publisher and take turns on _publish_lock: the      *)
(* worker that publishes fresh readings one after the other, the restore   *)
(* loop that sends saved readings again after a reconnection or a restart  *)
(* of Home Assistant, and forget, which discards a reading whose profile   *)
(* was changed.  Publishing a snapshot announces the entities of the       *)
(* inverter's profile unless they were announced under this generation of  *)
(* the connection, clears entities of earlier profiles, and sends the      *)
(* state.  Every message is awaited until the broker has it.               *)
(*                                                                         *)
(* The MQTT client keeps undelivered messages in order and delivers them   *)
(* after a reconnection, also when the sender has given up on them.  The   *)
(* broker keeps retained discovery records, or loses them if it restarts.  *)
(***************************************************************************)
EXTENDS Integers, FiniteSets, SequencesExt

CONSTANTS
  Devices,          \* inverters
  Profiles,         \* decoder profiles
  Topics,           \* discovery topics of an inverter
  TopicsOf,         \* the discovery topics of each profile
  Lineage,          \* topics earlier releases may have left for a profile
  MaxDevices,       \* recovery.MAX_DEVICES
  MaxReadings,      \* bound: readings
  MaxTroubles       \* bound: lost connections, restarts of Home Assistant or of this
                    \* process, failed deliveries or saves and profile changes, together

ASSUME PublisherAssumption ==
  /\ TopicsOf \in [Profiles -> (SUBSET Topics) \ {{}}]
  /\ Lineage \in [Profiles -> SUBSET Topics]
  /\ "state" \notin Topics
  /\ MaxDevices \in Nat \ {0}

Tasks == {"worker", "restore", "forget"}

VARIABLES
  connected,     \* _connected
  generation,    \* _generation
  restore,       \* _restore_requested
  snapshots,     \* snapshots: the number of each inverter's last reading, 0 for none
  profile,       \* the profile of each reading there has been
  announced,     \* _announced: generation and reading's profile
  topics,        \* _topics
  cleanup,       \* _pending_cleanup
  disk,          \* the readings in the cache file
  pc,            \* what each task is doing
  dev,           \* the inverter each task is working on
  todo,          \* saved readings the restore loop has still to publish
  job,           \* the snapshot being published
  outbox,        \* messages of the MQTT client the broker does not have yet
  retained,      \* the broker's discovery records
  shown,         \* the reading Home Assistant shows for each inverter
  missed,        \* history: inverters whose last publication failed in mid-connection
  saveFailed,    \* history: whether a save has failed
  troubles       \* how much of MaxTroubles has been used

data == <<snapshots, disk, announced, topics, cleanup>>
books == <<announced, topics, cleanup>>
link == <<connected, generation, restore>>
tasks == <<pc, dev, todo>>
broker == <<retained, shown>>
history == <<profile, missed, saveFailed>>
vars == <<link, snapshots, disk, books, tasks, job, outbox, broker, history, troubles>>

Trouble ==
  /\ troubles < MaxTroubles
  /\ troubles' = troubles + 1

NoJob == [stage |-> "none", dev |-> "none", reading |-> 0, gen |-> 0,
          left |-> {}, topic |-> "state", sent |-> FALSE]
Never == [gen |-> 0, profile |-> CHOOSE p \in Profiles : TRUE]

Init ==
  /\ connected = FALSE /\ generation = 0 /\ restore = FALSE
  /\ snapshots = [d \in Devices |-> 0]
  /\ profile = <<>>
  /\ announced = [d \in Devices |-> Never]
  /\ topics = [d \in Devices |-> {}] /\ cleanup = [d \in Devices |-> {}]
  /\ disk = [d \in Devices |-> 0]
  /\ pc = [t \in Tasks |-> "idle"] /\ dev = [t \in Tasks |-> "none"]
  /\ todo = {} /\ job = NoJob /\ outbox = <<>>
  /\ retained = [d \in Devices |-> {}] /\ shown = [d \in Devices |-> 0]
  /\ missed = {} /\ saveFailed = FALSE
  /\ troubles = 0

-----------------------------------------------------------------------------
(* The connection and Home Assistant.                                      *)

Connect ==
  /\ ~connected
  /\ connected' = TRUE
  /\ generation' = generation + 1
  /\ restore' = TRUE
  /\ UNCHANGED <<data, history, tasks, job, outbox, broker, troubles>>

\* The connection is lost; a broker without persistence has lost its records.
Disconnect ==
  /\ connected
  /\ Trouble
  /\ connected' = FALSE
  /\ \/ UNCHANGED retained
     \/ retained' = [d \in Devices |-> {}]
  /\ UNCHANGED <<generation, restore, data, history, tasks, job, outbox, shown>>

\* Home Assistant starts with no states and says that it is online.
Birth ==
  /\ Trouble
  /\ shown' = [d \in Devices |-> 0]
  /\ generation' = generation + (IF connected THEN 1 ELSE 0)
  /\ restore' = (restore \/ connected)
  /\ UNCHANGED <<connected, data, history, tasks, job, outbox, retained>>

\* The broker takes the oldest message.  Home Assistant shows a state only for
\* entities it has records of.
Deliver ==
  /\ connected /\ outbox # <<>>
  /\ LET msg == Head(outbox) IN
     /\ outbox' = Tail(outbox)
     /\ retained' = CASE msg.stage = "announce" -> [retained EXCEPT ![msg.dev] = @ \cup {msg.topic}]
                      [] msg.stage = "clean" -> [retained EXCEPT ![msg.dev] = @ \ {msg.topic}]
                      [] msg.stage = "state" -> retained
     /\ shown' = IF msg.stage = "state" /\ TopicsOf[profile[msg.reading]] \subseteq retained[msg.dev]
                 THEN [shown EXCEPT ![msg.dev] = msg.reading] ELSE shown
     /\ missed' = {d \in missed : shown'[d] # snapshots[d]}
  /\ UNCHANGED <<link, data, profile, tasks, job, saveFailed, troubles>>

-----------------------------------------------------------------------------
(* Publishing a snapshot: _send and _publish_snapshot.                     *)

Goes(t, place) ==
  /\ pc' = [pc EXCEPT ![t] = place]
  /\ dev' = IF place = "idle" THEN [dev EXCEPT ![t] = "none"] ELSE dev
Begins(t, d) ==
  /\ pc' = [pc EXCEPT ![t] = "turn"]
  /\ dev' = [dev EXCEPT ![t] = d]

LockFree == \A t \in Tasks : pc[t] \notin {"saving", "publishing"}
Publishing == CHOOSE t \in Tasks : pc[t] = "publishing"

\* The stages after the announcement, with the topics still to be cleared.
Cleaning(j, pending) ==
  IF pending = {} THEN [j EXCEPT !.stage = "state", !.left = {"state"}, !.sent = FALSE]
  ELSE [j EXCEPT !.stage = "clean", !.left = pending, !.sent = FALSE]

\* What is left to do for reading n of inverter d when its publication begins.
Job(d, n) ==
  LET j == [NoJob EXCEPT !.dev = d, !.reading = n, !.gen = generation] IN
  IF announced[d] = [gen |-> generation, profile |-> profile[n]] THEN Cleaning(j, cleanup[d])
  ELSE [j EXCEPT !.stage = "announce", !.left = TopicsOf[profile[n]]]

Send ==
  /\ job.stage # "none" /\ ~job.sent
  /\ connected
  /\ \E t \in job.left :
       /\ job' = [job EXCEPT !.topic = t, !.sent = TRUE]
       /\ outbox' = Append(outbox, [stage |-> job.stage, dev |-> job.dev, topic |-> t,
                                    reading |-> job.reading])
  /\ UNCHANGED <<link, data, history, tasks, broker, troubles>>

\* is_published: the broker has the message and, in order, all before it.
Delivered == job.sent /\ outbox = <<>>
Remaining == job.left \ {job.topic}

ConfigSent ==
  /\ job.stage = "announce" /\ Delivered /\ Remaining # {}
  /\ job' = [job EXCEPT !.left = Remaining, !.sent = FALSE]
  /\ UNCHANGED <<link, data, history, tasks, outbox, broker, troubles>>

\* Defect: the generation is read when the announcement is complete.
FingerprintAtEnd == [gen |-> generation, profile |-> profile[job.reading]]

\* The generation an announcement counts for was read before its first message.
Fingerprint == [gen |-> job.gen, profile |-> profile[job.reading]]

\* The last record of the profile is out: note it, and what is to be cleared.
Announced ==
  /\ job.stage = "announce" /\ Delivered /\ Remaining = {}
  /\ LET d == job.dev
         p == profile[job.reading]
         configs == TopicsOf[p]
         pending == (cleanup[d] \cup topics[d] \cup Lineage[p]) \ configs
     IN /\ announced' = [announced EXCEPT ![d] = Fingerprint]
        /\ topics' = [topics EXCEPT ![d] = configs]
        /\ cleanup' = [cleanup EXCEPT ![d] = pending]
        /\ job' = Cleaning(job, pending)
  /\ UNCHANGED <<link, snapshots, disk, history, tasks, outbox, broker, troubles>>

ClearSent ==
  /\ job.stage = "clean" /\ Delivered
  /\ cleanup' = [cleanup EXCEPT ![job.dev] = @ \ {job.topic}]
  /\ job' = Cleaning(job, Remaining)
  /\ UNCHANGED <<link, snapshots, announced, topics, disk, history, tasks, outbox, broker,
                 troubles>>

\* The publication is complete; the restore loop keeps the lock for the next.
StateSent ==
  /\ job.stage = "state" /\ Delivered
  /\ job' = NoJob
  /\ IF Publishing = "worker" THEN Goes("worker", "idle") ELSE UNCHANGED <<pc, dev>>
  /\ UNCHANGED <<link, data, history, todo, outbox, broker, troubles>>

\* A send is refused, or not confirmed before the deadline or a disconnection.
SendFails ==
  /\ job.stage # "none"
  /\ ~Delivered
  /\ \/ ~connected /\ UNCHANGED troubles
     \/ connected /\ Trouble

\* Defect: the records that could not be cleared are dropped.
ClearGivesUp ==
  /\ job.stage = "clean" /\ SendFails
  /\ job' = Cleaning(job, {})
  /\ cleanup' = [cleanup EXCEPT ![job.dev] = {}]
  /\ UNCHANGED <<link, snapshots, announced, topics, disk, tasks, outbox, broker, history>>

\* "Discovery cleanup incomplete; retrying on the next packet".
ClearFails ==
  /\ job.stage = "clean" /\ SendFails
  /\ job' = Cleaning(job, {})
  /\ UNCHANGED <<link, data, history, tasks, outbox, broker>>

\* The worker reports a failed delivery; the restore loop tries again later.
PublicationFails ==
  /\ job.stage \in {"announce", "state"} /\ SendFails
  /\ job' = NoJob
  /\ IF Publishing = "worker"
     THEN Goes("worker", "idle") /\ missed' = IF connected THEN missed \cup {job.dev} ELSE missed
     ELSE Goes("restore", "pause") /\ UNCHANGED missed
  /\ UNCHANGED <<link, data, profile, todo, outbox, broker, saveFailed>>

-----------------------------------------------------------------------------
(* The worker: publish.                                                    *)

\* The worker's reading.
Latest == Len(profile)

\* A reading arrives that is not buffered.
Publish(d, p) ==
  /\ pc["worker"] = "idle"
  /\ Len(profile) < MaxReadings
  /\ profile' = Append(profile, p)
  /\ Begins("worker", d)
  /\ UNCHANGED <<link, data, todo, job, outbox, broker, missed, saveFailed, troubles>>

Known == {d \in Devices : snapshots[d] # 0}

\* Defect: the snapshot is published before it is saved.
RememberUnsaved ==
  /\ pc["worker"] = "turn" /\ LockFree
  /\ LET d == dev["worker"] IN
     snapshots' = IF d \in Known \/ Cardinality(Known) < MaxDevices
                  THEN [snapshots EXCEPT ![d] = Latest] ELSE snapshots
  /\ Goes("worker", "connect")
  /\ UNCHANGED <<link, history, books, disk, todo, job, outbox, broker, troubles>>

\* It becomes the inverter's snapshot, if there is room, and is saved.
Remember ==
  /\ pc["worker"] = "turn" /\ LockFree
  /\ LET d == dev["worker"] IN
     snapshots' = IF d \in Known \/ Cardinality(Known) < MaxDevices
                  THEN [snapshots EXCEPT ![d] = Latest] ELSE snapshots
  /\ Goes("worker", "saving")
  /\ UNCHANGED <<link, history, books, disk, todo, job, outbox, broker, troubles>>

\* Without a connection the worker waits for one, up to delivery_seconds.
AwaitConnection ==
  /\ pc["worker"] = "connect" /\ connected
  /\ Goes("worker", "turn2")
  /\ UNCHANGED <<link, data, history, todo, job, outbox, broker, troubles>>

NoConnection ==
  /\ pc["worker"] = "connect" /\ ~connected
  /\ Goes("worker", "idle")
  /\ UNCHANGED <<link, data, history, todo, job, outbox, broker, troubles>>

PublishTakesTurn ==
  /\ pc["worker"] = "turn2" /\ LockFree
  /\ job' = Job(dev["worker"], Latest)
  /\ Goes("worker", "publishing")
  /\ UNCHANGED <<link, data, history, todo, outbox, broker, troubles>>

-----------------------------------------------------------------------------
(* The restore loop.                                                       *)

RestoreWakes ==
  /\ pc["restore"] = "idle" /\ restore
  /\ restore' = FALSE
  /\ Goes("restore", "turn")
  /\ UNCHANGED <<connected, generation, data, history, todo, job, outbox, broker, troubles>>

RestoreTakesTurn ==
  /\ pc["restore"] = "turn" /\ LockFree
  /\ todo' = {<<d, snapshots[d]>> : d \in Known}
  /\ Goes("restore", "publishing")
  /\ UNCHANGED <<link, data, history, job, outbox, broker, troubles>>

RestoreNext ==
  /\ pc["restore"] = "publishing" /\ job = NoJob
  /\ \E item \in todo :
       /\ job' = Job(item[1], item[2])
       /\ todo' = todo \ {item}
  /\ UNCHANGED <<link, data, history, pc, dev, outbox, broker, troubles>>

RestoreDone ==
  /\ pc["restore"] = "publishing" /\ job = NoJob /\ todo = {}
  /\ Goes("restore", "idle")
  /\ UNCHANGED <<link, data, history, todo, job, outbox, broker, troubles>>

\* Defect: a failed restoration waits for the next reconnection.
RestoreGivesUp ==
  /\ pc["restore"] = "pause"
  /\ Goes("restore", "idle")
  /\ todo' = {}
  /\ UNCHANGED <<link, data, history, job, outbox, broker, troubles>>

\* Two seconds after a failure the loop asks itself to start again.
RestoreAgain ==
  /\ pc["restore"] = "pause"
  /\ restore' = TRUE
  /\ Goes("restore", "idle")
  /\ todo' = {}
  /\ UNCHANGED <<connected, generation, data, history, job, outbox, broker, troubles>>

-----------------------------------------------------------------------------
(* forget, saving, and the end of the process.                             *)

Forget(d) ==
  /\ pc["forget"] = "idle"
  /\ Trouble
  /\ Begins("forget", d)
  /\ UNCHANGED <<link, data, history, todo, job, outbox, broker>>

ForgetTakesTurn ==
  /\ pc["forget"] = "turn" /\ LockFree
  /\ LET d == dev["forget"] IN
     /\ snapshots' = [snapshots EXCEPT ![d] = 0]
     /\ announced' = [announced EXCEPT ![d] = Never]
  /\ Goes("forget", "saving")
  /\ UNCHANGED <<link, history, topics, cleanup, disk, todo, job, outbox, broker, troubles>>

AfterSave(t) == Goes(t, IF t = "worker" THEN "connect" ELSE "idle")

\* ReadingStore.save replaces the file in one step: before it, a crash leaves
\* the old file.
Save(t) ==
  /\ pc[t] = "saving"
  /\ disk' = snapshots
  /\ AfterSave(t)
  /\ UNCHANGED <<link, snapshots, history, books, todo, job, outbox, broker, troubles>>

SaveFails(t) ==
  /\ pc[t] = "saving"
  /\ Trouble
  /\ saveFailed' = TRUE
  /\ AfterSave(t)
  /\ UNCHANGED <<link, data, profile, todo, job, outbox, broker, missed>>

\* The process is closed or dies, and a new one loads the cache.
Restart ==
  /\ Trouble
  /\ connected' = FALSE /\ generation' = 0 /\ restore' = FALSE
  /\ snapshots' = disk
  /\ announced' = [d \in Devices |-> Never]
  /\ topics' = [d \in Devices |-> {}] /\ cleanup' = [d \in Devices |-> {}]
  /\ pc' = [t \in Tasks |-> "idle"] /\ dev' = [t \in Tasks |-> "none"]
  /\ todo' = {} /\ job' = NoJob /\ outbox' = <<>>
  /\ missed' = {}
  /\ UNCHANGED <<profile, disk, broker, saveFailed>>

Next ==
  \/ Connect \/ Disconnect \/ Birth \/ Deliver
  \/ Send \/ ConfigSent \/ Announced \/ ClearSent \/ StateSent
  \/ ClearFails \/ PublicationFails
  \/ \E d \in Devices, p \in Profiles : Publish(d, p)
  \/ Remember \/ AwaitConnection \/ NoConnection \/ PublishTakesTurn
  \/ RestoreWakes \/ RestoreTakesTurn \/ RestoreNext \/ RestoreDone \/ RestoreAgain
  \/ \E d \in Devices : Forget(d)
  \/ ForgetTakesTurn
  \/ \E t \in {"worker", "forget"} : Save(t) \/ SaveFails(t)
  \/ Restart

Spec == Init /\ [][Next]_vars

-----------------------------------------------------------------------------
(* Properties.                                                             *)

\* What the publisher takes for announced on this connection, the broker has:
\* no record is missing after a broker lost its memory in mid-announcement,
\* or after a late message cleared a topic that is in use again.
AnnouncedIsRetained ==
  \A d \in Devices :
    connected /\ announced[d].gen = generation
      => TopicsOf[announced[d].profile] \subseteq retained[d]

\* When nothing is left to do Home Assistant shows every saved reading, through
\* restarts of Home Assistant, the broker and this process, except where a
\* delivery failed although the connection held, which the next reading mends.
Quiet == connected /\ ~restore /\ outbox = <<>> /\ \A t \in Tasks : pc[t] = "idle"
QuietMeansShown ==
  Quiet => \A d \in Known \ missed : shown[d] = snapshots[d]

\* Home Assistant never goes back to an older reading, not even after a crash,
\* as long as saving works: a reading is saved before it is sent.
StateNeverGoesBack ==
  [][~saveFailed => \A d \in Devices : shown'[d] = 0 \/ shown'[d] >= shown[d]]_vars

\* A discovery record leaves the publisher's books only when the broker no
\* longer has it, or with the whole process: a failed clearing is not forgotten.
NoRecordForgotten ==
  [][(pc' # [t \in Tasks |-> "idle"]) =>
       \A d \in Devices :
         ((topics[d] \cup cleanup[d]) \ (topics'[d] \cup cleanup'[d])) \cap retained'[d] = {}]_vars
=============================================================================
