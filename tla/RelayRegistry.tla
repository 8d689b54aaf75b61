----------------------------- MODULE RelayRegistry -----------------------------
(***************************************************************************)
(* The connections of the relay and the inverters they serve (_accept,     *)
(* _session, _identify and close in relay.py).                             *)
(*                                                                         *)
(* A connection announces its datalogger and the inverters behind it.  The *)
(* latest connection to announce an inverter owns its entry in _devices,   *)
(* where commands look it up, and the previous owner's writer is closed.   *)
(* That connection may still read what it had buffered: it only finds out  *)
(* when it next reads from its socket.  Sessions end in three steps with   *)
(* awaits between them: their tasks are cancelled, their entries are       *)
(* removed, their sockets are closed.                                      *)
(***************************************************************************)
EXTENDS Integers, FiniteSets

CONSTANTS
  Sessions,         \* connections dataloggers make
  Inverters,        \* inverter identities
  Loggers,          \* datalogger identities
  Nobody,           \* neither a session nor an identity
  MaxConnections,   \* settings.max_connections
  MaxDevices        \* inverters of one session, in the code 64

ASSUME RegistryAssumption ==
  /\ Nobody \notin Sessions \cup Loggers
  /\ MaxConnections \in Nat \ {0} /\ MaxDevices \in Nat \ {0}

\* A session's task: not there yet, created, serving, waiting for its flows to
\* be cancelled, closing its sockets, done; done without having cleaned up; or
\* the connection was rejected.
Phases == {"new", "accepted", "serving", "cancelling", "releasing", "done", "aborted",
           "rejected"}

VARIABLES
  closing,      \* relay._closing
  phase,        \* what each session's task is doing
  writerOpen,   \* which sessions' writers are not closing
  logger,       \* session.logger
  serves,       \* session.devices
  devices,      \* relay._devices
  announcer     \* history: the last session to announce each inverter

vars == <<closing, phase, writerOpen, logger, serves, devices, announcer>>

Init ==
  /\ closing = FALSE
  /\ phase = [s \in Sessions |-> "new"]
  /\ writerOpen = {}
  /\ logger = [s \in Sessions |-> Nobody]
  /\ serves = [s \in Sessions |-> {}]
  /\ devices = [i \in Inverters |-> Nobody]
  /\ announcer = [i \in Inverters |-> Nobody]

\* relay._sessions: tasks that are not done.
Tasks == {s \in Sessions : phase[s] \in {"accepted", "serving", "cancelling", "releasing"}}

Accept(s) ==
  /\ phase[s] = "new"
  /\ ~closing /\ Cardinality(Tasks) < MaxConnections
  /\ phase' = [phase EXCEPT ![s] = "accepted"]
  /\ writerOpen' = writerOpen \cup {s}
  /\ UNCHANGED <<closing, logger, serves, devices, announcer>>

Reject(s) ==
  /\ phase[s] = "new"
  /\ closing \/ Cardinality(Tasks) >= MaxConnections
  /\ phase' = [phase EXCEPT ![s] = "rejected"]
  /\ UNCHANGED <<closing, writerOpen, logger, serves, devices, announcer>>

\* The task created for the connection begins to run.
Begin(s) ==
  /\ phase[s] = "accepted"
  /\ phase' = [phase EXCEPT ![s] = "serving"]
  /\ UNCHANGED <<closing, writerOpen, logger, serves, devices, announcer>>

-----------------------------------------------------------------------------
(* _identify.  A serving session reads a frame that names its datalogger,  *)
(* whether or not its writer has been closed in the meantime.              *)

SameLogger(s, l) == logger[s] \in {Nobody, l}

IdentifyLogger(s, l) ==
  /\ phase[s] = "serving"
  /\ SameLogger(s, l)
  /\ logger' = [logger EXCEPT ![s] = l]
  /\ UNCHANGED <<closing, phase, writerOpen, serves, devices, announcer>>

\* "Datalogger identity changed during a connection": the session ends.
LoggerChanged(s, l) ==
  /\ phase[s] = "serving"
  /\ ~SameLogger(s, l)
  /\ phase' = [phase EXCEPT ![s] = "cancelling"]
  /\ UNCHANGED <<closing, writerOpen, logger, serves, devices, announcer>>

\* Defect: the session that had the entry keeps its connection.
AnnounceBeside(s, l, i) ==
  /\ phase[s] = "serving"
  /\ SameLogger(s, l)
  /\ i \in serves[s] \/ Cardinality(serves[s]) < MaxDevices
  /\ logger' = [logger EXCEPT ![s] = l]
  /\ serves' = [serves EXCEPT ![s] = @ \cup {i}]
  /\ devices' = [devices EXCEPT ![i] = s]
  /\ announcer' = [announcer EXCEPT ![i] = s]
  /\ UNCHANGED <<closing, phase, writerOpen>>

\* The frame names an inverter too: the session takes its entry and closes the
\* writer of the session that had it.
Announce(s, l, i) ==
  /\ phase[s] = "serving"
  /\ SameLogger(s, l)
  /\ i \in serves[s] \/ Cardinality(serves[s]) < MaxDevices
  /\ logger' = [logger EXCEPT ![s] = l]
  /\ writerOpen' = writerOpen \ ({devices[i]} \ {s})
  /\ serves' = [serves EXCEPT ![s] = @ \cup {i}]
  /\ devices' = [devices EXCEPT ![i] = s]
  /\ announcer' = [announcer EXCEPT ![i] = s]
  /\ UNCHANGED <<closing, phase>>

\* A session that serves as many inverters as it may takes no more.
AnnounceTooMany(s, l, i) ==
  /\ phase[s] = "serving"
  /\ SameLogger(s, l)
  /\ i \notin serves[s] /\ Cardinality(serves[s]) >= MaxDevices
  /\ logger' = [logger EXCEPT ![s] = l]
  /\ UNCHANGED <<closing, phase, writerOpen, serves, devices, announcer>>

-----------------------------------------------------------------------------
(* The end of a session and of the relay.                                  *)

\* Recovery or an exhausted number space closes the writer of a session.
WriterCloses(s) ==
  /\ phase[s] = "serving" /\ s \in writerOpen
  /\ writerOpen' = writerOpen \ {s}
  /\ UNCHANGED <<closing, phase, logger, serves, devices, announcer>>

\* The datalogger disconnects, fails, or is silent too long.
Disconnect(s) ==
  /\ phase[s] = "serving"
  /\ phase' = [phase EXCEPT ![s] = "cancelling"]
  /\ UNCHANGED <<closing, writerOpen, logger, serves, devices, announcer>>

\* Defect: it removes no entry.
ReleaseNothing(s) ==
  /\ phase[s] = "cancelling"
  /\ phase' = [phase EXCEPT ![s] = "releasing"]
  /\ UNCHANGED <<closing, writerOpen, logger, serves, devices, announcer>>

\* Defect: it removes entries that have passed to another session.
ReleaseEntriesOfOthers(s) ==
  /\ phase[s] = "cancelling"
  /\ phase' = [phase EXCEPT ![s] = "releasing"]
  /\ devices' = [i \in Inverters |-> IF i \in serves[s] THEN Nobody ELSE devices[i]]
  /\ UNCHANGED <<closing, writerOpen, logger, serves, announcer>>

\* Its tasks are gone: the session removes the entries it still owns.
ReleaseEntries(s) ==
  /\ phase[s] = "cancelling"
  /\ phase' = [phase EXCEPT ![s] = "releasing"]
  /\ devices' = [i \in Inverters |-> IF i \in serves[s] /\ devices[i] = s THEN Nobody
                                     ELSE devices[i]]
  /\ UNCHANGED <<closing, writerOpen, logger, serves, announcer>>

\* Its sockets are closed, or given up after two seconds; the task is done.
SessionDone(s) ==
  /\ phase[s] = "releasing"
  /\ phase' = [phase EXCEPT ![s] = "done"]
  /\ writerOpen' = writerOpen \ {s}
  /\ UNCHANGED <<closing, logger, serves, devices, announcer>>

\* Defect: tasks that have not begun are not cancelled.
CloseRelayServing ==
  /\ ~closing
  /\ closing' = TRUE
  /\ phase' = [s \in Sessions |->
                 CASE phase[s] \in {"cancelling", "releasing"} -> "aborted"
                   [] phase[s] = "serving" -> "cancelling"
                   [] OTHER -> phase[s]]
  /\ UNCHANGED <<writerOpen, logger, serves, devices, announcer>>

\* Relay.close cancels every task where it awaits.  One that has not begun never
\* runs; one that is cleaning up does not finish that, since the cancellation
\* leaves its finally block.
CloseRelay ==
  /\ ~closing
  /\ closing' = TRUE
  /\ phase' = [s \in Sessions |->
                 CASE phase[s] \in {"accepted", "cancelling", "releasing"} -> "aborted"
                   [] phase[s] = "serving" -> "cancelling"
                   [] OTHER -> phase[s]]
  /\ UNCHANGED <<writerOpen, logger, serves, devices, announcer>>

\* Once the tasks are done it closes the sockets they left open.
Sweep ==
  /\ closing /\ Tasks = {} /\ writerOpen # {}
  /\ writerOpen' = {}
  /\ UNCHANGED <<closing, phase, logger, serves, devices, announcer>>

Over == \A s \in Sessions : phase[s] \in {"done", "aborted", "rejected"}

Finished == Over /\ UNCHANGED vars

Next ==
  \/ \E s \in Sessions :
       \/ Accept(s) \/ Reject(s) \/ Begin(s) \/ WriterCloses(s) \/ Disconnect(s)
       \/ ReleaseEntries(s) \/ SessionDone(s)
       \/ \E l \in Loggers :
            \/ IdentifyLogger(s, l) \/ LoggerChanged(s, l)
            \/ \E i \in Inverters : Announce(s, l, i) \/ AnnounceTooMany(s, l, i)
  \/ CloseRelay \/ Sweep
  \/ Finished

Spec == Init /\ [][Next]_vars

\* Fairness: the flows a session cancels end, closing a socket is given up
\* after two seconds, and Relay.close goes on when the tasks it awaits are done.
Fairness ==
  /\ \A s \in Sessions : WF_vars(ReleaseEntries(s)) /\ WF_vars(SessionDone(s))
  /\ WF_vars(Sweep)

FairSpec == Spec /\ Fairness

-----------------------------------------------------------------------------
(* Properties.                                                             *)

TypeOK ==
  /\ closing \in BOOLEAN
  /\ phase \in [Sessions -> Phases]
  /\ writerOpen \in SUBSET Sessions
  /\ logger \in [Sessions -> Loggers \cup {Nobody}]
  /\ serves \in [Sessions -> SUBSET Inverters]
  /\ devices \in [Inverters -> Sessions \cup {Nobody}]
  /\ announcer \in [Inverters -> Sessions \cup {Nobody}]

Live(s) == phase[s] \in {"serving", "cancelling"}

\* An entry leads to a session that announced the inverter and has not cleaned
\* up: no command is addressed to a connection that is gone, except when closing
\* the relay cut the clean-up short.
EntriesAreLive ==
  \A i \in Inverters, s \in Sessions :
    devices[i] = s => i \in serves[s] /\ (Live(s) \/ (closing /\ phase[s] = "aborted"))

\* Of the connections that announced an inverter, the only one that can still
\* be written to is the one its entry leads to.  A closed connection that reads
\* a buffered announcement takes the entry back, and closes the newer one.
OneOpenOwner ==
  \A i \in Inverters, s \in Sessions :
    i \in serves[s] /\ s \in writerOpen /\ Live(s) => devices[i] = s

\* The last connection to announce an inverter keeps its entry until it ends,
\* whatever earlier owners do when they clean up.
LastAnnouncerOwns ==
  \A i \in Inverters, s \in Sessions : announcer[i] = s /\ Live(s) => devices[i] = s

\* Closing the relay ends every session and leaves no socket open, whatever the
\* sessions were doing when they were cancelled.
CloseCompletes == closing ~> [](Tasks = {} /\ writerOpen = {})
=============================================================================
