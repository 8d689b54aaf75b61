--------------------------- MODULE StandaloneServer ---------------------------
(***************************************************************************)
(* The server that stands in for the vendor's cloud (server.py).           *)
(*                                                                         *)
(* A datalogger's connection is a session; the logger it names points at   *)
(* it in the registry.  Register requests come from HTTP (api) and from    *)
(* the controls (command).  Both hold the session's lock from the draw of  *)
(* a number to the answer, so each session has at most one request that    *)
(* waits: pending and command_pending are the callers whose pc is "sent",  *)
(* and a number still in command_pending is never drawn again.             *)
(*                                                                         *)
(* A reply answers an HTTP caller by function and register, a command by   *)
(* number, unit, function and register.  Left out: the wording of          *)
(* requests, the cache behind regall, and the observation queue, which is  *)
(* the relay's (Outputs).                                                  *)
(***************************************************************************)
EXTENDS Naturals, FiniteSets

CONSTANTS
  Sessions,         \* connections dataloggers make
  Loggers,          \* datalogger identities
  Inverters,        \* inverter identities
  Keys,             \* pairs of a function and a register
  Callers,          \* HTTP clients and controls
  Nobody,           \* no session, logger or caller
  MaxConnections,   \* settings.max_connections
  MaxSequence,      \* 65535 in the code
  MaxDraws          \* bound: numbers drawn

VARIABLES
  state,      \* new, open, closed (by a takeover), ending, gone
  name,       \* session.logger
  behind,     \* session.inverters
  owesClock,  \* sessions between the acknowledgement and the clock
  registry,   \* server._registry
  drawn,      \* numbers drawn; _sequence is the last one, modulo the turn
  lock,       \* session.lock's holder
  call,       \* what each caller is doing
  atDevice,   \* requests the datalogger has not answered
  astray      \* history: requests whose callers did not get their reply

vars == <<state, name, behind, owesClock, registry, drawn, lock, call, atDevice, astray>>
links == <<state, name, behind, owesClock, registry>>

Number(id) == ((id - 1) % MaxSequence) + 1
Idle == [pc |-> "idle"]
Pending(s) == {c \in Callers : call[c].pc = "sent" /\ call[c].session = s}
\* server._sessions
Held == {s \in Sessions : state[s] \in {"open", "closed", "ending"}}
Reading(s) == state[s] \in {"open", "closed"} /\ s \notin owesClock

Init ==
  /\ state = [s \in Sessions |-> "new"]
  /\ name = [s \in Sessions |-> Nobody]
  /\ behind = [s \in Sessions |-> {}]
  /\ owesClock = {}
  /\ registry = [l \in Loggers |-> Nobody]
  /\ drawn = 0
  /\ lock = [s \in Sessions |-> Nobody]
  /\ call = [c \in Callers |-> Idle]
  /\ atDevice = [s \in Sessions |-> {}]
  /\ astray = {}

-----------------------------------------------------------------------------
(* Connections. *)

Accept(s) ==
  /\ state[s] = "new"
  /\ state' = [state EXCEPT ![s] = IF Cardinality(Held) < MaxConnections THEN "open" ELSE "gone"]
  /\ UNCHANGED <<name, behind, owesClock, registry, drawn, lock, call, atDevice, astray>>

\* A frame names the logger (function 22) and perhaps an inverter (function 3):
\* the former session of that name is closed, and a function 3 owes a clock.
\* A write that fails here is the End that follows.
Announce(s, l, found) ==
  /\ Reading(s)
  /\ state' = [t \in Sessions |->
                 IF t = registry[l] /\ t # s /\ state[t] = "open" THEN "closed" ELSE state[t]]
  /\ name' = [name EXCEPT ![s] = l]
  /\ registry' = [registry EXCEPT ![l] = s]
  /\ behind' = [behind EXCEPT ![s] = @ \cup found]
  /\ owesClock' = IF found = {} THEN owesClock ELSE owesClock \cup {s}
  /\ UNCHANGED <<drawn, lock, call, atDevice, astray>>

Clock(s) ==
  /\ s \in owesClock /\ state[s] \in {"open", "closed"} /\ drawn < MaxDraws
  /\ drawn' = drawn + 1
  /\ owesClock' = owesClock \ {s}
  /\ UNCHANGED <<state, name, behind, registry, lock, call, atDevice, astray>>

AnyNumber_Matches(c, r) ==
  /\ r.key = call[c].key
  /\ IF call[c].how = "command" THEN r.target = "inverter" /\ r.unit = call[c].unit
     ELSE r.target = call[c].how

Matches(c, r) ==
  /\ r.key = call[c].key
  /\ IF call[c].how = "command"
       THEN r.target = "inverter" /\ r.number = Number(call[c].id) /\ r.unit = call[c].unit
       ELSE r.target = call[c].how

\* The datalogger answers its requests in any order, or never.
Reply(s, r) ==
  /\ Reading(s) /\ r \in atDevice[s]
  /\ atDevice' = [atDevice EXCEPT ![s] = @ \ {r}]
  /\ call' = [c \in Callers |-> IF c \in Pending(s) /\ Matches(c, r)
                                  THEN [call[c] EXCEPT !.pc = "answered", !.by = r.id]
                                  ELSE call[c]]
  /\ UNCHANGED <<links, drawn, lock, astray>>

AnySession_Without(s) == [l \in Loggers |-> IF l = name[s] THEN Nobody ELSE registry[l]]
\* The registry without the session, under the last name it gave.
Without(s) == [l \in Loggers |-> IF l = name[s] /\ registry[l] = s THEN Nobody ELSE registry[l]]

\* The connection ended or broke, or a frame was malformed: _device's finally.
End(s) ==
  /\ state[s] \in {"open", "closed"}
  /\ state' = [state EXCEPT ![s] = "ending"]
  /\ registry' = Without(s)
  /\ call' = [c \in Callers |-> IF c \in Pending(s) THEN [call[c] EXCEPT !.pc = "failed"] ELSE call[c]]
  /\ atDevice' = [atDevice EXCEPT ![s] = {}]
  /\ owesClock' = owesClock \ {s}
  /\ UNCHANGED <<name, behind, drawn, lock, astray>>

Discard(s) ==
  /\ state[s] = "ending"
  /\ state' = [state EXCEPT ![s] = "gone"]
  /\ UNCHANGED <<name, behind, owesClock, registry, drawn, lock, call, atDevice, astray>>

-----------------------------------------------------------------------------
(* Requests. *)

Ask(c, how, s, unit, key) ==
  /\ call[c].pc = "idle"
  /\ call' = [call EXCEPT ![c] = [pc |-> "waiting", how |-> how, session |-> s, unit |-> unit,
                                  key |-> key, id |-> 0, by |-> 0]]
  /\ UNCHANGED <<links, drawn, lock, atDevice, astray>>

\* HTTP addresses a logger through the registry, and an inverter through any
\* session that ever announced it, also one whose writer is closed.
AskLogger(c, l, key) == registry[l] # Nobody /\ Ask(c, "datalogger", registry[l], Nobody, key)
AskInverter(c, s, i, key) == s \in Held /\ i \in behind[s] /\ Ask(c, "inverter", s, i, key)

\* _inverter_session: a registered session that is not closing.
AskCommand(c, s, i, key) ==
  /\ \E l \in Loggers : registry[l] = s
  /\ i \in behind[s] /\ state[s] = "open"
  /\ Ask(c, "command", s, i, key)

Release(c) ==
  /\ call' = [call EXCEPT ![c] = Idle]
  /\ lock' = [lock EXCEPT ![call[c].session] = Nobody]

\* A request is written under the next number. Only an open writer passes it
\* on; the write may fail although the datalogger got it.
Send(c) ==
  LET s == call[c].session
      id == drawn + 1
  IN /\ drawn < MaxDraws
     /\ drawn' = id
     /\ atDevice' = IF state[s] = "open"
          THEN [atDevice EXCEPT ![s] = @ \cup
                  {[id |-> id, number |-> Number(id), unit |-> call[c].unit, key |-> call[c].key,
                    target |-> IF call[c].how = "command" THEN "inverter" ELSE call[c].how]}]
          ELSE atDevice
     /\ \/ /\ call' = [call EXCEPT ![c].id = id, ![c].pc = "sent"]
           /\ lock' = [lock EXCEPT ![s] = c]
           /\ UNCHANGED astray
        \/ Release(c) /\ astray' = astray \cup {id}

\* The lock is free: HTTP sends at once, a command keeps a second's distance.
Enter(c) ==
  /\ call[c].pc = "waiting" /\ lock[call[c].session] = Nobody
  /\ \/ call[c].how # "command" /\ Send(c)
     \/ /\ call[c].how = "command"
        /\ call' = [call EXCEPT ![c].pc = "spacing"]
        /\ lock' = [lock EXCEPT ![call[c].session] = c]
        /\ UNCHANGED <<drawn, atDevice, astray>>
  /\ UNCHANGED links

\* check_current without the caller's own check, which may fail at any time.
Current(c) ==
  LET s == call[c].session
  IN state[s] = "open" /\ call[c].unit \in behind[s] /\ registry[name[s]] = s

CommandSend(c) ==
  /\ call[c].pc = "spacing"
  /\ \/ Current(c) /\ Send(c)
     \/ Release(c) /\ UNCHANGED <<drawn, atDevice, astray>>
  /\ UNCHANGED links

\* response_seconds for a sent request, the 15 seconds of an HTTP request that
\* waits for the lock.
GiveUp(c) ==
  /\ \/ call[c].pc = "sent" /\ Release(c) /\ astray' = astray \cup {call[c].id}
     \/ /\ call[c].pc = "waiting" /\ call[c].how # "command"
        /\ call' = [call EXCEPT ![c] = Idle]
        /\ UNCHANGED <<lock, astray>>
  /\ UNCHANGED <<links, drawn, atDevice>>

\* The caller goes on with the answer, or with the end of the connection.
Return(c) ==
  /\ call[c].pc \in {"answered", "failed"}
  /\ Release(c)
  /\ astray' = IF call[c].by = call[c].id THEN astray ELSE astray \cup {call[c].id}
  /\ UNCHANGED <<links, drawn, atDevice>>

Next ==
  \/ \E s \in Sessions : Accept(s) \/ Clock(s) \/ End(s) \/ Discard(s)
  \/ \E s \in Sessions, l \in Loggers, i \in Inverters, both \in BOOLEAN :
       Announce(s, l, IF both THEN {i} ELSE {})
  \/ \E s \in Sessions : \E r \in atDevice[s] : Reply(s, r)
  \/ \E c \in Callers, key \in Keys :
       \/ \E l \in Loggers : AskLogger(c, l, key)
       \/ \E s \in Sessions, i \in Inverters : AskInverter(c, s, i, key) \/ AskCommand(c, s, i, key)
  \/ \E c \in Callers : Enter(c) \/ CommandSend(c) \/ GiveUp(c) \/ Return(c)

Spec == Init /\ [][Next]_vars

-----------------------------------------------------------------------------
(* An answer is the reply to the caller's own request, or that of an       *)
(* earlier request whose caller did not get it: for HTTP one for the same  *)
(* kind of device and register (server.py:183), and one lost answer may    *)
(* shift all that follow; for a command only after the numbers went round  *)
(* completely (server.py:188).                                             *)
AnswersAreOwnOrLate ==
  \A c \in Callers : call[c].pc = "answered" /\ call[c].by # call[c].id =>
    /\ call[c].by \in astray
    /\ call[c].how = "command" => call[c].id - call[c].by >= MaxSequence

(* An open session can be reached under the logger it last named, whoever  *)
(* ends before or after it; and the registry forgets a session when that   *)
(* ends, except under a name that the session gave up for another one      *)
(* (server.py:139, 187-194).                                               *)
RegistryFollowsSessions ==
  /\ \A s \in Sessions : state[s] = "open" /\ name[s] # Nobody => registry[name[s]] = s
  /\ \A l \in Loggers : LET s == registry[l]
       IN s # Nobody /\ state[s] \in {"new", "ending", "gone"} => name[s] # l

=============================================================================
