---------------------------- MODULE DirectControls ----------------------------
(***************************************************************************)
(* The settings of one inverter without MQTT (direct_controls.py and the   *)
(* entities of number.py, switch.py, text.py, button.py).                  *)
(*                                                                         *)
(* What is known of an inverter is a SettingState: the profile of a        *)
(* reading, the connection it came by, the values read since, and a lock.  *)
(* A live reading by another connection, or of another profile, replaces   *)
(* the object, while refreshes and commands that hold the former one and   *)
(* its lock go on.  A connection is known by its session_key, the identity *)
(* of an object of the transport, which a later connection may get again.  *)
(*                                                                         *)
(* Schedules are settings here: set_period does what set_control does, and *)
(* reads the period once more before it writes (Controls has these steps). *)
(* The second of spacing before a request is RelayCommands'.               *)
(***************************************************************************)
EXTENDS Naturals, Sequences, FiniteSets

CONSTANTS
  Keys,            \* what session_key may return
  Profiles,        \* decoder profiles
  Settings,        \* settings and periods
  Offers,          \* profile -> the settings _capability allows for it
  Jobs,            \* refreshes and commands in progress
  Values,          \* what a setting can hold
  MaxConnections,  \* bound: connections of the datalogger
  MaxStates,       \* bound: objects made
  MaxChanges,      \* bound: changes by others
  Nothing          \* no connection, no value

VARIABLES
  link,        \* the open connection: its number and key
  connections, \* connections so far
  held,        \* what the inverter holds
  changes,
  state,       \* states[identity], the number of an object
  objects,     \* the objects: profile, session, values (with the connection they were read by)
  locked,      \* objects whose lock is held
  job,         \* what each refresh or command is doing
  entities,    \* entities made so far
  reused       \* history: keys of the past that were given again

vars == <<link, connections, held, changes, state, objects, locked, job, entities, reused>>

Idle == [pc |-> "idle"]
Starting == [pc |-> "start"]
NoLink == [number |-> 0, key |-> Nothing]
Object(p, k) == [profile |-> p, session |-> k, values |-> [s \in Settings |-> Nothing]]

Init ==
  /\ link = NoLink /\ connections = 0
  /\ held \in [Settings -> Values] /\ changes = 0
  /\ state = 0 /\ objects = <<>> /\ locked = {}
  /\ job = [j \in Jobs |-> Idle]
  /\ entities = {} /\ reused = {}

-----------------------------------------------------------------------------
(* What is offered. *)

AnySession_Current(o) == state = o /\ link.key # Nothing
Current(o) == state = o /\ link.key # Nothing /\ objects[o].session = link.key
Available == state # 0 /\ Current(state)
Offered == IF Available
             THEN {s \in Offers[objects[state].profile] : objects[state].values[s] # Nothing}
             ELSE {}

\* _notify: the platforms make an entity the first time a setting is offered; from
\* then on the entity is available while the setting is.
Notify == entities' = entities \cup Offered'

-----------------------------------------------------------------------------
(* The transport and the inverter. *)

Waits(j) == job[j].pc \in {"asking", "answered", "lost"}

\* The datalogger announced the inverter over a new connection. Its key is not that of
\* the connection it takes over from, nor of one that a request still refers to.
Connect(k) ==
  /\ connections < MaxConnections
  /\ link.key # k /\ \A j \in Jobs : Waits(j) => job[j].by.key # k
  /\ connections' = connections + 1
  /\ link' = [number |-> connections + 1, key |-> k]
  /\ reused' = IF \E o \in DOMAIN objects : objects[o].session = k THEN reused \cup {k} ELSE reused
  /\ UNCHANGED <<held, changes, state, objects, locked, job, entities>>

Disconnect ==
  /\ link # NoLink /\ link' = NoLink
  /\ UNCHANGED <<connections, held, changes, state, objects, locked, job, entities, reused>>

\* The cloud changes a setting.
ChangeElsewhere(s, v) ==
  /\ changes < MaxChanges /\ held[s] # v
  /\ changes' = changes + 1 /\ held' = [held EXCEPT ![s] = v]
  /\ UNCHANGED <<link, connections, state, objects, locked, job, entities, reused>>

-----------------------------------------------------------------------------
(* Readings. *)

\* observe, for a live reading of this profile: a refresh is due every five minutes,
\* at once for a new object and after a command that failed.
Observe(p, due, j) ==
  /\ link # NoLink
  /\ IF state # 0 /\ objects[state].profile = p /\ objects[state].session = link.key
       THEN UNCHANGED <<state, objects>>
       ELSE /\ Len(objects) < MaxStates
            /\ state' = Len(objects) + 1
            /\ objects' = Append(objects, Object(p, link.key))
  /\ IF due \/ state' # state
       THEN job[j].pc = "idle" /\ job' = [job EXCEPT ![j] = Starting]
       ELSE UNCHANGED job
  /\ UNCHANGED <<link, connections, held, changes, locked, reused>>
  /\ Notify

\* The refresh button.
Press(j) ==
  /\ job[j].pc = "idle" /\ job' = [job EXCEPT ![j] = Starting]
  /\ UNCHANGED <<link, connections, held, changes, state, objects, locked, entities, reused>>

\* check_sessions: the values of an object whose connection is gone are dropped.
CheckSessions ==
  /\ state # 0 /\ objects[state].session # link.key
  /\ objects' = [objects EXCEPT ![state] = Object(@.profile, @.session)]
  /\ UNCHANGED <<link, connections, held, changes, state, locked, job, reused>>
  /\ Notify

-----------------------------------------------------------------------------
(* Refreshes and commands, each step up to the next request or the end.    *)

\* A refresh or command that waits for the lock of an object.
Work(kind, object, key, want, todo) ==
  [pc |-> "lock", kind |-> kind, object |-> object, key |-> key, want |-> want, todo |-> todo,
   what |-> Nothing, by |-> NoLink, read |-> Nothing]
Unasked(a) == [a EXCEPT !.what = Nothing, !.by = NoLink, !.read = Nothing]
Keeps(j, read) == objects' = [objects EXCEPT ![job[j].object].values[job[j].key] = read]
Forgets(j) == Keeps(j, Nothing)

Ends(j) == locked' = locked \ {job[j].object} /\ job' = [job EXCEPT ![j] = Idle]

\* refresh takes the object of the moment it starts at.
RefreshStarts(j) ==
  /\ job[j].pc = "start"
  /\ job' = [job EXCEPT ![j] =
       IF Available THEN Work("refresh", state, Nothing, Nothing, Offers[objects[state].profile])
                    ELSE Idle]
  /\ UNCHANGED <<link, connections, held, changes, state, objects, locked, entities, reused>>

\* set_control and set_period: the setting must be offered.
Command(j, s, v) ==
  /\ job[j].pc = "idle" /\ s \in Offered
  /\ job' = [job EXCEPT ![j] = Work("command", state, s, v, {})]
  /\ UNCHANGED <<link, connections, held, changes, state, objects, locked, entities, reused>>

TakeLock(j) ==
  /\ job[j].pc = "lock" /\ job[j].object \notin locked
  /\ locked' = locked \cup {job[j].object}
  /\ job' = [job EXCEPT ![j].pc = "next"]
  /\ UNCHANGED <<link, connections, held, changes, state, objects, entities, reused>>

\* Requests take turns on the connection.
Asks(j, what, s) ==
  /\ \A i \in Jobs : job[i].pc = "asking" => job[i].by # link
  /\ job' = [job EXCEPT ![j].pc = "asking", ![j].what = what, ![j].key = s, ![j].by = link]

RefreshNext(j) ==
  /\ job[j].pc = "next" /\ job[j].kind = "refresh"
  /\ UNCHANGED <<link, connections, held, changes, state, objects, reused>>
  /\ \/ /\ Current(job[j].object)
        /\ \E s \in job[j].todo : Asks(j, "read", s)
        /\ UNCHANGED <<locked, entities>>
     \/ job[j].todo = {} /\ Ends(j) /\ Notify
     \/ /\ job[j].todo # {} /\ ~Current(job[j].object)
        /\ Ends(j) /\ UNCHANGED entities

\* current() of a command, but for its deadline, which may pass at any time.
Allowed(j) == Current(job[j].object) /\ objects[job[j].object].values[job[j].key] # Nothing

\* The check runs before the write is sent, and again before every confirming read.
Fails(j) == Forgets(j) /\ Ends(j) /\ Notify
CommandNext(j, what) ==
  /\ job[j].pc \in {"next", "confirm"} /\ job[j].kind = "command"
  /\ what = (IF job[j].pc = "next" THEN "write" ELSE "confirm")
  /\ UNCHANGED <<link, connections, held, changes, state, reused>>
  /\ \/ Allowed(j) /\ Asks(j, what, job[j].key) /\ UNCHANGED <<objects, locked, entities>>
     \/ Fails(j)

\* The inverter does what is asked, and its answer arrives, while the connection lasts.
Answer(j) ==
  LET a == job[j]
  IN /\ a.pc = "asking" /\ a.by = link
     /\ held' = IF a.what = "write" THEN [held EXCEPT ![a.key] = a.want] ELSE held
     /\ job' = [job EXCEPT ![j].pc = "answered",
                           ![j].read = [value |-> held'[a.key], by |-> a.by.number, under |-> changes]]
     /\ UNCHANGED <<link, connections, changes, state, objects, locked, entities, reused>>

\* No answer in time, a refusal, or the connection ended; a write may have been done.
Lose(j) ==
  LET a == job[j]
  IN /\ a.pc = "asking"
     /\ \/ UNCHANGED held
        \/ a.what = "write" /\ a.by = link /\ held' = [held EXCEPT ![a.key] = a.want]
     /\ job' = [job EXCEPT ![j].pc = "lost"]
     /\ UNCHANGED <<link, connections, changes, state, objects, locked, entities, reused>>

\* A refresh keeps what it read only if its object still is the current one.
RefreshHears(j) ==
  /\ job[j].pc \in {"answered", "lost"} /\ job[j].kind = "refresh"
  /\ CASE job[j].pc = "lost" -> Forgets(j)
       [] job[j].pc = "answered" /\ Current(job[j].object) -> Keeps(j, job[j].read)
       [] OTHER -> UNCHANGED objects
  /\ job' = [job EXCEPT ![j] = [Unasked(@) EXCEPT !.pc = "next", !.key = Nothing,
                                   !.todo = job[j].todo \ {job[j].key}]]
  /\ UNCHANGED <<link, connections, held, changes, state, locked, entities, reused>>

\* A write acknowledged is confirmed; a reading that is lost or shows something else is
\* repeated, or the attempts (three in the code, not counted here) are used up.
CommandHears(j) ==
  LET a == job[j]
      confirmed == a.what = "confirm" /\ a.pc = "answered" /\ a.read.value = a.want
  IN /\ a.pc \in {"answered", "lost"} /\ a.kind = "command"
     /\ UNCHANGED <<link, connections, held, changes, state, reused>>
     /\ \/ confirmed /\ Keeps(j, a.read) /\ Ends(j) /\ Notify
        \/ /\ ~confirmed /\ (a.pc = "answered" \/ a.what = "confirm")
           /\ job' = [job EXCEPT ![j] = [Unasked(@) EXCEPT !.pc = "confirm"]]
           /\ UNCHANGED <<objects, locked, entities>>
        \/ ~confirmed /\ Fails(j)

Next ==
  \/ \E k \in Keys : Connect(k)
  \/ Disconnect \/ CheckSessions
  \/ \E s \in Settings, v \in Values : ChangeElsewhere(s, v)
  \/ \E p \in Profiles, due \in BOOLEAN, j \in Jobs : Observe(p, due, j)
  \/ \E j \in Jobs :
       \/ Press(j) \/ RefreshStarts(j) \/ TakeLock(j) \/ RefreshNext(j)
       \/ Answer(j) \/ Lose(j) \/ RefreshHears(j) \/ CommandHears(j)
       \/ \E s \in Settings, v \in Values : Command(j, s, v)
       \/ \E what \in {"write", "confirm"} : CommandNext(j, what)

Spec == Init /\ [][Next]_vars

-----------------------------------------------------------------------------
Read(s) == objects[state].values[s]

\* Its command is between the first request and the outcome.
Unsettled(s) ==
  \E j \in Jobs : job[j].pc \notin {"idle", "start"} /\ job[j].kind = "command" /\ job[j].key = s

(* A setting offered was read since this session key came up, that is, in  *)
(* the present connection unless the key is one used before; and it shows  *)
(* what the inverter holds, unless the cloud changed that or a command for *)
(* it is under way, although an object replaced may still be at work under *)
(* a lock of its own (direct_controls.py:92, 139-160, 205-216).            *)
OfferedIsTrue ==
  \A s \in Offered :
    /\ objects[state].session \notin reused => Read(s).by = link.number
    /\ Read(s).under = changes /\ Read(s).by = link.number => Read(s).value = held[s] \/ Unsettled(s)

(* "Offer settings only after a current-session read succeeds"             *)
(* (direct_controls.py:28): what is offered was read in the connection     *)
(* that now serves the inverter.                                           *)
OfferedAfterCurrentSessionRead == \A s \in Offered : Read(s).by = link.number

=============================================================================
