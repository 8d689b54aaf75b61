------------------------------ MODULE Diagnostics ------------------------------
(***************************************************************************)
(* Reading registers for diagnosis: a service call of Home Assistant       *)
(* (register_tools.py) becomes a request over MQTT, waits in the app's     *)
(* queue (ha_features.py) and is run under the device's lock               *)
(* (register_diagnostics.py), as are requests of the support page; the     *)
(* reply goes back over MQTT.  Messages may be lost, late or delivered     *)
(* again.  One inverter; a call's request_id is the call itself.           *)
(*                                                                         *)
(* The words read are abstracted to the connection and details under which *)
(* the inverter told them.  Time limits may run out at any moment.         *)
(***************************************************************************)
EXTENDS Naturals, Sequences, FiniteSets

CONSTANTS
  Calls,           \* service calls, each with its request_id
  Page,            \* requests of the support page
  Keys,            \* what session_key may return
  Ranges,          \* ranges of registers to read
  Identifications, \* the operations that read IdentifyReads ranges in turn, identify in the code
  IdentifyReads,   \* 4 in the code
  MaxPending,      \* 4 in the code
  MaxSeen,         \* 128 in the code
  QueueSize,       \* 4 in the code
  MaxTokens,       \* bound: comparison snapshots made
  MaxChanges,      \* bound: changes of connection and details
  None

VARIABLES
  link, details,   \* session_key and command_context of the inverter
  changes,
  pending,         \* RegisterTools.pending, if the companion is loaded
  closed,
  result,          \* what each call ended with
  requests,        \* requests published
  expired,         \* requests whose 50 seconds are over
  seen,            \* _diagnostic_seen
  queue,           \* _diagnostic_requests, with session and context of the admission
  job,             \* what the loop and the page are running
  snapshot,        \* diagnostics.snapshots[identity]
  tokens,
  replies,         \* replies with words; one with an error ends its call as GiveUp does
  admitted,        \* history: session and context each request was admitted under
  runs             \* history: how often each request was run

vars == <<link, details, changes, pending, closed, result, requests, expired, seen, queue,
          job, snapshot, tokens, replies, admitted, runs>>
companion == <<pending, closed, result, requests>>
inverter == <<link, details, changes>>
app == <<seen, queue, job, snapshot, tokens, replies, admitted, runs>>

Runners == {"loop", Page}
Now == <<link, details>>
Failed == [error |-> TRUE]
Idle == [pc |-> "idle"]

Init ==
  /\ link \in Keys \cup {None} /\ details = 0 /\ changes = 0
  /\ pending = {} /\ closed = FALSE /\ result = [c \in Calls |-> None]
  /\ requests = {} /\ expired = {} /\ seen = {} /\ queue = <<>>
  /\ job = [p \in Runners |-> Idle]
  /\ snapshot = None /\ tokens = 0 /\ replies = {}
  /\ admitted = [c \in Calls |-> None] /\ runs = [c \in Calls |-> 0]

-----------------------------------------------------------------------------
(* The inverter, and time. *)

Change(k, d) ==
  /\ changes < MaxChanges /\ <<k, d>> # Now /\ (k = link \/ d = details)
  /\ changes' = changes + 1 /\ link' = k /\ details' = d
  /\ UNCHANGED <<companion, expired, app>>

Expire(c) ==
  /\ c \notin expired /\ \E r \in requests : r.id = c
  /\ expired' = expired \cup {c}
  /\ UNCHANGED <<inverter, companion, app>>

\* Ten minutes after it was made.
ForgetSnapshot ==
  /\ snapshot # None /\ snapshot' = None
  /\ UNCHANGED <<inverter, companion, expired, seen, queue, job, tokens, replies,
                 admitted, runs>>

-----------------------------------------------------------------------------
(* Home Assistant: handle, receive, stop. *)

Handle(c, what, previous) ==
  /\ ~closed /\ Cardinality(pending) < MaxPending
  /\ c \notin pending /\ result[c] = None /\ ~\E r \in requests : r.id = c
  /\ pending' = pending \cup {c}
  /\ requests' = requests \cup {[id |-> c, what |-> what, previous |-> previous]}
  /\ UNCHANGED <<inverter, closed, result, expired, app>>

Ends(c, outcome) == pending' = pending \ {c} /\ result' = [result EXCEPT ![c] = outcome]

GiveUp(c) ==
  /\ c \in pending /\ Ends(c, Failed)
  /\ UNCHANGED <<inverter, closed, requests, expired, app>>

\* A reply is taken by the call its topic names, while that call still waits.
Answers(r, c) == r.id = c
Receive(r, c) ==
  /\ ~closed /\ c \in pending /\ Answers(r, c)
  /\ Ends(c, r)
  /\ UNCHANGED <<inverter, closed, requests, expired, app>>

Stop ==
  /\ ~closed /\ closed' = TRUE /\ pending' = {}
  /\ result' = [c \in Calls |-> IF c \in pending THEN Failed ELSE result[c]]
  /\ UNCHANGED <<inverter, requests, expired, app>>

-----------------------------------------------------------------------------
(* The app: _diagnostic_enqueue, _diagnostic_loop, run. *)

\* A request delivered, perhaps again. Requests that expired are no longer remembered.
Enqueue(r) ==
  LET remembered == seen \ expired
  IN /\ r.id \notin expired
     /\ r.id \notin remembered /\ Cardinality(remembered) < MaxSeen
     /\ Len(queue) < QueueSize
     /\ seen' = remembered \cup {r.id}
     /\ queue' = Append(queue, [request |-> r, at |-> Now])
     /\ admitted' = [admitted EXCEPT ![r.id] = Now]
     /\ UNCHANGED <<inverter, companion, expired, job, snapshot, tokens, replies, runs>>

\* guard, but for its deadline.
Holds(p) == link # None /\ job[p].at = Now

AnyTime_Comparable(r) ==
  r.previous = 0 \/ (snapshot # None /\ snapshot.token = r.previous /\ snapshot.range = r.what)

Comparable(r) ==
  r.previous = 0 \/ (snapshot # None /\ snapshot.token = r.previous
                     /\ snapshot.at = Now /\ snapshot.range = r.what)

\* run, up to the first request to the inverter. The request may wait for the second's
\* distance of RelayCommands; that the guard fails then is RunFails.
Begins(p, r) ==
  /\ job' = [job EXCEPT ![p] = [pc |-> "asking", request |-> r, at |-> Now, told |-> {},
                                left |-> IF r.what \in Identifications THEN IdentifyReads ELSE 1,
                                with |-> IF r.previous = 0 THEN None ELSE snapshot]]
  /\ runs' = [c \in Calls |-> IF c = r.id THEN runs[c] + 1 ELSE runs[c]]

\* Another run has the lock. A run is also refused while Controls holds it, or within
\* five seconds of the last one: at any time, as far as this module can tell.
Busy == \E p \in Runners : job[p].pc # "idle"

\* The loop takes the next request; what was true at its admission must still be.
Take ==
  LET first == Head(queue)
      r == first.request
  IN /\ job["loop"].pc = "idle" /\ queue # <<>>
     /\ queue' = Tail(queue)
     /\ \/ /\ r.id \notin expired /\ first.at = Now /\ link # None /\ ~Busy /\ Comparable(r)
           /\ Begins("loop", r)
        \/ UNCHANGED <<job, runs>>
     /\ UNCHANGED <<inverter, companion, expired, seen, snapshot, tokens, replies, admitted>>

\* A request of the support page is run at once, or refused.
PageReads(what, previous) ==
  LET r == [id |-> Page, what |-> what, previous |-> previous]
  IN /\ job[Page].pc = "idle" /\ link # None /\ ~Busy /\ Comparable(r)
     /\ Begins(Page, r)
     /\ UNCHANGED <<inverter, companion, expired, seen, queue, snapshot, tokens, replies, admitted>>

RunKeeps == UNCHANGED <<inverter, companion, expired, seen, queue, admitted, runs>>

Answer(p) ==
  /\ job[p].pc = "asking" /\ link = job[p].at[1]
  /\ job' = [job EXCEPT ![p].pc = "told", ![p].told = @ \cup {Now}]
  /\ RunKeeps /\ UNCHANGED <<snapshot, tokens, replies>>

\* The next request of the run.
GoesOn(p) == job' = [job EXCEPT ![p].pc = "asking", ![p].left = @ - 1]

\* The words are taken if the guard still holds; the last ones end the run, and those
\* of a range make the snapshot for the next comparison.
Hear(p) ==
  LET j == job[p]
      range == j.request.what
      words == [id |-> j.request.id, told |-> j.told, range |-> range, with |-> j.with]
  IN /\ j.pc = "told" /\ Holds(p)
     /\ IF j.left > 1
          THEN GoesOn(p) /\ UNCHANGED <<snapshot, tokens, replies>>
          ELSE /\ job' = [job EXCEPT ![p] = Idle]
               /\ replies' = IF p = "loop" THEN replies \cup {words} ELSE replies
               /\ IF range \in Identifications THEN UNCHANGED <<snapshot, tokens>>
                  ELSE /\ tokens < MaxTokens /\ tokens' = tokens + 1
                       /\ snapshot' = [token |-> tokens', at |-> j.at, range |-> range, told |-> j.told]
     /\ RunKeeps

\* identify goes on without words that cannot be read.
Unavailable(p) ==
  /\ job[p].pc = "asking" /\ job[p].request.what \in Identifications /\ Holds(p) /\ job[p].left > 1
  /\ GoesOn(p)
  /\ RunKeeps /\ UNCHANGED <<snapshot, tokens, replies>>

\* The guard, the read or a time limit fails.
RunFails(p) ==
  /\ job[p].pc # "idle" /\ job' = [job EXCEPT ![p] = Idle]
  /\ RunKeeps /\ UNCHANGED <<snapshot, tokens, replies>>

Next ==
  \/ \E k \in Keys \cup {None}, d \in 0..MaxChanges : d \in {details, details + 1} /\ Change(k, d)
  \/ ForgetSnapshot \/ Stop \/ Take
  \/ \E what \in Ranges \cup Identifications, previous \in 0..tokens :
       /\ what \in Identifications => previous = 0
       /\ PageReads(what, previous) \/ \E c \in Calls : Handle(c, what, previous)
  \/ \E c \in Calls : Expire(c) \/ GiveUp(c) \/ \E r \in replies : Receive(r, c)
  \/ \E r \in requests : Enqueue(r)
  \/ \E p \in Runners : Answer(p) \/ Hear(p) \/ Unavailable(p) \/ RunFails(p)

Spec == Init /\ [][Next]_vars

-----------------------------------------------------------------------------
(* A call that ends with words got those read for it, once, over the       *)
(* connection and with the details of the moment its request was admitted, *)
(* and compared, if at all, with words of the same range read under the    *)
(* same; whatever was repeated, late or changed on the way                 *)
(* (register_tools.py:98, ha_features.py:387, register_diagnostics.py:88). *)
AnsweredByItsOwnRead ==
  \A c \in Calls : result[c] \notin {None, Failed} =>
    /\ result[c].id = c /\ runs[c] = 1
    /\ result[c].told \subseteq {admitted[c]}
    /\ result[c].with # None =>
         result[c].with.told = result[c].told /\ result[c].with.range = result[c].range

=============================================================================
