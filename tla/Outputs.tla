------------------------------- MODULE Outputs --------------------------------
(***************************************************************************)
(* The way of a record from the relay to the outputs: the relay's queue of *)
(* observations (relay.py), the decoding observer and one bounded queue    *)
(* with one worker per output (pipeline.py, native_outputs.py), and the    *)
(* user's extension in a process of its own (extensions.py).               *)
(*                                                                         *)
(* A full queue gives up its oldest entry.  A worker delivers one reading  *)
(* at a time and awaits the delivery; a failure is counted and forgotten.  *)
(* Closing waits for the queues to be worked off, or for a deadline.       *)
(* Records are numbered in the order in which the relay read them.         *)
(***************************************************************************)
EXTENDS Integers, Sequences

CONSTANTS
  Plain,            \* outputs other than the extension
  Extension,        \* the output that runs in its own process
  QueueSize,        \* queue_size, of every queue
  Silent,           \* readings the publication policy gives no message for
  MaxRecords        \* bound: records read by the relay

Destinations == Plain \cup {Extension}

ASSUME OutputsAssumption ==
  /\ QueueSize \in Nat \ {0}
  /\ Extension \notin Plain
  /\ Silent \subseteq Nat \ {0}

VARIABLES
  records,       \* records read so far
  observations,  \* Relay._queue
  queue,         \* the queue of each output
  unfinished,    \* its count of unfinished tasks, which join waits for
  current,       \* the reading each worker is delivering, 0 for none
  offered,       \* readings put in each queue so far
  delivered,     \* those an output has taken, in order
  failures,      \* the count of failed deliveries
  dropped,       \* the count of readings given up
  stage,         \* "open", "joining", "stopped"
  process,       \* the extension's process: "none", "idle", "busy", "dead"
  inbox,         \* the pipe to it
  outbox,        \* the pipe from it: the answers
  awaiting,      \* whether the worker's thread has sent its request
  handled        \* history: readings the extension has handled well

queues == <<records, observations, offered, stage>>
work == <<queue, unfinished, current, delivered, failures, dropped>>
pipe == <<process, inbox, outbox, awaiting, handled>>
vars == <<queues, work, pipe>>

Init ==
  /\ records = 0 /\ observations = <<>>
  /\ queue = [d \in Destinations |-> <<>>]
  /\ unfinished = [d \in Destinations |-> 0] /\ current = [d \in Destinations |-> 0]
  /\ offered = [d \in Destinations |-> 0] /\ delivered = [d \in Destinations |-> <<>>]
  /\ failures = [d \in Destinations |-> 0] /\ dropped = [d \in Destinations |-> 0]
  /\ stage = "open"
  /\ process = "none" /\ inbox = <<>> /\ outbox = <<>> /\ awaiting = FALSE /\ handled = {}

-----------------------------------------------------------------------------
(* Observing.                                                              *)

Full(q) == Len(q) = QueueSize
\* What is left of a queue when room has been made for one more.
Roomy(q) == IF Full(q) THEN Tail(q) ELSE q

\* The relay has read a record and queues it without waiting.
Enqueue ==
  /\ stage = "open" /\ records < MaxRecords
  /\ records' = records + 1
  /\ observations' = Append(Roomy(observations), records + 1)
  /\ UNCHANGED <<offered, stage, work, pipe>>

\* The observer takes a record that holds no reading any output wants.
ObserveNothing ==
  /\ stage = "open" /\ observations # <<>>
  /\ observations' = Tail(observations)
  /\ UNCHANGED <<records, offered, stage, work, pipe>>

\* Defect: a reading that gives way to another stays unfinished.
UnfinishedAfterEveryPut == [d \in Destinations |-> unfinished[d] + 1]

\* The unfinished tasks after putting one more: one that gives way is done.
UnfinishedAfterPut ==
  [d \in Destinations |-> unfinished[d] + (IF Full(queue[d]) THEN 0 ELSE 1)]

\* The observer decodes a record and hands its reading to every output.
Observe ==
  /\ stage = "open" /\ observations # <<>>
  /\ observations' = Tail(observations)
  /\ queue' = [d \in Destinations |-> Append(Roomy(queue[d]), Head(observations))]
  /\ unfinished' = UnfinishedAfterPut
  /\ dropped' = [d \in Destinations |-> dropped[d] + (IF Full(queue[d]) THEN 1 ELSE 0)]
  /\ offered' = [d \in Destinations |-> offered[d] + 1]
  /\ UNCHANGED <<records, stage, current, delivered, failures, pipe>>

-----------------------------------------------------------------------------
(* The workers.                                                            *)

Working == stage # "stopped"

\* Defect: one worker serves all outputs.
TakeAlone(d) ==
  /\ Working /\ queue[d] # <<>>
  /\ \A e \in Destinations : current[e] = 0
  /\ current' = [current EXCEPT ![d] = Head(queue[d])]
  /\ queue' = [queue EXCEPT ![d] = Tail(@)]
  /\ UNCHANGED <<queues, unfinished, delivered, failures, dropped, pipe>>

Take(d) ==
  /\ Working /\ current[d] = 0 /\ queue[d] # <<>>
  /\ current' = [current EXCEPT ![d] = Head(queue[d])]
  /\ queue' = [queue EXCEPT ![d] = Tail(@)]
  /\ UNCHANGED <<queues, unfinished, delivered, failures, dropped, pipe>>

\* task_done, whatever came of the delivery.
Done(d) ==
  /\ current' = [current EXCEPT ![d] = 0]
  /\ unfinished' = [unfinished EXCEPT ![d] = @ - 1]

Succeed(d) ==
  /\ Done(d)
  /\ delivered' = [delivered EXCEPT ![d] = Append(@, current[d])]
  /\ UNCHANGED <<queue, failures, dropped>>

\* Defect: a reading that could not be delivered is queued again.
FailAndRetry(d) ==
  /\ current' = [current EXCEPT ![d] = 0]
  /\ queue' = [queue EXCEPT ![d] = Append(Roomy(@), current[d])]
  /\ unfinished' = [unfinished EXCEPT ![d] = @ - (IF Full(queue[d]) THEN 1 ELSE 0)]
  /\ dropped' = [dropped EXCEPT ![d] = @ + (IF Full(queue[d]) THEN 1 ELSE 0)]
  /\ UNCHANGED <<delivered, failures>>

Fail(d) ==
  /\ Done(d)
  /\ failures' = [failures EXCEPT ![d] = @ + 1]
  /\ UNCHANGED <<queue, delivered, dropped>>

\* A broker or an HTTP endpoint answers, refuses, or lets the deadline pass.
Deliver(d) ==
  /\ Working /\ d \in Plain /\ current[d] # 0
  /\ Succeed(d) \/ Fail(d)
  /\ UNCHANGED <<queues, pipe>>

-----------------------------------------------------------------------------
(* The extension: publish in the worker's thread, _worker in the process.  *)

\* publish starts a process if there is none.  Sending to one that has ended
\* fails, and closes the connection.
Request ==
  /\ Working /\ current[Extension] \notin Silent \cup {0} /\ ~awaiting
  /\ process # "dead"
  /\ process' = IF process = "none" THEN "idle" ELSE process
  /\ inbox' = Append(inbox, current[Extension])
  /\ awaiting' = TRUE
  /\ UNCHANGED <<queues, work, outbox, handled>>

\* Defect: the process is kept when its answer is late.
KeepProcess ==
  /\ awaiting' = FALSE
  /\ UNCHANGED <<process, inbox, outbox, handled>>

\* close: the process is stopped, or killed, and both pipes go with it.
CloseProcess ==
  /\ process' = "none" /\ inbox' = <<>> /\ outbox' = <<>> /\ awaiting' = FALSE
  /\ UNCHANGED handled

RequestFails ==
  /\ Working /\ current[Extension] \notin Silent \cup {0} /\ ~awaiting
  /\ process = "dead"
  /\ Fail(Extension)
  /\ CloseProcess
  /\ UNCHANGED queues

\* The extension is not troubled with a reading that has no message.
Skip ==
  /\ Working /\ current[Extension] \in Silent
  /\ Succeed(Extension)
  /\ UNCHANGED <<queues, pipe>>

\* An answer arrived: False is a failure, after which the process is kept.
Answered ==
  /\ Working /\ awaiting /\ outbox # <<>>
  /\ IF Head(outbox) THEN Succeed(Extension) ELSE Fail(Extension)
  /\ outbox' = Tail(outbox)
  /\ awaiting' = FALSE
  /\ UNCHANGED <<queues, process, inbox, handled>>

\* The deadline passed, or the process has gone.
NotAnswered ==
  /\ Working /\ awaiting /\ outbox = <<>>
  /\ Fail(Extension)
  /\ CloseProcess
  /\ UNCHANGED queues

Receive ==
  /\ process = "idle" /\ inbox # <<>>
  /\ process' = "busy"
  /\ UNCHANGED <<queues, work, inbox, outbox, awaiting, handled>>

Handle(well) ==
  /\ process = "busy"
  /\ process' = "idle"
  /\ inbox' = Tail(inbox)
  /\ outbox' = Append(outbox, well)
  /\ handled' = IF well THEN handled \cup {Head(inbox)} ELSE handled
  /\ UNCHANGED <<queues, work, awaiting>>

\* The process ends: its module cannot be imported, or it exits or crashes.
Die ==
  /\ process \in {"idle", "busy"}
  /\ process' = "dead"
  /\ UNCHANGED <<queues, work, inbox, outbox, awaiting, handled>>

-----------------------------------------------------------------------------
(* Closing.  The relay has stopped by then: what it had queued is lost.    *)

Close ==
  /\ stage = "open"
  /\ stage' = "joining"
  /\ observations' = <<>>
  /\ UNCHANGED <<records, offered, work, pipe>>

Finished == \A d \in Destinations : unfinished[d] = 0

\* The workers are cancelled when all is done, or when the deadline passes.
Stop(late) ==
  /\ stage = "joining"
  /\ late \/ Finished
  /\ stage' = "stopped"
  /\ current' = [d \in Destinations |-> 0]
  /\ unfinished' = [d \in Destinations |-> Len(queue[d])]
  /\ CloseProcess
  /\ UNCHANGED <<records, observations, offered, queue, delivered, failures, dropped>>

Next ==
  \/ Enqueue \/ Observe \/ ObserveNothing
  \/ \E d \in Destinations : Take(d)
  \/ \E d \in Plain : Deliver(d)
  \/ Skip \/ Request \/ RequestFails \/ Answered \/ NotAnswered
  \/ Receive \/ (\E well \in BOOLEAN : Handle(well)) \/ Die
  \/ Close \/ \E late \in BOOLEAN : Stop(late)

Spec == Init /\ [][Next]_vars

\* The worker of a plain output runs, and its deliveries end; nothing is
\* assumed of the extension, its process or its worker.
FairSpec ==
  /\ Spec
  /\ \A d \in Plain : WF_vars(Take(d)) /\ WF_vars(Deliver(d))

-----------------------------------------------------------------------------
(* Properties.                                                             *)

InFlight(d) == IF current[d] = 0 THEN 0 ELSE 1

\* The counters shown to the user account for every reading until the workers
\* are stopped, and join waits for exactly the readings still to be delivered:
\* a queue that overflowed must not keep the shutdown waiting.
AccountsBalance ==
  \A d \in Destinations :
    /\ unfinished[d] = Len(queue[d]) + InFlight(d)
    /\ stage # "stopped" =>
         offered[d] = Len(delivered[d]) + failures[d] + dropped[d] + unfinished[d]

\* No output gets a reading after a later one, whatever was dropped on the
\* way in either queue, failed or timed out.
DeliveredInOrder ==
  \A d \in Destinations : \A i, j \in DOMAIN delivered[d] :
    i < j => delivered[d][i] < delivered[d][j]

\* What is reported as delivered to the extension, it handled: an answer that
\* came too late is never taken for the answer to another reading.
ExtensionAnswersItsOwnReading ==
  \A i \in DOMAIN delivered[Extension] :
    delivered[Extension][i] \in handled \cup Silent

\* An extension that hangs for ever, or answers nothing, does not keep the
\* other outputs from being served: their readings are delivered, counted as
\* failed, or dropped for newer ones.
Waiting(d, n) == n = current[d] \/ \E i \in DOMAIN queue[d] : queue[d][i] = n
OthersKeepDelivering ==
  \A d \in Plain, n \in 1 .. MaxRecords :
    Waiting(d, n) ~> (~Waiting(d, n) \/ stage = "stopped")
=============================================================================
