----------------------------- MODULE RelayCommands -----------------------------
(***************************************************************************)
(* Commands to one datalogger (Relay.command, the forwarded commands of    *)
(* _cloud_frames, _set_clock, _command_response and _recover_cloud in      *)
(* relay.py).                                                              *)
(*                                                                         *)
(* Local requests, the relay's own clock commands and commands of the      *)
(* Growatt cloud share one connection and its 16-bit transaction numbers.  *)
(* A number the relay has used is never used again on that connection, so  *)
(* a delayed reply cannot reach another request; a command of the cloud    *)
(* whose number the relay has taken is translated.                         *)
(*                                                                         *)
(* A local request holds command_lock from its turn to its answer, and     *)
(* send_lock while it is written; the recovery task takes both before it   *)
(* asks the datalogger to reconnect.  An action is the code between two    *)
(* awaits.  Time is left out: a deadline may pass whenever it is pending.  *)
(***************************************************************************)
EXTENDS Integers, FiniteSets

CONSTANTS
  Callers,            \* local requests, each a call of Relay.command
  N,                  \* transaction numbers are 1..N, in the code 65535
  Recovery,           \* the recovery task runs: settings.cloud_recovery_seconds > 0
  MaxCloudCommands,   \* bound: commands the cloud sends
  MaxClocks,          \* bound: clock commands the relay sends
  MaxReplies          \* bound: replies the datalogger sends

Others == {"cloud", "clock", "recovery"}
Actors == Callers \cup Others
Seqs == 1..N

ASSUME CommandsAssumption ==
  /\ N \in Nat \ {0}
  /\ Recovery \in BOOLEAN
  /\ Callers \cap (Others \cup {"free"}) = {}
  /\ MaxCloudCommands \in Nat /\ MaxClocks \in Nat /\ MaxReplies \in Nat

\* A command as the datalogger sees it, with who sent it and, for the cloud,
\* the number the cloud gave it (0 for the others).
Commands == [seq : Seqs, owner : Actors, tx : Seqs \cup {0}]

\* Where an actor awaits: its turn, the pause between commands, send_lock, the
\* drain of its write, the answer; the recovery task its next attempt, or
\* send_lock while it holds command_lock.
Places == {"idle", "queued", "paced", "sending", "draining", "waiting", "poll", "locked",
           "done"}

VARIABLES
  current,        \* the inverter's entry in _devices is this session
  writerOpen,     \* session.writer is not closing
  stage,          \* the session serves, has stopped its tasks, or is over
  cloud,          \* session.cloud
  nextSequence,   \* session.next_sequence
  localSeqs,      \* session.local_sequences
  cloudSeqs,      \* session.cloud_sequences
  translations,   \* session.translations, 0 where there is none
  commandLock,    \* session.command_lock: its holder or "free"
  sendLock,       \* session.send_lock: its holder or "free"
  pc,             \* where each actor awaits
  seqOf,          \* the number of the actor's command, 0 before it has one
  cloudTx,        \* the number the cloud gave the command being forwarded
  future,         \* the caller's future: unset, a reply or an error
  stale,          \* before_send of the caller would raise by now
  quiet,          \* thirty seconds have passed since last_command
  atDevice,       \* history: commands written to the datalogger
  toCloud,        \* history: replies forwarded to the cloud
  result,         \* history: the commands whose reply completed a request
  counts          \* commands of the cloud, clocks and replies so far

session == <<current, writerOpen, stage, cloud>>
numbers == <<nextSequence, localSeqs, cloudSeqs, translations>>
locks == <<commandLock, sendLock>>
actors == <<pc, seqOf, cloudTx, future, stale, quiet>>
history == <<atDevice, toCloud, result, counts>>
vars == <<session, numbers, locks, actors, history>>

Init ==
  /\ current = TRUE /\ writerOpen = TRUE /\ stage = "serving"
  /\ cloud \in BOOLEAN
  /\ nextSequence = N
  /\ localSeqs = {} /\ cloudSeqs = {}
  /\ translations = [s \in Seqs |-> 0]
  /\ commandLock = "free" /\ sendLock = "free"
  /\ pc = [a \in Actors |-> IF a = "recovery" /\ ~Recovery THEN "done" ELSE "idle"]
  /\ seqOf = [a \in Actors |-> 0]
  /\ cloudTx = 0
  /\ future = [c \in Callers |-> "none"]
  /\ stale = [c \in Callers |-> FALSE]
  /\ quiet = TRUE
  /\ atDevice = {} /\ toCloud = {}
  /\ result = [c \in Callers |-> {}]
  /\ counts = [cloud |-> 0, clock |-> 0, reply |-> 0]

-----------------------------------------------------------------------------
(* RelaySession.sequence.                                                  *)

\* Defect: numbers the cloud has used are not avoided.
UsedLocally == localSeqs

\* Defect: a number is free again once its request has ended.
UsedWhilePending ==
  {seqOf[c] : c \in {d \in Callers : pc[d] \in {"sending", "draining", "waiting"}}} \cup cloudSeqs

Used == localSeqs \cup cloudSeqs

\* The k-th number tried after next_sequence.
Tried(k) == ((nextSequence + k - 1) % N) + 1

\* sequence() returns s: the first number tried that is not in use.
Sequence(s) ==
  \E k \in 1..N : /\ s = Tried(k)
                  /\ s \notin Used
                  /\ \A j \in 1..(k - 1) : Tried(j) \in Used

\* sequence() finds no number: it closes the connection and raises.
Exhausted == \A s \in Seqs : s \in Used

Allocate(s) ==
  /\ Sequence(s)
  /\ nextSequence' = s
  /\ localSeqs' = localSeqs \cup {s}

-----------------------------------------------------------------------------
(* Relay.command.                                                          *)

\* Requests in session.pending.
Pending == {c \in Callers : pc[c] \in {"sending", "draining", "waiting"}}

\* Defect: an error leaves command_lock held.
ReleaseSendLock(a) ==
  /\ sendLock' = IF sendLock = a THEN "free" ELSE sendLock
  /\ UNCHANGED commandLock

\* A task leaves the blocks it is in, releasing the locks it holds.
Release(a) ==
  /\ commandLock' = IF commandLock = a THEN "free" ELSE commandLock
  /\ sendLock' = IF sendLock = a THEN "free" ELSE sendLock

Leave(a) == pc' = [pc EXCEPT ![a] = "done"] /\ Release(a)

CommandOf(a) ==
  [seq |-> seqOf[a], owner |-> a, tx |-> IF a = "cloud" THEN cloudTx ELSE 0]

\* The request is refused at once, or waits for its turn.
Call(c) ==
  /\ pc[c] = "idle"
  /\ pc' = [pc EXCEPT ![c] = IF current /\ writerOpen THEN "queued" ELSE "done"]
  /\ UNCHANGED <<session, numbers, locks, seqOf, cloudTx, future, stale, quiet, history>>

TakeTurn(c) ==
  /\ pc[c] = "queued" /\ commandLock = "free"
  /\ commandLock' = c
  /\ pc' = [pc EXCEPT ![c] = "paced"]
  /\ UNCHANGED <<session, numbers, sendLock, seqOf, cloudTx, future, stale, quiet, history>>

\* After the pause the request takes its number and enters pending.
Register(c) ==
  /\ pc[c] = "paced"
  /\ \E s \in Seqs :
       /\ Allocate(s)
       /\ seqOf' = [seqOf EXCEPT ![c] = s]
  /\ quiet' = FALSE
  /\ pc' = [pc EXCEPT ![c] = "sending"]
  /\ UNCHANGED <<session, cloudSeqs, translations, locks, cloudTx, future, stale, history>>

RegisterExhausted(c) ==
  /\ pc[c] = "paced" /\ Exhausted
  /\ writerOpen' = FALSE
  /\ Leave(c)
  /\ UNCHANGED <<current, stage, cloud, numbers, seqOf, cloudTx, future, stale, quiet, history>>

\* check_current, run once the lock is held: the session still owns the
\* inverter, its writer is open and the caller's own conditions hold.
IsCurrent(c) == current /\ writerOpen /\ ~stale[c]

WriteCommand(c) ==
  /\ pc[c] = "sending" /\ sendLock = "free"
  /\ IsCurrent(c)
  /\ sendLock' = c
  /\ atDevice' = atDevice \cup {CommandOf(c)}
  /\ pc' = [pc EXCEPT ![c] = "draining"]
  /\ UNCHANGED <<session, numbers, commandLock, seqOf, cloudTx, future, stale, quiet,
                 toCloud, result, counts>>

RefuseCommand(c) ==
  /\ pc[c] = "sending" /\ sendLock = "free"
  /\ ~IsCurrent(c)
  /\ Leave(c)
  /\ UNCHANGED <<session, numbers, seqOf, cloudTx, future, stale, quiet, history>>

CommandDrained(c) ==
  /\ pc[c] = "draining"
  /\ sendLock' = "free"
  /\ pc' = [pc EXCEPT ![c] = "waiting"]
  /\ UNCHANGED <<session, numbers, commandLock, seqOf, cloudTx, future, stale, quiet, history>>

\* The write stalls, or the request times out or sees its future set.
CommandFails(c) ==
  /\ pc[c] \in {"draining", "waiting"}
  /\ Leave(c)
  /\ UNCHANGED <<session, numbers, seqOf, cloudTx, future, stale, quiet, history>>

Return(c) ==
  /\ pc[c] = "waiting" /\ future[c] # "none"
  /\ Leave(c)
  /\ UNCHANGED <<session, numbers, seqOf, cloudTx, future, stale, quiet, history>>

\* The caller's own deadline passes and cancels the request where it awaits.
Cancelled(c) ==
  /\ pc[c] \in {"queued", "paced", "sending", "draining", "waiting"}
  /\ Leave(c)
  /\ UNCHANGED <<session, numbers, seqOf, cloudTx, future, stale, quiet, history>>

\* What before_send checks ceases to hold, or its expiry passes; that matters
\* only once the request is about to be written.
BecomesStale(c) ==
  /\ pc[c] = "sending" /\ ~stale[c]
  /\ stale' = [stale EXCEPT ![c] = TRUE]
  /\ UNCHANGED <<session, numbers, locks, pc, seqOf, cloudTx, future, quiet, history>>

-----------------------------------------------------------------------------
(* Commands of the cloud and the relay's clock commands.                   *)

\* A command arrives from the cloud under the number tx; a number the relay has
\* used itself is translated.
CloudCommand(tx) ==
  /\ pc["cloud"] = "idle" /\ cloud /\ stage = "serving"
  /\ counts["cloud"] < MaxCloudCommands
  /\ counts' = [counts EXCEPT !["cloud"] = @ + 1]
  /\ cloudSeqs' = cloudSeqs \cup {tx}
  /\ cloudTx' = tx
  /\ \/ /\ tx \notin localSeqs
        /\ seqOf' = [seqOf EXCEPT !["cloud"] = tx]
        /\ UNCHANGED <<nextSequence, localSeqs, translations>>
     \/ /\ tx \in localSeqs
        /\ \E s \in Seqs :
             /\ Allocate(s)
             /\ seqOf' = [seqOf EXCEPT !["cloud"] = s]
             /\ translations' = [translations EXCEPT ![s] = tx]
  /\ pc' = [pc EXCEPT !["cloud"] = "sending"]
  /\ UNCHANGED <<session, locks, future, stale, quiet, atDevice, toCloud, result>>

\* No number is left to translate to: the connection closes and the task ends.
CloudCommandExhausted(tx) ==
  /\ pc["cloud"] = "idle" /\ cloud /\ stage = "serving"
  /\ tx \in localSeqs
  /\ Exhausted
  /\ cloudSeqs' = cloudSeqs \cup {tx}
  /\ writerOpen' = FALSE
  /\ pc' = [pc EXCEPT !["cloud"] = "done"]
  /\ UNCHANGED <<current, stage, cloud, nextSequence, localSeqs, translations, locks, seqOf,
                 cloudTx, future, stale, quiet, history>>

\* A task of the session sends a clock command (_set_clock).
SetClock ==
  /\ pc["clock"] = "idle" /\ stage = "serving"
  /\ counts["clock"] < MaxClocks
  /\ counts' = [counts EXCEPT !["clock"] = @ + 1]
  /\ \E s \in Seqs :
       /\ Allocate(s)
       /\ seqOf' = [seqOf EXCEPT !["clock"] = s]
  /\ pc' = [pc EXCEPT !["clock"] = "sending"]
  /\ UNCHANGED <<session, cloudSeqs, translations, locks, cloudTx, future, stale, quiet,
                 atDevice, toCloud, result>>

SetClockExhausted ==
  /\ pc["clock"] = "idle" /\ stage = "serving"
  /\ counts["clock"] < MaxClocks
  /\ Exhausted
  /\ writerOpen' = FALSE
  /\ pc' = [pc EXCEPT !["clock"] = "done"]
  /\ UNCHANGED <<current, stage, cloud, numbers, locks, seqOf, cloudTx, future, stale, quiet,
                 history>>

\* A command without before_send is written whatever became of the session; on
\* a closed connection it goes nowhere.
Write(a) ==
  /\ a \in {"cloud", "clock"}
  /\ pc[a] = "sending" /\ sendLock = "free"
  /\ sendLock' = a
  /\ atDevice' = IF writerOpen THEN atDevice \cup {CommandOf(a)} ELSE atDevice
  /\ pc' = [pc EXCEPT ![a] = "draining"]
  /\ UNCHANGED <<session, numbers, commandLock, seqOf, cloudTx, future, stale, quiet,
                 toCloud, result, counts>>

Drained(a) ==
  /\ a \in {"cloud", "clock"}
  /\ pc[a] = "draining"
  /\ sendLock' = "free"
  /\ pc' = [pc EXCEPT ![a] = "idle"]
  /\ UNCHANGED <<session, numbers, commandLock, seqOf, cloudTx, future, stale, quiet, history>>

\* The write stalls.  The cloud task falls back before it ends.
DrainFails(a) ==
  /\ a \in {"cloud", "clock"}
  /\ pc[a] = "draining"
  /\ Leave(a)
  /\ cloud' = (cloud /\ a # "cloud")
  /\ UNCHANGED <<current, writerOpen, stage, numbers, seqOf, cloudTx, future, stale, quiet,
                 history>>

-----------------------------------------------------------------------------
(* Replies of the datalogger: _device_frames and _command_response.        *)

\* The reply to a translated command goes to the cloud under its own number,
\* while the cloud is connected, and the translation is used up.
ReplyTranslated(m) ==
  /\ translations[m.seq] # 0
  /\ translations' = [translations EXCEPT ![m.seq] = 0]
  /\ toCloud' = IF cloud THEN toCloud \cup {[tx |-> translations[m.seq], command |-> m]}
                ELSE toCloud
  /\ UNCHANGED <<future, result>>

\* Any other reply under a number of the relay stays here.  It completes the
\* pending request it belongs to, unless its contents do not match.
ReplyLocal(m) ==
  /\ translations[m.seq] = 0
  /\ m.seq \in localSeqs
  /\ \E matches \in BOOLEAN :
       LET completed == {c \in Pending : matches /\ seqOf[c] = m.seq /\ future[c] = "none"}
       IN /\ future' = [c \in Callers |-> IF c \in completed THEN "reply" ELSE future[c]]
          /\ result' = [c \in Callers |-> IF c \in completed THEN result[c] \cup {m}
                                          ELSE result[c]]
  /\ UNCHANGED <<translations, toCloud>>

\* Defect: a reply no request waits for any more is forwarded.
ReplyForwardedLate(m) ==
  /\ translations[m.seq] = 0
  /\ \A c \in Pending : seqOf[c] # m.seq
  /\ toCloud' = IF cloud THEN toCloud \cup {[tx |-> m.seq, command |-> m]} ELSE toCloud
  /\ UNCHANGED <<translations, future, result>>

ReplyForwarded(m) ==
  /\ translations[m.seq] = 0
  /\ m.seq \notin localSeqs
  /\ toCloud' = IF cloud THEN toCloud \cup {[tx |-> m.seq, command |-> m]} ELSE toCloud
  /\ UNCHANGED <<translations, future, result>>

\* The datalogger answers a command it received: at any time later, in any
\* order, and perhaps more than once.
Reply(m) ==
  /\ stage = "serving"
  /\ counts["reply"] < MaxReplies
  /\ counts' = [counts EXCEPT !["reply"] = @ + 1]
  /\ ReplyTranslated(m) \/ ReplyLocal(m) \/ ReplyForwarded(m)
  /\ UNCHANGED <<session, nextSequence, localSeqs, cloudSeqs, locks, pc, seqOf, cloudTx,
                 stale, quiet, atDevice>>

-----------------------------------------------------------------------------
(* _recover_cloud.                                                         *)

\* The cloud answers the probe of a session that has become local.
ProbeSucceeds ==
  /\ pc["recovery"] = "idle" /\ ~cloud /\ writerOpen
  /\ pc' = [pc EXCEPT !["recovery"] = "poll"]
  /\ UNCHANGED <<session, numbers, locks, seqOf, cloudTx, future, stale, quiet, history>>

\* Defect: while it waits for requests to finish it does not watch the writer.
RecoveryStopsIdle ==
  /\ pc["recovery"] = "idle" /\ ~writerOpen
  /\ pc' = [pc EXCEPT !["recovery"] = "done"]
  /\ UNCHANGED <<session, numbers, locks, seqOf, cloudTx, future, stale, quiet, history>>

\* The loops end with the connection.
RecoveryStops ==
  /\ pc["recovery"] \in {"idle", "poll"} /\ ~writerOpen
  /\ pc' = [pc EXCEPT !["recovery"] = "done"]
  /\ UNCHANGED <<session, numbers, locks, seqOf, cloudTx, future, stale, quiet, history>>

\* Defect: it does not wait for command_lock.
RecoveryJumpsQueue ==
  /\ pc["recovery"] = "poll" /\ writerOpen
  /\ pc' = [pc EXCEPT !["recovery"] = "locked"]
  /\ UNCHANGED <<session, numbers, locks, seqOf, cloudTx, future, stale, quiet, history>>

RecoveryTakesTurn ==
  /\ pc["recovery"] = "poll" /\ writerOpen
  /\ commandLock = "free"
  /\ commandLock' = "recovery"
  /\ pc' = [pc EXCEPT !["recovery"] = "locked"]
  /\ UNCHANGED <<session, numbers, sendLock, seqOf, cloudTx, future, stale, quiet, history>>

\* With both locks: the connection is closed if commands have been quiet.
Reconnect ==
  /\ pc["recovery"] = "locked" /\ sendLock = "free"
  /\ quiet /\ Pending = {}
  /\ writerOpen' = FALSE
  /\ Leave("recovery")
  /\ UNCHANGED <<current, stage, cloud, numbers, seqOf, cloudTx, future, stale, quiet, history>>

TryAgain ==
  /\ pc["recovery"] = "locked" /\ sendLock = "free"
  /\ ~(quiet /\ Pending = {})
  /\ pc' = [pc EXCEPT !["recovery"] = "poll"]
  /\ Release("recovery")
  /\ UNCHANGED <<session, numbers, seqOf, cloudTx, future, stale, quiet, history>>

\* Thirty seconds pass without a local command.
QuietAgain ==
  /\ ~quiet
  /\ quiet' = TRUE
  /\ UNCHANGED <<session, numbers, locks, pc, seqOf, cloudTx, future, stale, history>>

-----------------------------------------------------------------------------
(* The session around them.                                                *)

\* The session falls back: the cloud is out.
CloudLost ==
  /\ cloud
  /\ cloud' = FALSE
  /\ UNCHANGED <<current, writerOpen, stage, numbers, locks, actors, history>>

\* A newer connection takes the inverter over (_identify).
TakenOver ==
  /\ current /\ writerOpen
  /\ current' = FALSE /\ writerOpen' = FALSE
  /\ UNCHANGED <<stage, cloud, numbers, locks, actors, history>>

\* The session's task enters its finally block, which cancels the tasks of the
\* session and waits for them.  Nothing is read from the datalogger any more,
\* but requests may still be written.
SessionStops ==
  /\ stage = "serving"
  /\ stage' = "stopped" /\ cloud' = FALSE
  /\ pc' = [a \in Actors |-> IF a \in Others THEN "done" ELSE pc[a]]
  /\ commandLock' = IF commandLock \in Others THEN "free" ELSE commandLock
  /\ sendLock' = IF sendLock \in Others THEN "free" ELSE sendLock
  /\ UNCHANGED <<current, writerOpen, numbers, seqOf, cloudTx, future, stale, quiet, history>>

\* It removes its entries, fails the requests that wait for an answer and closes
\* the writer.
SessionEnds ==
  /\ stage = "stopped"
  /\ stage' = "over" /\ current' = FALSE /\ writerOpen' = FALSE
  /\ future' = [c \in Callers |-> IF c \in Pending /\ future[c] = "none" THEN "error"
                                  ELSE future[c]]
  /\ UNCHANGED <<cloud, numbers, locks, pc, seqOf, cloudTx, stale, quiet, history>>

\* Relay.close interrupts the finally block: only the writer is closed, and the
\* requests are left to their timeouts.
SessionAborted ==
  /\ stage = "stopped"
  /\ stage' = "over" /\ writerOpen' = FALSE
  /\ UNCHANGED <<current, cloud, numbers, locks, actors, history>>

\* Nothing is left to happen.
Finished == stage = "over" /\ (\A c \in Callers : pc[c] = "done") /\ UNCHANGED vars

CallerStep(c) ==
  \/ Call(c) \/ TakeTurn(c) \/ Register(c) \/ RegisterExhausted(c)
  \/ WriteCommand(c) \/ RefuseCommand(c) \/ CommandDrained(c) \/ CommandFails(c)
  \/ Return(c) \/ Cancelled(c) \/ BecomesStale(c)

Next ==
  \/ \E c \in Callers : CallerStep(c)
  \/ \E tx \in Seqs : CloudCommand(tx) \/ CloudCommandExhausted(tx)
  \/ SetClock \/ SetClockExhausted
  \/ \E a \in {"cloud", "clock"} : Write(a) \/ Drained(a) \/ DrainFails(a)
  \/ \E m \in atDevice : Reply(m)
  \/ ProbeSucceeds \/ RecoveryStops \/ RecoveryTakesTurn \/ Reconnect \/ TryAgain \/ QuietAgain
  \/ CloudLost \/ TakenOver
  \/ SessionStops \/ SessionEnds \/ SessionAborted
  \/ Finished

Spec == Init /\ [][Next]_vars

\* Fairness: every await but a lock has a deadline (the pause, write_seconds,
\* command_seconds, the recovery task's sleeps), time passes, and asyncio grants
\* its locks in the order they were asked for.
Fairness ==
  /\ \A c \in Callers :
       /\ SF_vars(TakeTurn(c) \/ WriteCommand(c) \/ RefuseCommand(c))
       /\ WF_vars(Register(c) \/ RegisterExhausted(c) \/ CommandDrained(c)
                   \/ CommandFails(c) \/ Return(c))
  /\ \A a \in {"cloud", "clock"} : SF_vars(Write(a) \/ Drained(a) \/ DrainFails(a))
  /\ SF_vars(RecoveryStops \/ RecoveryTakesTurn \/ Reconnect \/ TryAgain)
  /\ WF_vars(QuietAgain)

FairSpec == Spec /\ Fairness

-----------------------------------------------------------------------------
(* Properties.                                                             *)

SessionType ==
  /\ current \in BOOLEAN /\ writerOpen \in BOOLEAN /\ stage \in {"serving", "stopped", "over"} /\ cloud \in BOOLEAN

NumbersType ==
  /\ nextSequence \in Seqs
  /\ localSeqs \in SUBSET Seqs /\ cloudSeqs \in SUBSET Seqs
  /\ translations \in [Seqs -> Seqs \cup {0}]

LocksType == commandLock \in Actors \cup {"free"} /\ sendLock \in Actors \cup {"free"}

ActorsType ==
  /\ pc \in [Actors -> Places]
  /\ seqOf \in [Actors -> Seqs \cup {0}] /\ cloudTx \in Seqs \cup {0}
  /\ future \in [Callers -> {"none", "reply", "error"}]
  /\ stale \in [Callers -> BOOLEAN] /\ quiet \in BOOLEAN

HistoryType ==
  /\ atDevice \in SUBSET Commands
  /\ toCloud \in SUBSET [tx : Seqs, command : Commands]
  /\ result \in [Callers -> SUBSET Commands]
  /\ counts \in [{"cloud", "clock", "reply"} -> Nat]

TypeOK == SessionType /\ NumbersType /\ LocksType /\ ActorsType /\ HistoryType

\* Two commands never reach the datalogger under one number, so that a reply,
\* however late, names the command it answers.
DistinctOnTheWire == \A m, n \in atDevice : m.seq = n.seq => m = n

\* "Late local replies must never reach Growatt or another local request"
\* (relay.py): the cloud sees replies to its own commands only, each under the
\* number the cloud gave it.
RepliesGoHome ==
  \A f \in toCloud : f.command.owner = "cloud" /\ f.command.tx = f.tx

\* A request is completed by the reply to its own command, and once.
AnsweredByOwnReply ==
  \A c \in Callers : result[c] \subseteq {CommandOf(c)}

\* What makes these three inductive.  It is about every command issued, written
\* or about to be: its number is taken, and taken by the relay unless it is the
\* cloud's own; no two share a number; a translation belongs to its command;
\* what is about to be written has a number; and a request that has no number
\* yet has no result either.
Issued == atDevice \cup {CommandOf(a) : a \in {x \in Actors : seqOf[x] # 0}}

NumbersTaken ==
  \A m \in Issued :
    m.seq \in Used /\ (m.seq \notin localSeqs => m.owner = "cloud" /\ m.tx = m.seq)

IssuedDistinct == \A m, n \in Issued : m.seq = n.seq => m = n

TranslationsRight ==
  /\ \A s \in Seqs : translations[s] # 0 => s \in localSeqs
  /\ \A m \in Issued : translations[m.seq] # 0 => m.owner = "cloud" /\ m.tx = translations[m.seq]

NumberedToSend == \A a \in Actors : pc[a] = "sending" => seqOf[a] # 0

NoEarlyResult ==
  \A c \in Callers : pc[c] \in {"idle", "queued", "paced"} => result[c] = {}

\* command_lock is held from a request's turn to its end, and by the recovery
\* task while it is about to ask for the reconnection.
CommandLockHeld ==
  /\ \A c \in Callers :
       pc[c] \in {"paced", "sending", "draining", "waiting"} => commandLock = c
  /\ pc["recovery"] = "locked" => commandLock = "recovery"

IInv ==
  /\ TypeOK /\ NumbersTaken /\ IssuedDistinct /\ TranslationsRight
  /\ NumberedToSend /\ NoEarlyResult /\ CommandLockHeld
  /\ RepliesGoHome /\ AnsweredByOwnReply

\* Recovery never cuts off a local request that has begun, not even one that
\* is still pausing and has not entered pending.
RecoveryWaitsForCommands ==
  [][Reconnect =>
       \A c \in Callers : pc[c] \notin {"paced", "sending", "draining", "waiting"}]_vars

\* Every request ends, whatever becomes of the session and of its answer.
EveryCommandEnds == \A c \in Callers : pc[c] = "queued" ~> pc[c] = "done"

\* Once a probe has succeeded the datalogger is asked to reconnect, or has
\* disconnected: waiting for local requests does not go on for ever.
RecoveryFinishes == pc["recovery"] = "poll" ~> pc["recovery"] = "done"
=============================================================================
