---------------------------- MODULE NativeReceiver ----------------------------
(***************************************************************************)
(* Receiving inside Home Assistant (native_receiver.py, direct.py): the    *)
(* relay or the stand-alone server hands decoded frames to observe, one at *)
(* a time and each under a time limit; observe keeps the newest reading of *)
(* every inverter, saves all of them in a thread and then tells the        *)
(* listeners.  A save whose observer ran out of time goes on without it,   *)
(* also while a later receiver of the same Home Assistant runs.            *)
(*                                                                         *)
(* A reading is its number, 0 stands for none.  Frames that are not        *)
(* readings or cannot be decoded, which are only counted, are left out,    *)
(* and so are the optional outputs: NativeOutputs.publish never waits.     *)
(***************************************************************************)
EXTENDS Naturals, Sequences, FiniteSets, Functions

CONSTANTS
  Inverters,
  MAX_DEVICES,
  MaxReadings,      \* bound: readings that arrive
  MaxStragglers,    \* bound: saves that outlive their observers
  RecentEvents,     \* buffered records remembered, 256 in the code
  BufferedRecords   \* records that were stored while the datalogger was offline

VARIABLES
  running,      \* the hub is started: the receiver listens, the hub is subscribed
  snapshots,    \* receiver.snapshots
  live,         \* receiver._live_snapshots
  observing,    \* the inverter whose reading observe is saving, or none
  saving,       \* the readings that save writes
  stragglers,   \* readings written by saves whose observers were cut off
  disk,         \* the readings on disk
  cacheError,   \* receiver.cache_error
  shown,        \* what the hub was last told: the number and whether it is restored
  recent,       \* hub.recent_events
  arrived,      \* readings so far
  cutOff,       \* history: inverters whose last reading the listeners were not told
  unread        \* history: the receiver lacks readings of the disk: they could not
                \* be read at its start, or a straggler of the former one wrote them

vars == <<running, snapshots, live, observing, saving, stragglers, disk, cacheError, shown,
          recent, arrived, cutOff, unread>>
books == <<snapshots, live, arrived>>

NoReadings == [i \in Inverters |-> 0]
Nothing == [i \in Inverters |-> [number |-> 0, restored |-> FALSE]]
Known == {i \in Inverters : snapshots[i] # 0}
Free == observing = {}

Init ==
  /\ running = FALSE
  /\ snapshots = NoReadings /\ live = {} /\ observing = {} /\ saving = NoReadings
  /\ stragglers = {} /\ disk = NoReadings /\ cacheError = FALSE
  /\ shown = Nothing /\ recent = <<>>
  /\ arrived = 0 /\ cutOff = {} /\ unread = FALSE

-----------------------------------------------------------------------------
Live_Replay(kept, lately) == [i \in Inverters |-> [number |-> kept[i], restored |-> FALSE]]
\* subscribe tells a new listener every reading kept, as restored or as live.
Replay(kept, lately) ==
  [i \in Inverters |-> [number |-> kept[i], restored |-> kept[i] # 0 /\ i \notin lately]]

Empty_Restored(readable) == NoReadings
Restored(readable) == IF readable THEN disk ELSE NoReadings

\* A hub starts: its receiver restores what was saved, or starts empty when that
\* cannot be read, and listens; then the hub subscribes.
Start(readable) ==
  /\ ~running
  /\ running' = TRUE
  /\ snapshots' = Restored(readable)
  /\ cacheError' = ~readable /\ unread' = ~readable
  /\ live' = {} /\ cutOff' = {}
  /\ shown' = Replay(snapshots', {})
  /\ recent' = <<>>
  /\ UNCHANGED <<observing, saving, stragglers, disk, arrived>>

\* The first half of observe. A further inverter beyond MAX_DEVICES is passed over.
Observe(i) ==
  /\ running /\ Free /\ arrived < MaxReadings
  /\ i \in Known \/ Cardinality(Known) < MAX_DEVICES
  /\ arrived' = arrived + 1
  /\ snapshots' = [snapshots EXCEPT ![i] = arrived']
  /\ live' = live \cup {i}
  /\ observing' = {i} /\ saving' = snapshots'
  /\ UNCHANGED <<running, stragglers, disk, cacheError, shown, recent, cutOff, unread>>

Tell(i) ==
  /\ shown' = [shown EXCEPT ![i] = [number |-> snapshots[i], restored |-> FALSE]]
  /\ cutOff' = cutOff \ {i}

\* The second half, after the save succeeded or failed.
Saved(i, ok) ==
  /\ running /\ i \in observing
  /\ disk' = IF ok THEN saving ELSE disk
  /\ cacheError' = ~ok
  /\ Tell(i)
  /\ observing' = {} /\ saving' = NoReadings
  /\ UNCHANGED <<running, books, stragglers, recent, unread>>

\* The observer's time is up. Its thread saves on.
Abandon == IF Free THEN stragglers ELSE stragglers \cup {saving}

TimeLimit(i) ==
  /\ running /\ i \in observing /\ Cardinality(stragglers) < MaxStragglers
  /\ stragglers' = Abandon
  /\ cutOff' = cutOff \cup {i}
  /\ observing' = {} /\ saving' = NoReadings
  /\ UNCHANGED <<running, books, disk, cacheError, shown, recent, unread>>

StragglerEnds(copy, ok) ==
  /\ disk' = IF ok THEN copy ELSE disk
  /\ stragglers' = stragglers \ {copy}
  /\ unread' = (unread \/ (running /\ ok /\ \E i \in Inverters : copy[i] > snapshots[i]))
  /\ UNCHANGED <<running, books, observing, saving, cacheError, shown, recent, cutOff>>

\* A buffered record: never a reading, an event unless the same was one lately.
Buffered(r) ==
  /\ running /\ Free
  /\ r \notin Range(recent)
  /\ recent' = LET all == Append(recent, r)
               IN IF Len(all) > RecentEvents THEN Tail(all) ELSE all
  /\ UNCHANGED <<running, books, observing, saving, stragglers, disk, cacheError, shown, cutOff, unread>>

Stopped ==
  /\ running /\ running' = FALSE
  /\ snapshots' = NoReadings /\ live' = {} /\ observing' = {} /\ saving' = NoReadings
  /\ cacheError' = FALSE /\ shown' = Nothing /\ recent' = <<>>
  /\ cutOff' = {} /\ unread' = FALSE
  /\ UNCHANGED <<disk, arrived>>

\* The hub closes, to be built anew: the observer is cancelled, its thread is not.
Close == Cardinality(stragglers) < MaxStragglers /\ stragglers' = Abandon /\ Stopped

\* Home Assistant's process ends, and its threads with it.
Crash == stragglers' = {} /\ Stopped

Next ==
  \/ \E readable \in BOOLEAN : Start(readable)
  \/ \E i \in Inverters : Observe(i) \/ TimeLimit(i) \/ \E ok \in BOOLEAN : Saved(i, ok)
  \/ \E copy \in stragglers, ok \in BOOLEAN : StragglerEnds(copy, ok)
  \/ \E r \in BufferedRecords : Buffered(r)
  \/ Close \/ Crash

Spec == Init /\ [][Next]_vars

-----------------------------------------------------------------------------
(* The entities show the newest reading of every inverter, and as restored *)
(* exactly those that no upload brought since the start; the exceptions    *)
(* are the reading being saved, and one whose observer was cut off, which  *)
(* is kept but told to nobody (native_receiver.py:171-189).                *)
ShownIsNewest ==
  running => \A i \in Inverters :
    \/ shown[i] = [number |-> snapshots[i], restored |-> snapshots[i] # 0 /\ i \notin live]
    \/ i \in observing \cup cutOff /\ shown[i].number < snapshots[i]

SavedStep == \A i \in Inverters : disk'[i] < disk[i] => stragglers' # stragglers \/ unread

(* What is saved goes back to an older reading, or loses an inverter, only *)
(* when a save that outlived its observer ends after a later one, or the   *)
(* receiver never saw the reading: the file could not be read, or such a   *)
(* save of the receiver before it came later (native_receiver.py:107,179). *)
SavedNeverGoesBack == [][SavedStep]_vars

=============================================================================
