----------------------------- MODULE PartsProofs -----------------------------
(***************************************************************************)
(* Parts of the system that share no state, each for any values of its     *)
(* constants: the app's options, the receiver inside Home Assistant, the   *)
(* options of an entry, the reads for diagnosis, the controls without      *)
(* MQTT, the register reads and the polling over Modbus.                   *)
(***************************************************************************)
EXTENDS Integers, Sequences, FiniteSets, FiniteSetTheorems, SequenceTheorems, TLAPS

CONSTANTS
  Inverters,
  Profiles, Details, MaxEdits, MaxSaves,
  Windows, Ports, Choices, Connections, Destinations, Free,
  MAX_DEVICES, MaxReadings, MaxStragglers, RecentEvents, BufferedRecords,
  Calls, Page, Keys, Ranges, Identifications, IdentifyReads, MaxPending, MaxSeen, QueueSize,
  MaxTokens, MaxChanges, None,
  Settings, Offers, Jobs, Values, MaxConnections, MaxStates, Nothing,
  Ways, Kinds, Absent, MAX_WORDS, MaxRequests, MaxSends,
  Configured, WordBase, MaxTotal

VARIABLES
  stored, active, save, edits, saves, wanted, crossed, restored,
  running, snapshots, live, observing, saving, stragglers, disk, cacheError, shown, recent,
  arrived, cutOff, unread,
  kind, options, form, entry, reloads, chosen, missed, putBack, unheard,
  link, details, changes, pending, closed, result, requests, expired, seen, queue, job,
  snapshot, tokens, replies, admitted, runs,
  state, connections, held, objects, locked, entities, reused,
  transport, client, todo, asked, sends, unanswered, buffer, thread, values, unavailable,
  limit_reached,
  cfg, today, total, pc, words, covered, profile, detected, connected, straggler, still

App == INSTANCE AppOptions
Entry == INSTANCE EntryOptions
Native == INSTANCE NativeReceiver
Diag == INSTANCE Diagnostics
Direct == INSTANCE DirectControls
Reads == INSTANCE ModbusReads
Modbus == INSTANCE ModbusReceiver

-----------------------------------------------------------------------------
(* The app's options.                                                      *)

\* A save under way sends what it read but for one inverter; and once it has looked a
\* second time, what it read is what is stored, but where an edit crossed it.
AppInvariant ==
  /\ \E S : stored \in [Inverters -> S] /\ wanted \in [Inverters -> S]
  /\ "pc" \in DOMAIN save
  /\ App!ChoicesAreKept
  /\ save.pc \in {"look", "send"} =>
       \E S : /\ save.send \in [Inverters -> S]
              /\ \A i \in Inverters \ {save.inverter} : save.send[i] = save.read[i]
  /\ save.pc = "send" =>
       \A i \in Inverters : stored[i] = save.read[i] \/ i \in crossed

LEMMA AppStarts == App!Init => AppInvariant
  <1> SUFFICES ASSUME App!Init PROVE AppInvariant
    OBVIOUS
  <1>1. PICK o \in App!Option : stored = [i \in Inverters |-> o]
    BY DEF App!Init
  <1>2. stored \in [Inverters -> App!Option] /\ wanted = stored
    BY <1>1 DEF App!Init
  <1>3. save.pc = "idle" /\ "pc" \in DOMAIN save
    BY DEF App!Init, App!Idle
  <1> QED BY <1>2, <1>3 DEF AppInvariant, App!ChoicesAreKept

LEMMA AppKeeps == AppInvariant /\ [App!Next]_App!vars => AppInvariant'
  <1> SUFFICES ASSUME AppInvariant, [App!Next]_App!vars PROVE AppInvariant'
    OBVIOUS
  <1>1. PICK S : stored \in [Inverters -> S] /\ wanted \in [Inverters -> S]
    BY DEF AppInvariant
  <1>2. CASE UNCHANGED App!vars
    BY <1>2 DEF AppInvariant, App!vars, App!ChoicesAreKept
  <1>3. ASSUME NEW i \in Inverters, NEW o \in App!Option, App!Edit(i, o)
        PROVE  AppInvariant'
    <2> DEFINE T == S \cup {o}
    <2>1. stored' \in [Inverters -> T] /\ wanted' \in [Inverters -> T]
      BY <1>1, <1>3 DEF App!Edit
    <2>2. App!ChoicesAreKept'
      BY <1>1, <1>3 DEF App!Edit, App!ChoicesAreKept
    <2>3. save' = save
      BY <1>3 DEF App!Edit
    <2>4. save.pc = "send" => crossed' = crossed \cup {i}
                              /\ \A j \in Inverters \ {i} : stored'[j] = stored[j]
      BY <1>1, <1>3 DEF App!Edit
    <2> QED BY <2>1, <2>2, <2>3, <2>4 DEF AppInvariant
  <1>4. ASSUME NEW i \in Inverters, NEW how, NEW p, NEW d, App!Starts(i, how, p, d)
        PROVE  AppInvariant'
    <2>1. /\ save'.pc = "look" /\ "pc" \in DOMAIN save' /\ save'.inverter = i /\ save'.read = stored
          /\ save'.send = [stored EXCEPT ![i] = [profile |-> p, detail |-> d]]
          /\ UNCHANGED <<stored, wanted, crossed, restored>>
      BY <1>4 DEF App!Starts, App!Proposed
    <2>2. save'.send \in [Inverters -> S \cup {[profile |-> p, detail |-> d]}]
          /\ \A j \in Inverters \ {i} : save'.send[j] = stored[j]
      BY <1>1, <2>1
    <2> QED BY <1>1, <2>1, <2>2 DEF AppInvariant, App!ChoicesAreKept
  <1>5. CASE App!Look
    <2>1. UNCHANGED <<stored, wanted, crossed, restored>> /\ save.pc = "look"
      BY <1>5 DEF App!Look
    <2>2. CASE save' = App!Idle
      BY <2>1, <2>2 DEF AppInvariant, App!ChoicesAreKept, App!Idle
    <2>3. CASE App!Unchanged /\ save' = [save EXCEPT !.pc = "send"]
      <3>1. /\ DOMAIN save' = DOMAIN save /\ save'.send = save.send
            /\ save'.read = save.read /\ save'.inverter = save.inverter
        BY <2>3
      <3> QED BY <2>1, <2>3, <3>1 DEF AppInvariant, App!ChoicesAreKept, App!Unchanged
    <2> QED BY <1>5, <2>2, <2>3 DEF App!Look
  <1>6. CASE App!Send
    <2> DEFINE i == save.inverter
    <2>1. PICK given :
             /\ stored' = save.send /\ wanted' = [wanted EXCEPT ![i] = given]
             /\ restored' = IF given # save.send[i] THEN restored \cup {i} ELSE restored \ {i}
             /\ crossed' \in {crossed, crossed \ {i}}
      BY <1>6 DEF App!Send
    <2>2. save.pc = "send" /\ save' = [save EXCEPT !.pc = "apply"]
      BY <1>6 DEF App!Send
    <2>4. save'.pc = "apply" /\ DOMAIN save' = DOMAIN save
      BY <2>2 DEF AppInvariant
    <2>5. ASSUME NEW j \in Inverters
          PROVE  stored'[j] = wanted'[j] \/ j \in crossed' \cup restored'
      <3>1. CASE j = i
        <4>1. wanted'[i] = given /\ stored'[i] = save.send[i]
          BY <1>1, <2>1, <3>1
        <4> QED BY <2>1, <3>1, <4>1
      <3>2. CASE j # i
        <4>1. /\ stored'[j] = save.read[j] /\ wanted'[j] = wanted[j]
              /\ stored[j] = save.read[j] \/ j \in crossed
              /\ stored[j] = wanted[j] \/ j \in crossed \cup restored
          BY <1>1, <2>1, <2>2, <3>2 DEF AppInvariant, App!ChoicesAreKept
        <4>2. (j \in crossed => j \in crossed') /\ (j \in restored => j \in restored')
          BY <2>1, <3>2
        <4> QED BY <4>1, <4>2
      <3> QED BY <3>1, <3>2
    <2>6. PICK T : save.send \in [Inverters -> T]
      BY <2>2 DEF AppInvariant
    <2> DEFINE U == S \cup T \cup {given}
    <2>7. stored' \in [Inverters -> U] /\ wanted' \in [Inverters -> U]
      BY <1>1, <2>1, <2>6
    <2> HIDE DEF U, i
    <2>8. App!ChoicesAreKept'
      BY <2>5 DEF App!ChoicesAreKept
    <2> QED BY <2>4, <2>7, <2>8 DEF AppInvariant
  <1>7. CASE App!Apply \/ App!Fail \/ App!Restart
    <2>1. save' = App!Idle /\ UNCHANGED <<stored, wanted, crossed, restored>>
      BY <1>7 DEF App!Apply, App!Fail, App!Restart
    <2> QED BY <2>1 DEF AppInvariant, App!ChoicesAreKept, App!Idle
  <1>8. (\E i \in Inverters, p \in Profiles, d \in Details : App!SaveProfile(i, p, d)) => AppInvariant'
    BY <1>4 DEF App!SaveProfile
  <1>9. (\E i \in Inverters, d \in Details : App!SaveFirmware(i, d)) => AppInvariant'
    BY <1>4 DEF App!SaveFirmware
  <1> QED BY <1>2, <1>3, <1>5, <1>6, <1>7, <1>8, <1>9 DEF App!Next

\* Nobody's choice is undone by the app's save but in the two cases named.
THEOREM ChoicesStay == App!Spec => []App!ChoicesAreKept
  <1>1. AppInvariant => App!ChoicesAreKept
    BY DEF AppInvariant
  <1> QED BY <1>1, AppStarts, AppKeeps, PTL DEF App!Spec

-----------------------------------------------------------------------------
(* The receiver inside Home Assistant.                                     *)

\* Readings are numbered as they arrive, so none kept, saved or being saved is later
\* than the last one; and what the disk has, a receiver that read it has too.
Numbers == [Inverters -> 0..arrived]

NativeInvariant ==
  /\ arrived \in Nat /\ running \in BOOLEAN
  /\ snapshots \in Numbers /\ disk \in Numbers /\ stragglers \subseteq Numbers
  /\ shown \in [Inverters -> [number : 0..arrived, restored : BOOLEAN]]
  /\ live \subseteq Inverters /\ observing \subseteq live
  /\ \A i, j \in observing : i = j
  /\ observing # {} => running /\ saving = snapshots
  /\ running => \A i \in Inverters :
       /\ \/ shown[i] = [number |-> snapshots[i], restored |-> snapshots[i] # 0 /\ i \notin live]
          \/ i \in observing \cup cutOff /\ shown[i].number < snapshots[i]
       /\ unread \/ disk[i] <= snapshots[i]

LEMMA NativeStarts == Native!Init => NativeInvariant
  <1> SUFFICES ASSUME Native!Init PROVE NativeInvariant
    OBVIOUS
  <1>1. /\ arrived = 0 /\ running = FALSE /\ live = {} /\ observing = {} /\ stragglers = {}
        /\ snapshots = [i \in Inverters |-> 0] /\ disk = snapshots
        /\ shown = [i \in Inverters |-> [number |-> 0, restored |-> FALSE]]
    BY DEF Native!Init, Native!NoReadings, Native!Nothing
  <1>2. snapshots \in Numbers /\ disk \in Numbers
    BY <1>1 DEF Numbers
  <1>3. shown \in [Inverters -> [number : 0..arrived, restored : BOOLEAN]]
    BY <1>1
  <1> QED BY <1>1, <1>2, <1>3 DEF NativeInvariant

\* A later reading does not change which ones have been.
LEMMA NumbersGrow ==
  ASSUME arrived \in Nat, arrived' \in Nat, arrived <= arrived'
  PROVE  \A f \in Numbers : f \in Numbers'
  BY DEF Numbers

LEMMA NativeKeeps == NativeInvariant /\ [Native!Next]_Native!vars => NativeInvariant'
  <1> SUFFICES ASSUME NativeInvariant, [Native!Next]_Native!vars PROVE NativeInvariant'
    OBVIOUS
  <1>1. CASE UNCHANGED Native!vars
    BY <1>1 DEF Native!vars, NativeInvariant, Numbers
  <1>2. ASSUME NEW readable \in BOOLEAN, Native!Start(readable)
        PROVE  NativeInvariant'
    <2>1. /\ arrived' = arrived /\ disk' = disk /\ stragglers' = stragglers
          /\ observing' = observing /\ saving' = saving /\ live' = {} /\ running' = TRUE
          /\ unread' = ~readable /\ observing = {}
      BY <1>2 DEF Native!Start, NativeInvariant
    <2>2. snapshots' = IF readable THEN disk ELSE [i \in Inverters |-> 0]
      BY <1>2 DEF Native!Start, Native!Restored, Native!NoReadings
    <2>3. snapshots' \in Numbers /\ disk' \in Numbers /\ Numbers' = Numbers
      BY <2>1, <2>2 DEF NativeInvariant, Numbers
    <2>4. shown' = [i \in Inverters |-> [number |-> snapshots'[i], restored |-> snapshots'[i] # 0]]
      BY <1>2 DEF Native!Start, Native!Replay
    <2>5. shown' \in [Inverters -> [number : 0..arrived, restored : BOOLEAN]]
      BY <2>3, <2>4 DEF Numbers
    <2>6. ASSUME NEW i \in Inverters
          PROVE  /\ shown'[i] = [number |-> snapshots'[i],
                                 restored |-> snapshots'[i] # 0 /\ i \notin live']
                 /\ unread' \/ disk'[i] <= snapshots'[i]
      <3>1. shown'[i] = [number |-> snapshots'[i],
                         restored |-> snapshots'[i] # 0 /\ i \notin live']
        BY <2>1, <2>4
      <3>2. CASE readable
        <4>1. disk[i] \in Nat
          BY DEF NativeInvariant, Numbers
        <4>2. disk'[i] <= snapshots'[i]
          BY <2>1, <2>2, <3>2, <4>1
        <4> QED BY <3>1, <4>2
      <3>3. CASE ~readable
        BY <2>1, <3>1, <3>3
      <3> QED BY <3>2, <3>3
    <2> QED BY <2>1, <2>3, <2>5, <2>6 DEF NativeInvariant
  <1>3. ASSUME NEW i \in Inverters, Native!Observe(i)
        PROVE  NativeInvariant'
    <2>1. /\ arrived' = arrived + 1 /\ snapshots' = [snapshots EXCEPT ![i] = arrived']
          /\ live' = live \cup {i} /\ observing' = {i} /\ saving' = snapshots'
          /\ running /\ observing = {}
          /\ UNCHANGED <<running, stragglers, disk, shown, cutOff, unread>>
      BY <1>3 DEF Native!Observe, Native!Free
    <2>2. arrived \in Nat /\ arrived' \in Nat /\ arrived <= arrived'
      BY <2>1 DEF NativeInvariant
    <2>3. \A f \in Numbers : f \in Numbers'
      BY <2>2, NumbersGrow
    <2>4. snapshots' \in Numbers' /\ disk' \in Numbers' /\ stragglers' \subseteq Numbers'
      <3>1. snapshots \in Numbers'
        BY <2>3 DEF NativeInvariant
      <3>2. arrived' \in 0..arrived'
        BY <2>2
      <3>3. snapshots' \in Numbers'
        BY <2>1, <3>1, <3>2 DEF Numbers
      <3> QED BY <2>1, <2>3, <3>3 DEF NativeInvariant
    <2>5. shown' \in [Inverters -> [number : 0..arrived', restored : BOOLEAN]]
      BY <2>1, <2>2 DEF NativeInvariant
    <2>6. ASSUME NEW j \in Inverters
          PROVE  /\ \/ shown'[j] = [number |-> snapshots'[j],
                                    restored |-> snapshots'[j] # 0 /\ j \notin live']
                    \/ j \in observing' \cup cutOff' /\ shown'[j].number < snapshots'[j]
                 /\ unread' \/ disk'[j] <= snapshots'[j]
      <3>1. CASE j = i
        <4>1. snapshots'[j] = arrived + 1 /\ shown[j].number \in 0..arrived
              /\ disk[j] \in 0..arrived
          BY <2>1, <3>1 DEF NativeInvariant, Numbers
        <4>2. shown'[j].number < snapshots'[j] /\ disk'[j] <= snapshots'[j]
          BY <2>1, <2>2, <4>1
        <4> QED BY <2>1, <3>1, <4>2
      <3>2. CASE j # i
        <4>1. snapshots'[j] = snapshots[j] /\ (j \in live' <=> j \in live)
          BY <2>1, <3>2 DEF NativeInvariant, Numbers
        <4> QED BY <2>1, <4>1 DEF NativeInvariant
      <3> QED BY <3>1, <3>2
    <2> QED BY <2>1, <2>2, <2>4, <2>5, <2>6 DEF NativeInvariant
  <1>4. ASSUME NEW i \in Inverters, NEW ok \in BOOLEAN, Native!Saved(i, ok)
        PROVE  NativeInvariant'
    <2>1. /\ running /\ i \in observing /\ observing' = {} /\ Numbers' = Numbers
          /\ disk' = IF ok THEN saving ELSE disk
          /\ shown' = [shown EXCEPT ![i] = [number |-> snapshots[i], restored |-> FALSE]]
          /\ cutOff' = cutOff \ {i}
          /\ UNCHANGED <<running, snapshots, live, arrived, stragglers, unread>>
      BY <1>4 DEF Native!Saved, Native!Tell, Native!books, Numbers
    <2>2. saving = snapshots /\ i \in live
      BY <2>1 DEF NativeInvariant
    <2>3. disk' \in Numbers
      BY <2>1, <2>2 DEF NativeInvariant
    <2>4. shown' \in [Inverters -> [number : 0..arrived, restored : BOOLEAN]]
      BY <2>1 DEF NativeInvariant, Numbers
    <2>5. ASSUME NEW j \in Inverters
          PROVE  /\ \/ shown'[j] = [number |-> snapshots'[j],
                                    restored |-> snapshots'[j] # 0 /\ j \notin live']
                    \/ j \in observing' \cup cutOff' /\ shown'[j].number < snapshots'[j]
                 /\ unread' \/ disk'[j] <= snapshots'[j]
      <3>1. unread' \/ disk'[j] <= snapshots'[j]
        <4>1. snapshots[j] \in Nat
          BY DEF NativeInvariant, Numbers
        <4> QED BY <2>1, <2>2, <4>1 DEF NativeInvariant
      <3>2. CASE j = i
        BY <2>1, <2>2, <3>1, <3>2 DEF NativeInvariant
      <3>3. CASE j # i
        <4>1. j \notin observing
          BY <2>1, <3>3 DEF NativeInvariant
        <4> QED BY <2>1, <3>1, <3>3, <4>1 DEF NativeInvariant
      <3> QED BY <3>2, <3>3
    <2> QED BY <2>1, <2>3, <2>4, <2>5 DEF NativeInvariant
  <1>5. ASSUME NEW i \in Inverters, Native!TimeLimit(i)
        PROVE  NativeInvariant'
    <2>1. /\ running /\ i \in observing /\ observing' = {} /\ cutOff' = cutOff \cup {i}
          /\ stragglers' = stragglers \cup {saving} /\ Numbers' = Numbers
          /\ UNCHANGED <<running, snapshots, live, arrived, disk, shown, unread>>
      BY <1>5 DEF Native!TimeLimit, Native!Abandon, Native!Free, Native!books, Numbers
    <2>2. stragglers' \subseteq Numbers
      BY <2>1 DEF NativeInvariant
    <2>3. \A j \in observing : j = i
      BY <2>1 DEF NativeInvariant
    <2>4. observing' \cup cutOff' = observing \cup cutOff
      BY <2>1, <2>3
    <2>5. ASSUME NEW j \in Inverters
          PROVE  /\ \/ shown'[j] = [number |-> snapshots'[j],
                                    restored |-> snapshots'[j] # 0 /\ j \notin live']
                    \/ j \in observing' \cup cutOff' /\ shown'[j].number < snapshots'[j]
                 /\ unread' \/ disk'[j] <= snapshots'[j]
      BY <2>1, <2>4 DEF NativeInvariant
    <2> QED BY <2>1, <2>2, <2>5 DEF NativeInvariant
  <1>6. ASSUME NEW copy \in stragglers, NEW ok \in BOOLEAN, Native!StragglerEnds(copy, ok)
        PROVE  NativeInvariant'
    <2>1. /\ disk' = (IF ok THEN copy ELSE disk) /\ stragglers' = stragglers \ {copy}
          /\ unread' = (unread \/ (running /\ ok /\ \E i \in Inverters : copy[i] > snapshots[i]))
          /\ UNCHANGED <<running, snapshots, live, arrived, observing, saving, shown, cutOff>>
          /\ Numbers' = Numbers
      BY <1>6 DEF Native!StragglerEnds, Native!books, Numbers
    <2>2. copy \in Numbers /\ disk' \in Numbers
      BY <2>1 DEF NativeInvariant
    <2>3. ASSUME NEW j \in Inverters, running, ~unread'
          PROVE  disk'[j] <= snapshots[j]
      <3>1. copy[j] \in Nat /\ snapshots[j] \in Nat
        BY <2>2 DEF NativeInvariant, Numbers
      <3>2. CASE ok
        <4>1. ~(copy[j] > snapshots[j])
          BY <2>1, <2>3, <3>2
        <4> QED BY <2>1, <3>1, <3>2, <4>1
      <3>3. CASE ~ok
        <4>1. ~unread
          BY <2>1, <2>3
        <4> QED BY <2>1, <2>3, <3>3, <4>1 DEF NativeInvariant
      <3> QED BY <3>2, <3>3
    <2> QED BY <2>1, <2>2, <2>3 DEF NativeInvariant
  <1>7. ASSUME NEW r, Native!Buffered(r)
        PROVE  NativeInvariant'
    <2>1. UNCHANGED <<running, snapshots, live, arrived, observing, saving, stragglers, disk,
                      shown, cutOff, unread>>
      BY <1>7 DEF Native!Buffered, Native!books
    <2> QED BY <2>1 DEF NativeInvariant, Numbers
  <1>8. CASE Native!Close \/ Native!Crash
    <2>1. /\ stragglers' \in {{}, stragglers, stragglers \cup {saving}}
          /\ saving \in stragglers' => saving \in stragglers \/ observing # {}
      BY <1>8 DEF Native!Close, Native!Crash, Native!Abandon, Native!Free
    <2>2. /\ running' = FALSE /\ snapshots' = [i \in Inverters |-> 0] /\ live' = {}
          /\ observing' = {} /\ shown' = [i \in Inverters |-> [number |-> 0, restored |-> FALSE]]
          /\ disk' = disk /\ arrived' = arrived /\ Numbers' = Numbers
      BY <1>8 DEF Native!Close, Native!Crash, Native!Stopped, Native!NoReadings, Native!Nothing,
         Numbers
    <2>3. stragglers' \subseteq Numbers
      BY <2>1 DEF NativeInvariant
    <2>4. snapshots' \in Numbers /\ shown' \in [Inverters -> [number : 0..arrived, restored : BOOLEAN]]
      BY <2>2 DEF NativeInvariant, Numbers
    <2> QED BY <2>2, <2>3, <2>4 DEF NativeInvariant
  <1> QED BY <1>1, <1>2, <1>3, <1>4, <1>5, <1>6, <1>7, <1>8 DEF Native!Next

LEMMA NativeHolds == Native!Spec => []NativeInvariant
  BY NativeStarts, NativeKeeps, PTL DEF Native!Spec

\* The entities show the newest reading of every inverter, restored or live.
THEOREM NewestIsShown == Native!Spec => []Native!ShownIsNewest
  <1>1. NativeInvariant => Native!ShownIsNewest
    BY DEF NativeInvariant, Native!ShownIsNewest
  <1> QED BY <1>1, NativeHolds, PTL

\* The saved readings go back only with a save that outlived its observer, or where the
\* receiver never saw what it replaces.
THEOREM SavedGoesForward == Native!Spec => Native!SavedNeverGoesBack
  <1>1. ASSUME NativeInvariant, Native!Next
        PROVE  Native!SavedStep
    <2> SUFFICES ASSUME NEW j \in Inverters, disk'[j] < disk[j], stragglers' = stragglers
                 PROVE  unread
      BY DEF Native!SavedStep
    <2>1. disk[j] \in Nat /\ disk' # disk
      BY <1>1 DEF NativeInvariant, Numbers
    <2>2. ~\E copy \in stragglers, ok \in BOOLEAN : Native!StragglerEnds(copy, ok)
      BY DEF Native!StragglerEnds
    <2>3. PICK i \in Inverters, ok \in BOOLEAN : Native!Saved(i, ok)
      BY <1>1, <2>1, <2>2 DEF Native!Next, Native!Start, Native!Observe, Native!TimeLimit,
         Native!Buffered, Native!Close, Native!Crash, Native!Stopped
    <2>4. disk' = saving /\ running /\ saving = snapshots
      BY <1>1, <2>1, <2>3 DEF Native!Saved, NativeInvariant
    <2> QED BY <1>1, <2>1, <2>4 DEF NativeInvariant, Numbers
  <1>2. NativeInvariant /\ [Native!Next]_Native!vars => [Native!SavedStep]_Native!vars
    BY <1>1
  <1> QED BY <1>2, NativeHolds, PTL DEF Native!Spec, Native!SavedNeverGoesBack

-----------------------------------------------------------------------------
(* The options of an entry.                                                *)

\* What the receiver's form of a window has read of the fields it does not save is what
\* was saved last, but for what it missed since and what is put back already.
ReadBefore(w) ==
  \A f \in Entry!Fields \ DOMAIN form[w].input :
    form[w].base[f] = chosen[f] \/ f \in missed[w] \cup putBack

FormsFit ==
  /\ form = [w \in Windows |-> form[w]] /\ missed = [w \in Windows |-> missed[w]]
  /\ \A w \in Windows : form[w].pc = "checking" => ReadBefore(w)

\* While an entry is set up nobody listens, so a save is one nobody heard of.
RunsOrWill ==
  /\ reloads \in Nat
  /\ entry \in {"loaded", "setup"} => running = options \/ unheard \/ reloads > 0

EntryInvariant == Entry!SavesAreKept /\ FormsFit /\ RunsOrWill

LEMMA EntryStarts == Entry!Init => EntryInvariant
  BY DEF Entry!Init, Entry!Idle, EntryInvariant, Entry!SavesAreKept, FormsFit, RunsOrWill

\* A form that saves what is saved, or knows what it missed, loses nothing else.
LEMMA SaveKeeps ==
  ASSUME EntryInvariant, NEW base, NEW input, NEW passed, Entry!Save(base, input, passed),
         \A f \in Entry!Fields \ DOMAIN input :
           base[f] = chosen[f] \/ f \in passed \cup putBack,
         form' = [w \in Windows |-> form'[w]],
         \A w \in Windows : form'[w].pc = "checking" => form'[w] = form[w],
         UNCHANGED <<entry, running>>
  PROVE  EntryInvariant'
  <1> DEFINE new == [f \in Entry!Fields |-> IF f \in DOMAIN input THEN input[f] ELSE base[f]]
  <1>1. /\ options' = new /\ kind' = kind
        /\ chosen' = [f \in Entry!Fields |-> IF f \in DOMAIN input THEN input[f] ELSE chosen[f]]
        /\ missed' = [w \in Windows |->
                        IF form'[w].pc = "checking" THEN missed[w] \cup DOMAIN input ELSE {}]
        /\ putBack' = (putBack \cup passed) \ DOMAIN input
    BY DEF Entry!Save
  <1>2. IF new # options /\ Entry!Listening
          THEN reloads' = reloads + 1 /\ UNCHANGED unheard
          ELSE unheard' = (unheard \/ new # options) /\ UNCHANGED reloads
    BY DEF Entry!Save
  <1>3. Entry!Fields' = Entry!Fields
    BY <1>1 DEF Entry!Fields
  <1>4. Entry!SavesAreKept'
    <2> SUFFICES ASSUME NEW f \in Entry!Fields PROVE options'[f] = chosen'[f] \/ f \in putBack'
      BY <1>3 DEF Entry!SavesAreKept
    <2>1. CASE f \in DOMAIN input
      BY <1>1, <2>1
    <2>2. CASE f \notin DOMAIN input
      BY <1>1, <2>2
    <2> QED BY <2>1, <2>2
  <1>5. FormsFit'
    <2>1. missed' = [w \in Windows |-> missed'[w]]
      BY <1>1
    <2>2. ASSUME NEW w \in Windows, form'[w].pc = "checking", NEW f \in Entry!Fields,
                 f \notin DOMAIN form'[w].input
          PROVE  form'[w].base[f] = chosen'[f] \/ f \in missed'[w] \cup putBack'
      <3>1. form'[w] = form[w] /\ missed'[w] = missed[w] \cup DOMAIN input
        BY <1>1, <2>2
      <3>2. form[w].base[f] = chosen[f] \/ f \in missed[w] \cup putBack
        BY <2>2, <3>1 DEF EntryInvariant, FormsFit, ReadBefore
      <3>3. CASE f \in DOMAIN input
        BY <3>1, <3>3
      <3>4. CASE f \notin DOMAIN input
        BY <1>1, <3>1, <3>2, <3>4
      <3> QED BY <3>3, <3>4
    <2> QED BY <1>3, <2>1, <2>2 DEF FormsFit, ReadBefore
  <1>6. RunsOrWill'
    <2>1. CASE new # options /\ Entry!Listening
      BY <1>2, <2>1 DEF EntryInvariant, RunsOrWill
    <2>2. CASE new # options /\ ~Entry!Listening
      <3>1. unheard' /\ reloads' = reloads
        BY <1>2, <2>2
      <3> QED BY <3>1 DEF EntryInvariant, RunsOrWill
    <2>3. CASE new = options
      <3>1. (unheard => unheard') /\ reloads' = reloads /\ options' = options
        BY <1>1, <1>2, <2>3
      <3> QED BY <3>1 DEF EntryInvariant, RunsOrWill
    <2> QED BY <2>1, <2>2, <2>3
  <1> QED BY <1>4, <1>5, <1>6 DEF EntryInvariant

\* A form that saves as soon as it is sent.
LEMMA SentKeeps ==
  ASSUME EntryInvariant, NEW input, UNCHANGED <<form, entry, running>>,
         \/ Entry!Save(options, input, {})
         \/ UNCHANGED <<kind, options, chosen, missed, putBack, unheard, reloads>>
  PROVE  EntryInvariant'
  <1>1. CASE Entry!Save(options, input, {})
    <2>1. \A f \in Entry!Fields : options[f] = chosen[f] \/ f \in putBack
      BY DEF EntryInvariant, Entry!SavesAreKept
    <2>2. form' = [w \in Windows |-> form'[w]]
      BY DEF EntryInvariant, FormsFit
    <2> QED BY <1>1, <2>1, <2>2, SaveKeeps
  <1>2. CASE UNCHANGED <<kind, options, chosen, missed, putBack, unheard, reloads>>
    BY <1>2 DEF EntryInvariant, Entry!SavesAreKept, Entry!Fields, FormsFit, ReadBefore, RunsOrWill
  <1> QED BY <1>1, <1>2

\* Steps that save nothing.
LEMMA NothingSaved ==
  ASSUME EntryInvariant, UNCHANGED <<kind, options, chosen, putBack>>, FormsFit', RunsOrWill'
  PROVE  EntryInvariant'
  BY DEF EntryInvariant, Entry!SavesAreKept, Entry!Fields

LEMMA EntryKeeps ==
  ASSUME EntryInvariant, [Entry!Next]_Entry!vars
  PROVE  EntryInvariant'
  <1>1. CASE UNCHANGED Entry!vars
    BY <1>1, NothingSaved DEF Entry!vars, EntryInvariant, FormsFit, ReadBefore, Entry!Fields,
       RunsOrWill
  <1>2. \A f \in Entry!Fields : options[f] = chosen[f] \/ f \in putBack
    BY DEF EntryInvariant, Entry!SavesAreKept
  <1>3. ASSUME UNCHANGED <<options, unheard, reloads, entry, running>> PROVE RunsOrWill'
    BY <1>3 DEF EntryInvariant, RunsOrWill
  <1>4. ASSUME UNCHANGED <<kind, chosen, missed, putBack, form>> PROVE FormsFit'
    BY <1>4 DEF EntryInvariant, FormsFit, ReadBefore, Entry!Fields
  <1>5. ASSUME NEW w \in Windows, NEW port, NEW choice, Entry!SendReceiver(w, port, choice)
        PROVE  EntryInvariant'
    <2> DEFINE input == [f \in {"port", "receiver"} |-> IF f = "port" THEN port ELSE choice]
    <2>1. CASE port # options["port"]
      <3> DEFINE sent == [pc |-> "checking", base |-> options, input |-> input]
      <3>1. /\ form' = [form EXCEPT ![w] = sent]
            /\ UNCHANGED <<kind, options, chosen, missed, putBack, unheard, reloads, entry, running>>
        BY <1>5, <2>1 DEF Entry!SendReceiver, Entry!books
      <3>2. form' = [v \in Windows |-> form'[v]] /\ missed' = [v \in Windows |-> missed'[v]]
        BY <3>1 DEF EntryInvariant, FormsFit
      <3>3. ASSUME NEW v \in Windows, form'[v].pc = "checking" PROVE ReadBefore(v)'
        <4>1. CASE v = w
          <5>1. form'[v].base = options
            BY <3>1, <4>1 DEF EntryInvariant, FormsFit
          <5> QED BY <1>2, <3>1, <5>1 DEF ReadBefore, Entry!Fields
        <4>2. CASE v # w
          <5>1. form'[v] = form[v]
            BY <3>1, <4>2 DEF EntryInvariant, FormsFit
          <5> QED BY <3>1, <3>3, <5>1 DEF EntryInvariant, FormsFit, ReadBefore, Entry!Fields
        <4> QED BY <4>1, <4>2
      <3> QED BY <1>3, <3>1, <3>2, <3>3, NothingSaved DEF FormsFit
    <2>2. CASE port = options["port"]
      <3>1. Entry!Save(options, input, {}) /\ UNCHANGED <<form, entry, running>>
        BY <1>5, <2>2 DEF Entry!SendReceiver
      <3> HIDE DEF input
      <3> QED BY <3>1, SentKeeps
    <2> QED BY <2>1, <2>2
  <1>6. ASSUME NEW w \in Windows, NEW free, Entry!PortChecked(w, free)
        PROVE  EntryInvariant'
    <2>1. /\ form[w].pc = "checking" /\ form' = [form EXCEPT ![w] = [pc |-> "idle"]]
          /\ UNCHANGED <<entry, running>>
      BY <1>6 DEF Entry!PortChecked, Entry!Idle
    <2>2. form' = [v \in Windows |-> form'[v]] /\ form'[w].pc = "idle"
          /\ \A v \in Windows : v # w => form'[v] = form[v]
      BY <2>1 DEF EntryInvariant, FormsFit
    <2>3. CASE free
      <3>1. Entry!Save(form[w].base, form[w].input, missed[w])
        BY <1>6, <2>3 DEF Entry!PortChecked
      <3>2. \A f \in Entry!Fields \ DOMAIN form[w].input :
              form[w].base[f] = chosen[f] \/ f \in missed[w] \cup putBack
        BY <2>1 DEF EntryInvariant, FormsFit, ReadBefore
      <3>3. \A v \in Windows : form'[v].pc = "checking" => form'[v] = form[v]
        BY <2>2
      <3> QED BY <2>1, <2>2, <3>1, <3>2, <3>3, SaveKeeps
    <2>4. CASE ~free
      <3>1. /\ missed' = [missed EXCEPT ![w] = {}]
            /\ UNCHANGED <<kind, options, chosen, putBack, unheard, reloads>>
        BY <1>6, <2>4 DEF Entry!PortChecked
      <3>2. missed' = [v \in Windows |-> missed'[v]]
            /\ \A v \in Windows : v # w => missed'[v] = missed[v]
        BY <3>1 DEF EntryInvariant, FormsFit
      <3>3. ASSUME NEW v \in Windows, form'[v].pc = "checking" PROVE ReadBefore(v)'
        <4>1. v # w /\ form'[v] = form[v] /\ missed'[v] = missed[v]
          BY <2>2, <3>2, <3>3
        <4> QED BY <3>1, <3>3, <4>1 DEF EntryInvariant, FormsFit, ReadBefore, Entry!Fields
      <3> QED BY <1>3, <2>1, <2>2, <3>1, <3>2, <3>3, NothingSaved DEF FormsFit
    <2> QED BY <2>3, <2>4
  <1>7. ASSUME NEW i \in Inverters, NEW choice, Entry!SendModel(i, choice)
        PROVE  EntryInvariant'
    BY <1>7, SentKeeps DEF Entry!SendModel
  <1>8. ASSUME NEW d, NEW choice, NEW valid, Entry!SendOutput(d, choice, valid)
        PROVE  EntryInvariant'
    BY <1>8, SentKeeps DEF Entry!SendOutput, Entry!books
  <1>9. ASSUME NEW k, NEW choice, Entry!SendModbus(k, choice)
        PROVE  EntryInvariant'
    BY <1>9, SentKeeps DEF Entry!SendModbus, Entry!books
  <1>10. CASE Entry!Unload \/ Entry!UnloadFails \/ Entry!SetupEnds \/ Entry!SetupFails
    <2>1. UNCHANGED <<kind, options, chosen, missed, putBack, unheard, form, running>>
      BY <1>10 DEF Entry!Unload, Entry!UnloadFails, Entry!SetupEnds, Entry!SetupFails, Entry!books
    <2>2. RunsOrWill'
      BY <1>10, <2>1 DEF Entry!Unload, Entry!UnloadFails, Entry!SetupEnds, Entry!SetupFails,
         EntryInvariant, RunsOrWill
    <2> QED BY <1>4, <2>1, <2>2, NothingSaved
  <1>11. CASE Entry!Setup \/ Entry!SetupAgain \/ Entry!Restart
    <2>1. UNCHANGED <<kind, options, chosen, putBack>> /\ running' = options' /\ reloads' \in Nat
      BY <1>11 DEF Entry!Setup, Entry!SetupAgain, Entry!Restart, Entry!MakeHub, EntryInvariant,
         RunsOrWill
    <2>2. CASE UNCHANGED <<form, missed>>
      BY <1>4, <2>1, <2>2, NothingSaved DEF RunsOrWill
    <2>3. CASE form' = [w \in Windows |-> [pc |-> "idle"]] /\ missed' = [w \in Windows |-> {}]
      <3>1. FormsFit'
        BY <2>3 DEF FormsFit
      <3> QED BY <2>1, <3>1, NothingSaved DEF RunsOrWill
    <2> QED BY <1>11, <2>2, <2>3 DEF Entry!Setup, Entry!SetupAgain, Entry!Restart, Entry!Idle
  <1> QED BY <1>1, <1>5, <1>6, <1>7, <1>8, <1>9, <1>10, <1>11 DEF Entry!Next

\* A saved field stays until it is saved again, but for the receiver's form that was
\* sent before and had to wait for its port.
THEOREM SavesStay == Entry!Spec => []Entry!SavesAreKept
  <1>1. EntryInvariant /\ [Entry!Next]_Entry!vars => EntryInvariant'
    BY EntryKeeps
  <1>2. EntryInvariant => Entry!SavesAreKept
    BY DEF EntryInvariant
  <1> QED BY <1>1, <1>2, EntryStarts, PTL DEF Entry!Spec

\* A loaded entry runs with what is saved, or will, unless nobody listened.
THEOREM SavesAreRun == Entry!Spec => []Entry!RunsWhatWasSaved
  <1>1. EntryInvariant /\ [Entry!Next]_Entry!vars => EntryInvariant'
    BY EntryKeeps
  <1>2. EntryInvariant => Entry!RunsWhatWasSaved
    BY DEF EntryInvariant, RunsOrWill, Entry!RunsWhatWasSaved
  <1> QED BY <1>1, <1>2, EntryStarts, PTL DEF Entry!Spec

-----------------------------------------------------------------------------
(* Register reads for diagnosis.                                           *)

DiagnosisNames == Page \notin Calls \cup {"loop"}

\* A request that was admitted once is not admitted again.
Met(c) == c \in seen \cup expired

QueuedOk(q) ==
  /\ q.request.id \in Calls /\ Met(q.request.id)
  /\ q.at = admitted[q.request.id] /\ runs[q.request.id] = 0

\* Words under other details are told only once the details of the run are past.
TellsOwn(j) ==
  /\ \A x \in j.told : x = j.at \/ details > j.at[2]
  /\ j.pc = "told" => j.told # {}

JobOk(j) ==
  /\ j.pc \in {"asking", "told"} /\ {"pc", "told", "left"} \subseteq DOMAIN j
  /\ \E k, d : j.at = <<k, d>> /\ d \in 0..details
  /\ TellsOwn(j)
  /\ j.with # None => j.with.told = {j.at} /\ j.with.range = j.request.what

LoopOk(j) ==
  /\ j.request.id \in Calls /\ Met(j.request.id)
  /\ j.at = admitted[j.request.id] /\ runs[j.request.id] = 1

AnswerOk(r) ==
  /\ r.id \in Calls /\ Met(r.id) /\ runs[r.id] = 1 /\ r.told \subseteq {admitted[r.id]}
  /\ r.with # None => r.with.told = r.told /\ r.with.range = r.range

DiagnosisInvariant ==
  /\ details \in Nat
  /\ job = [p \in Diag!Runners |-> job[p]]
  /\ result = [c \in Calls |-> result[c]]
  /\ runs = [c \in Calls |-> runs[c]] /\ admitted = [c \in Calls |-> admitted[c]]
  /\ \A r \in requests : r.id \in Calls
  /\ \A c \in Calls : ~Met(c) => runs[c] = 0
  /\ \E S : queue \in Seq(S)
  /\ \A n \in 1..Len(queue) : QueuedOk(queue[n])
  /\ \A n, m \in 1..Len(queue) : queue[n].request.id = queue[m].request.id => n = m
  /\ \A p \in Diag!Runners : job[p].pc # "idle" => JobOk(job[p])
  /\ job["loop"].pc # "idle" => LoopOk(job["loop"])
  /\ snapshot # None => snapshot.told = {snapshot.at}
  /\ \A r \in replies : AnswerOk(r)
  /\ \A c \in Calls : result[c] \notin {None, Diag!Failed} => result[c].id = c /\ AnswerOk(result[c])

LEMMA DiagnosisStarts == DiagnosisNames /\ Diag!Init => DiagnosisInvariant
  <1> SUFFICES ASSUME DiagnosisNames, Diag!Init PROVE DiagnosisInvariant
    OBVIOUS
  <1>1. queue \in Seq({}) /\ Len(queue) = 0
    BY DEF Diag!Init
  <1> QED BY <1>1 DEF Diag!Init, Diag!Runners, Diag!Idle, DiagnosisInvariant, Met

\* What the inverter, time and Home Assistant do, but for an answer received.
LEMMA DiagnosisIdles ==
  ASSUME DiagnosisNames, DiagnosisInvariant, details' \in Nat, details <= details',
         \A c \in Calls : Met(c) => Met(c)',
         \A c \in Calls : ~Met(c)' => ~Met(c),
         \A r \in requests' : r.id \in Calls,
         result' = [c \in Calls |-> result'[c]],
         \A c \in Calls : result'[c] \in {result[c], None, Diag!Failed}
                          \/ (result'[c].id = c /\ result'[c] \in replies),
         snapshot' \in {snapshot, None},
         UNCHANGED <<queue, job, replies, admitted, runs>>
  PROVE  DiagnosisInvariant'
  <1>1. ASSUME NEW r, AnswerOk(r) PROVE AnswerOk(r)'
    BY <1>1 DEF AnswerOk
  <1>2. ASSUME NEW j, JobOk(j) PROVE JobOk(j)'
    <2>1. PICK k, d : j.at = <<k, d>> /\ d \in 0..details
      BY <1>2 DEF JobOk
    <2>2. d \in 0..details' /\ (details > d => details' > d)
      BY <2>1 DEF DiagnosisInvariant
    <2>3. j.at[2] = d
      BY <2>1
    <2>4. \E k1, d1 : j.at = <<k1, d1>> /\ d1 \in 0..details'
      BY <2>1, <2>2
    <2> QED BY <1>2, <2>2, <2>3, <2>4 DEF JobOk, TellsOwn
  <1>3. ASSUME NEW j, LoopOk(j) PROVE LoopOk(j)'
    BY <1>3 DEF LoopOk
  <1>4. ASSUME NEW q, QueuedOk(q) PROVE QueuedOk(q)'
    BY <1>4 DEF QueuedOk
  <1>5. \A r \in replies' : AnswerOk(r)'
    BY <1>1 DEF DiagnosisInvariant
  <1>6. ASSUME NEW c \in Calls, result'[c] \notin {None, Diag!Failed}
        PROVE  result'[c].id = c /\ AnswerOk(result[c])'
    <2>1. PICK r : r = result'[c]
      OBVIOUS
    <2>2. r.id = c /\ AnswerOk(r)
      BY <1>6, <2>1 DEF DiagnosisInvariant
    <2>3. AnswerOk(r)'
      BY <1>1, <2>2
    <2> QED BY <2>1, <2>2, <2>3 DEF AnswerOk
  <1>7. ASSUME NEW n \in 1..Len(queue)
        PROVE  QueuedOk(queue[n])'
    <2>1. PICK q : q = queue[n]
      OBVIOUS
    <2>2. QueuedOk(q)'
      BY <1>4, <2>1 DEF DiagnosisInvariant
    <2> QED BY <2>1, <2>2 DEF QueuedOk
  <1>8. ASSUME NEW p \in Diag!Runners, job[p].pc # "idle"
        PROVE  JobOk(job[p])' /\ (p = "loop" => LoopOk(job[p])')
    <2>1. PICK j : j = job[p]
      OBVIOUS
    <2>2. JobOk(j)' /\ (p = "loop" => LoopOk(j)')
      BY <1>2, <1>3, <1>8, <2>1 DEF DiagnosisInvariant
    <2> QED BY <2>1, <2>2 DEF JobOk, TellsOwn, LoopOk
  <1>9. snapshot' # None => snapshot'.told = {snapshot'.at}
    BY DEF DiagnosisInvariant
  <1>10. \A c \in Calls : ~Met(c)' => runs'[c] = 0
    BY DEF DiagnosisInvariant
  <1> QED BY <1>5, <1>6, <1>7, <1>8, <1>9, <1>10
          DEF DiagnosisInvariant, Diag!Runners, Diag!Failed

\* A run goes on or ends, perhaps with words for its call and a new snapshot.
LEMMA RunKeeps ==
  ASSUME DiagnosisInvariant, NEW p \in Diag!Runners, NEW j,
         job' = [job EXCEPT ![p] = j],
         j.pc # "idle" => JobOk(j) /\ (p = "loop" => LoopOk(j)),
         \A r \in replies' : r \in replies \/ AnswerOk(r),
         snapshot' # None => snapshot'.told = {snapshot'.at},
         UNCHANGED <<details, seen, expired, result, requests, queue, admitted, runs>>
  PROVE  DiagnosisInvariant'
  <1>1. ASSUME NEW r, AnswerOk(r) PROVE AnswerOk(r)'
    BY <1>1 DEF AnswerOk, Met
  <1>2. \A r \in replies' : AnswerOk(r)'
    BY <1>1 DEF DiagnosisInvariant
  <1>3. ASSUME NEW c \in Calls, result'[c] \notin {None, Diag!Failed}
        PROVE  result'[c].id = c /\ AnswerOk(result[c])'
    BY <1>3 DEF DiagnosisInvariant, AnswerOk, Met
  <1>4. job'[p] = j /\ job' = [i \in Diag!Runners |-> job'[i]]
        /\ \A i \in Diag!Runners \ {p} : job'[i] = job[i]
    BY DEF DiagnosisInvariant
  <1>5. ASSUME NEW i \in Diag!Runners, job'[i].pc # "idle"
        PROVE  JobOk(job[i])' /\ (i = "loop" => LoopOk(job[i])')
    <2>1. PICK k : k = job'[i]
      OBVIOUS
    <2>2. JobOk(k) /\ (i = "loop" => LoopOk(k))
      BY <1>4, <1>5, <2>1 DEF DiagnosisInvariant
    <2> QED BY <2>1, <2>2 DEF JobOk, TellsOwn, LoopOk, Met
  <1>6. \A n \in 1..Len(queue) : QueuedOk(queue[n])'
    BY DEF DiagnosisInvariant, QueuedOk, Met
  <1>7. \A c \in Calls : ~Met(c)' => runs'[c] = 0
    BY DEF DiagnosisInvariant, Met
  <1> QED BY <1>2, <1>3, <1>4, <1>5, <1>6, <1>7 DEF DiagnosisInvariant, Diag!Runners

\* A run begins under what is true now, with a snapshot made under the same.
LEMMA RunBegins ==
  ASSUME DiagnosisInvariant, NEW p \in Diag!Runners, NEW r, Diag!Begins(p, r), Diag!Comparable(r)
  PROVE  \E j : /\ job' = [job EXCEPT ![p] = j] /\ JobOk(j)
                /\ j.at = <<link, details>> /\ j.request = r /\ j.pc = "asking"
  <1> DEFINE now == <<link, details>>
             j == [pc |-> "asking", request |-> r, at |-> now, told |-> {},
                   left |-> IF r.what \in Identifications THEN IdentifyReads ELSE 1,
                   with |-> IF r.previous = 0 THEN None ELSE snapshot]
  <1>1. job' = [job EXCEPT ![p] = j]
    BY DEF Diag!Begins, Diag!Now
  <1>2. j.with # None => j.with.told = {now} /\ j.with.range = r.what
    BY DEF Diag!Comparable, Diag!Now, DiagnosisInvariant
  <1>3. details \in 0..details
    BY DEF DiagnosisInvariant
  <1>4. JobOk(j)
    BY <1>2, <1>3 DEF JobOk, TellsOwn
  <1>5. j.at = <<link, details>> /\ j.request = r /\ j.pc = "asking"
    OBVIOUS
  <1> HIDE DEF j, now
  <1> QED BY <1>1, <1>4, <1>5

LEMMA EnqueueKeeps ==
  ASSUME DiagnosisInvariant, NEW r \in requests, Diag!Enqueue(r)
  PROVE  DiagnosisInvariant'
  <1> DEFINE i == r.id
  <1>0. PICK q : q = [request |-> r, at |-> <<link, details>>]
    OBVIOUS
  <1>1. /\ i \in Calls /\ ~Met(i) /\ runs[i] = 0
        /\ seen' = (seen \ expired) \cup {i} /\ expired' = expired
        /\ queue' = Append(queue, q) /\ admitted' = [admitted EXCEPT ![i] = <<link, details>>]
        /\ UNCHANGED <<details, result, requests, job, snapshot, replies, runs>>
    BY <1>0 DEF Diag!Enqueue, Diag!Now, Diag!inverter, Diag!companion, DiagnosisInvariant, Met
  <1>2. Met(i)' /\ \A c : Met(c) => Met(c)' /\ c # i
    BY <1>1 DEF Met
  <1>3. /\ admitted' = [c \in Calls |-> admitted'[c]] /\ admitted'[i] = <<link, details>>
        /\ \A c \in Calls : c # i => admitted'[c] = admitted[c]
    BY <1>1 DEF DiagnosisInvariant
  <1>4. q.request = r /\ q.at = <<link, details>>
    BY <1>0
  <1> HIDE DEF i
  <1>5. QueuedOk(q)'
    BY <1>1, <1>2, <1>3, <1>4 DEF QueuedOk, i
  <1>6. ASSUME NEW x, QueuedOk(x) PROVE QueuedOk(x)' /\ x.request.id # i
    BY <1>1, <1>2, <1>3, <1>6 DEF QueuedOk
  <1>7. ASSUME NEW x, AnswerOk(x) PROVE AnswerOk(x)'
    BY <1>1, <1>2, <1>3, <1>7 DEF AnswerOk
  <1>8. ASSUME NEW x, LoopOk(x) PROVE LoopOk(x)'
    BY <1>1, <1>2, <1>3, <1>8 DEF LoopOk
  <1>9. PICK S : queue \in Seq(S)
    BY DEF DiagnosisInvariant
  <1>10. queue' \in Seq(S \cup {q}) /\ Len(queue') = Len(queue) + 1 /\ Len(queue) \in Nat
         /\ queue'[Len(queue')] = q /\ \A n \in 1..Len(queue) : queue'[n] = queue[n]
    BY <1>1, <1>9
  <1>11. ASSUME NEW n \in 1..Len(queue')
         PROVE  /\ QueuedOk(queue[n])'
                /\ n # Len(queue') => queue'[n].request.id # i /\ n \in 1..Len(queue)
    <2>1. CASE n = Len(queue')
      BY <1>5, <1>10, <2>1 DEF QueuedOk
    <2>2. CASE n # Len(queue')
      <3>1. n \in 1..Len(queue)
        BY <1>10, <2>2
      <3>2. QueuedOk(queue[n])
        BY <3>1 DEF DiagnosisInvariant
      <3>3. PICK x : x = queue[n]
        OBVIOUS
      <3>4. QueuedOk(x)' /\ x.request.id # i /\ queue'[n] = x
        BY <1>6, <1>10, <3>1, <3>2, <3>3
      <3> QED BY <3>1, <3>4 DEF QueuedOk
    <2> QED BY <2>1, <2>2
  <1>12. ASSUME NEW n \in 1..Len(queue'), NEW m \in 1..Len(queue'),
                queue'[n].request.id = queue'[m].request.id
         PROVE  n = m
    <2>1. queue'[Len(queue')].request.id = i
      BY <1>4, <1>10 DEF i
    <2>2. n = Len(queue') <=> m = Len(queue')
      BY <1>11, <1>12, <2>1
    <2>3. CASE n # Len(queue')
      BY <1>10, <1>11, <1>12, <2>2, <2>3 DEF DiagnosisInvariant
    <2> QED BY <2>2, <2>3
  <1>13. \A x \in replies' : AnswerOk(x)'
    BY <1>1, <1>7 DEF DiagnosisInvariant
  <1>14. ASSUME NEW c \in Calls, result'[c] \notin {None, Diag!Failed}
         PROVE  result'[c].id = c /\ AnswerOk(result[c])'
    <2>1. PICK x : x = result[c]
      OBVIOUS
    <2>2. x.id = c /\ AnswerOk(x)'
      BY <1>1, <1>7, <1>14, <2>1 DEF DiagnosisInvariant
    <2> QED BY <1>1, <2>1, <2>2 DEF AnswerOk
  <1>15. ASSUME NEW p \in Diag!Runners, job'[p].pc # "idle"
         PROVE  JobOk(job[p])' /\ (p = "loop" => LoopOk(job[p])')
    <2>1. PICK x : x = job[p]
      OBVIOUS
    <2>2. JobOk(x) /\ (p = "loop" => LoopOk(x)')
      BY <1>1, <1>8, <1>15, <2>1 DEF DiagnosisInvariant
    <2> QED BY <1>1, <2>1, <2>2 DEF JobOk, TellsOwn, LoopOk
  <1>16. \A c \in Calls : ~Met(c)' => runs'[c] = 0
    BY <1>1, <1>2 DEF DiagnosisInvariant
  <1> QED BY <1>1, <1>3, <1>10, <1>11, <1>12, <1>13, <1>14, <1>15, <1>16
          DEF DiagnosisInvariant, Diag!Runners

LEMMA TakeKeeps ==
  ASSUME DiagnosisInvariant, Diag!Take
  PROVE  DiagnosisInvariant'
  <1> DEFINE q == Head(queue)
             i == q.request.id
  <1>1. /\ queue # <<>> /\ queue' = Tail(queue) /\ job["loop"].pc = "idle"
        /\ UNCHANGED <<details, seen, expired, result, requests, snapshot, replies, admitted>>
    BY DEF Diag!Take, Diag!inverter, Diag!companion
  <1>2. PICK S : queue \in Seq(S)
    BY DEF DiagnosisInvariant
  <1>3. /\ Len(queue) \in Nat /\ 1 \in 1..Len(queue) /\ q = queue[1]
        /\ queue' \in Seq(S) /\ Len(queue') = Len(queue) - 1
        /\ \A n \in 1..Len(queue') : n + 1 \in 1..Len(queue) /\ queue'[n] = queue[n + 1]
    BY <1>1, <1>2
  <1>4. QueuedOk(q)
    BY <1>3 DEF DiagnosisInvariant
  <1>5. /\ \A n \in 1..Len(queue') : QueuedOk(queue'[n]) /\ queue'[n].request.id # i
        /\ \A n, m \in 1..Len(queue') : queue'[n].request.id = queue'[m].request.id => n = m
    <2>1. ASSUME NEW n \in 1..Len(queue')
          PROVE  QueuedOk(queue'[n]) /\ queue'[n].request.id # i
      <3>1. n + 1 # 1 /\ n + 1 \in 1..Len(queue) /\ queue'[n] = queue[n + 1]
        BY <1>3
      <3> QED BY <1>3, <3>1 DEF DiagnosisInvariant
    <2>2. ASSUME NEW n \in 1..Len(queue'), NEW m \in 1..Len(queue'),
                 queue'[n].request.id = queue'[m].request.id
          PROVE  n = m
      <3>1. n + 1 = m + 1
        BY <1>3, <2>2 DEF DiagnosisInvariant
      <3> QED BY <3>1
    <2> QED BY <2>1, <2>2
  <1>6. CASE UNCHANGED <<job, runs>>
    <2>1. ASSUME NEW n \in 1..Len(queue') PROVE QueuedOk(queue[n])'
      BY <1>1, <1>5, <1>6 DEF QueuedOk, Met
    <2>2. ASSUME NEW c \in Calls, result'[c] \notin {None, Diag!Failed}
          PROVE  result'[c].id = c /\ AnswerOk(result[c])'
      BY <1>1, <1>6, <2>2 DEF DiagnosisInvariant, AnswerOk, Met
    <2>3. ASSUME NEW p \in Diag!Runners, job'[p].pc # "idle"
          PROVE  JobOk(job[p])' /\ (p = "loop" => LoopOk(job[p])')
      BY <1>1, <1>6, <2>3 DEF DiagnosisInvariant, JobOk, TellsOwn, LoopOk, Met
    <2>4. \A x \in replies' : AnswerOk(x)'
      BY <1>1, <1>6 DEF DiagnosisInvariant, AnswerOk, Met
    <2>5. \A c \in Calls : ~Met(c)' => runs'[c] = 0
      BY <1>1, <1>6 DEF DiagnosisInvariant, Met
    <2> QED BY <1>1, <1>3, <1>5, <1>6, <2>1, <2>2, <2>3, <2>4, <2>5
            DEF DiagnosisInvariant, Diag!Runners
  <1>7. CASE /\ q.at = <<link, details>> /\ Diag!Comparable(q.request)
             /\ Diag!Begins("loop", q.request)
    <2>1. "loop" \in Diag!Runners
      BY DEF Diag!Runners
    <2>2. PICK j : /\ job' = [job EXCEPT !["loop"] = j] /\ JobOk(j)
                   /\ j.at = <<link, details>> /\ j.request = q.request /\ j.pc = "asking"
      BY <1>7, <2>1, RunBegins
    <2>3. /\ runs' = [c \in Calls |-> runs'[c]] /\ i \in Calls /\ Met(i)
          /\ runs'[i] = 1 /\ \A c \in Calls \ {i} : runs'[c] = runs[c]
      BY <1>4, <1>7 DEF Diag!Begins, QueuedOk, DiagnosisInvariant
    <2> HIDE DEF i
    <2>4. ASSUME NEW x, AnswerOk(x) PROVE AnswerOk(x)'
      <3>1. x.id # i
        BY <1>4, <2>4 DEF AnswerOk, QueuedOk, i
      <3> QED BY <1>1, <2>3, <2>4, <3>1 DEF AnswerOk, Met
    <2>5. ASSUME NEW n \in 1..Len(queue') PROVE QueuedOk(queue[n])'
      BY <1>1, <1>5, <2>3 DEF QueuedOk, Met
    <2>6. /\ job'["loop"] = j /\ job' = [p \in Diag!Runners |-> job'[p]]
          /\ \A p \in Diag!Runners \ {"loop"} : job'[p] = job[p]
      BY <2>1, <2>2 DEF DiagnosisInvariant
    <2>7. ASSUME NEW p \in Diag!Runners, job'[p].pc # "idle" PROVE JobOk(job[p])'
      <3>1. PICK x : x = job'[p]
        OBVIOUS
      <3>2. JobOk(x)
        BY <2>2, <2>6, <2>7, <3>1 DEF DiagnosisInvariant
      <3> QED BY <1>1, <3>1, <3>2 DEF JobOk, TellsOwn
    <2>8. LoopOk(job["loop"])'
      <3>1. j.request.id = i /\ j.at = admitted[i]
        BY <1>4, <1>7, <2>2 DEF QueuedOk, i
      <3> QED BY <1>1, <2>3, <2>6, <3>1 DEF LoopOk, Met
    <2>9. \A x \in replies' : AnswerOk(x)'
      BY <1>1, <2>4 DEF DiagnosisInvariant
    <2>10. ASSUME NEW c \in Calls, result'[c] \notin {None, Diag!Failed}
           PROVE  result'[c].id = c /\ AnswerOk(result[c])'
      <3>1. PICK x : x = result[c]
        OBVIOUS
      <3>2. x.id = c /\ AnswerOk(x)'
        BY <1>1, <2>4, <2>10, <3>1 DEF DiagnosisInvariant
      <3> QED BY <1>1, <3>1, <3>2 DEF AnswerOk
    <2>11. \A c \in Calls : ~Met(c)' => runs'[c] = 0
      BY <1>1, <2>3 DEF DiagnosisInvariant, Met
    <2> QED BY <1>1, <1>3, <1>5, <2>3, <2>5, <2>6, <2>7, <2>8, <2>9, <2>10, <2>11
            DEF DiagnosisInvariant, Diag!Runners
  <1> QED BY <1>6, <1>7 DEF Diag!Take, Diag!Now

LEMMA DiagnosisKeeps ==
  ASSUME DiagnosisNames, DiagnosisInvariant, [Diag!Next]_Diag!vars
  PROVE  DiagnosisInvariant'
  <1>1. details \in Nat /\ details <= details
    BY DEF DiagnosisInvariant
  <1>2. CASE UNCHANGED Diag!vars
    BY <1>1, <1>2, DiagnosisIdles DEF Diag!vars, Met, DiagnosisInvariant
  <1>3. ASSUME NEW k, NEW d \in {details, details + 1}, Diag!Change(k, d)
        PROVE  DiagnosisInvariant'
    <2>1. details' \in Nat /\ details <= details'
      BY <1>1, <1>3 DEF Diag!Change
    <2> QED BY <1>3, <2>1, DiagnosisIdles
            DEF Diag!Change, Diag!companion, Diag!app, Met, DiagnosisInvariant
  <1>4. CASE Diag!ForgetSnapshot \/ Diag!Stop \/ \E c \in Calls : Diag!Expire(c) \/ Diag!GiveUp(c)
    <2>1. /\ UNCHANGED <<details, queue, job, replies, admitted, runs, requests>>
          /\ snapshot' \in {snapshot, None} /\ seen' = seen /\ expired \subseteq expired'
      BY <1>4 DEF Diag!ForgetSnapshot, Diag!Stop, Diag!Expire, Diag!GiveUp, Diag!inverter,
         Diag!companion, Diag!app
    <2>2. \/ result' = result
          \/ result' = [c \in Calls |-> IF c \in pending THEN Diag!Failed ELSE result[c]]
          \/ \E c \in Calls : result' = [result EXCEPT ![c] = Diag!Failed]
      BY <1>4 DEF Diag!ForgetSnapshot, Diag!Stop, Diag!Expire, Diag!GiveUp, Diag!Ends,
         Diag!companion
    <2>3. /\ result' = [c \in Calls |-> result'[c]]
          /\ \A c \in Calls : result'[c] \in {result[c], Diag!Failed}
      BY <2>2 DEF DiagnosisInvariant
    <2> QED BY <1>1, <2>1, <2>3, DiagnosisIdles DEF Met, DiagnosisInvariant
  <1>5. ASSUME NEW c \in Calls, NEW r \in replies, Diag!Receive(r, c)
        PROVE  DiagnosisInvariant'
    <2>1. /\ r.id = c /\ result' = [result EXCEPT ![c] = r]
          /\ UNCHANGED <<details, seen, expired, queue, job, replies, admitted, runs, requests,
                         snapshot>>
      BY <1>5 DEF Diag!Receive, Diag!Answers, Diag!Ends, Diag!inverter, Diag!app
    <2>2. /\ result' = [e \in Calls |-> result'[e]] /\ result'[c] = r
          /\ \A e \in Calls \ {c} : result'[e] = result[e]
      BY <2>1 DEF DiagnosisInvariant
    <2> QED BY <1>1, <2>1, <2>2, DiagnosisIdles DEF Met, DiagnosisInvariant
  <1>6. ASSUME NEW c \in Calls, NEW what, NEW previous, Diag!Handle(c, what, previous)
        PROVE  DiagnosisInvariant'
    <2>1. \A r \in requests' : r.id \in Calls
      BY <1>6 DEF Diag!Handle, DiagnosisInvariant
    <2> QED BY <1>1, <1>6, <2>1, DiagnosisIdles
            DEF Diag!Handle, Diag!inverter, Diag!app, Met, DiagnosisInvariant
  <1>7. ASSUME NEW what, NEW previous, Diag!PageReads(what, previous)
        PROVE  DiagnosisInvariant'
    <2>1. PICK r : /\ r.id = Page /\ Diag!Begins(Page, r) /\ Diag!Comparable(r)
                   /\ UNCHANGED <<details, seen, expired, result, requests, queue, snapshot,
                                  replies, admitted>>
      BY <1>7 DEF Diag!PageReads, Diag!inverter, Diag!companion
    <2>2. Page \in Diag!Runners /\ Page # "loop" /\ Page \notin Calls
      BY DEF DiagnosisNames, Diag!Runners
    <2>3. runs' = runs
      BY <2>1, <2>2 DEF Diag!Begins, DiagnosisInvariant
    <2>4. PICK j : job' = [job EXCEPT ![Page] = j] /\ JobOk(j)
      BY <2>1, <2>2, RunBegins
    <2>5. \A r1 \in replies' : r1 \in replies \/ AnswerOk(r1)
      BY <2>1
    <2>6. snapshot' # None => snapshot'.told = {snapshot'.at}
      BY <2>1 DEF DiagnosisInvariant
    <2> QED BY <2>1, <2>2, <2>3, <2>4, <2>5, <2>6, RunKeeps
  <1>8. ASSUME NEW p \in Diag!Runners, Diag!RunFails(p)
        PROVE  DiagnosisInvariant'
    <2>1. /\ job' = [job EXCEPT ![p] = Diag!Idle] /\ Diag!Idle.pc = "idle"
          /\ UNCHANGED <<details, seen, expired, result, requests, queue, snapshot, replies,
                         admitted, runs>>
      BY <1>8 DEF Diag!RunFails, Diag!RunKeeps, Diag!inverter, Diag!companion, Diag!Idle
    <2>2. snapshot' # None => snapshot'.told = {snapshot'.at}
      BY <2>1 DEF DiagnosisInvariant
    <2> QED BY <2>1, <2>2, RunKeeps
  <1>9. ASSUME NEW p \in Diag!Runners, job[p].pc \in {"asking", "told"}
        PROVE  JobOk(job[p]) /\ (p = "loop" => LoopOk(job[p]))
    BY <1>9 DEF DiagnosisInvariant
  <1>10. ASSUME NEW p \in Diag!Runners, Diag!Answer(p)
         PROVE  DiagnosisInvariant'
    <2> DEFINE a == job[p]
               now == <<link, details>>
               j == [a EXCEPT !.pc = "told", !.told = @ \cup {now}]
    <2>1. /\ a.pc = "asking" /\ link = a.at[1]
          /\ job' = [job EXCEPT ![p].pc = "told", ![p].told = @ \cup {now}]
          /\ UNCHANGED <<details, seen, expired, result, requests, queue, snapshot, replies,
                         admitted, runs>>
      BY <1>10 DEF Diag!Answer, Diag!RunKeeps, Diag!inverter, Diag!companion, Diag!Now
    <2>2. JobOk(a) /\ (p = "loop" => LoopOk(a))
      BY <1>9, <2>1
    <2>3. job' = [job EXCEPT ![p] = j]
      BY <2>1 DEF DiagnosisInvariant
    <2>4. /\ j.pc = "told" /\ j.told = a.told \cup {now} /\ DOMAIN j = DOMAIN a
          /\ j.at = a.at /\ j.with = a.with /\ j.request = a.request
      BY <2>2 DEF JobOk
    <2>5. now = a.at \/ details > a.at[2]
      <3>1. PICK k, d : a.at = <<k, d>> /\ d \in 0..details
        BY <2>2 DEF JobOk
      <3> QED BY <1>1, <2>1, <3>1
    <2> HIDE DEF j, now, a
    <2>6. TellsOwn(j)
      BY <2>2, <2>4, <2>5 DEF JobOk, TellsOwn
    <2>7. JobOk(j) /\ (p = "loop" => LoopOk(j))
      BY <2>2, <2>4, <2>6 DEF JobOk, LoopOk
    <2>8. snapshot' # None => snapshot'.told = {snapshot'.at}
      BY <2>1 DEF DiagnosisInvariant
    <2>9. \A r \in replies' : r \in replies \/ AnswerOk(r)
      BY <2>1
    <2> QED BY <2>1, <2>3, <2>7, <2>8, <2>9, RunKeeps
  <1>11. ASSUME NEW p \in Diag!Runners, job[p].pc \in {"asking", "told"}, Diag!GoesOn(p),
                UNCHANGED <<details, seen, expired, result, requests, queue, snapshot, replies,
                            admitted, runs>>
         PROVE  DiagnosisInvariant'
    <2> DEFINE a == job[p]
               j == [a EXCEPT !.pc = "asking", !.left = @ - 1]
    <2>1. JobOk(a) /\ (p = "loop" => LoopOk(a))
      BY <1>9, <1>11
    <2>2. job' = [job EXCEPT ![p] = j]
      BY <1>11 DEF Diag!GoesOn, DiagnosisInvariant
    <2>3. /\ j.pc = "asking" /\ j.told = a.told /\ DOMAIN j = DOMAIN a
          /\ j.at = a.at /\ j.with = a.with /\ j.request = a.request
      BY <2>1 DEF JobOk
    <2> HIDE DEF j, a
    <2>4. JobOk(j) /\ (p = "loop" => LoopOk(j))
      BY <2>1, <2>3 DEF JobOk, LoopOk, TellsOwn
    <2>5. snapshot' # None => snapshot'.told = {snapshot'.at}
      BY <1>11 DEF DiagnosisInvariant
    <2>6. \A r \in replies' : r \in replies \/ AnswerOk(r)
      BY <1>11
    <2> QED BY <1>11, <2>2, <2>4, <2>5, <2>6, RunKeeps
  <1>12. ASSUME NEW p \in Diag!Runners, Diag!Unavailable(p)
         PROVE  DiagnosisInvariant'
    BY <1>11, <1>12 DEF Diag!Unavailable, Diag!RunKeeps, Diag!inverter, Diag!companion
  <1>13. ASSUME NEW p \in Diag!Runners, Diag!Hear(p)
         PROVE  DiagnosisInvariant'
    <2> DEFINE a == job[p]
               reply == [id |-> a.request.id, told |-> a.told, range |-> a.request.what,
                         with |-> a.with]
    <2>1. /\ a.pc = "told" /\ a.at = <<link, details>>
          /\ UNCHANGED <<details, seen, expired, result, requests, queue, admitted, runs>>
      BY <1>13 DEF Diag!Hear, Diag!Holds, Diag!RunKeeps, Diag!inverter, Diag!companion, Diag!Now
    <2>2. JobOk(a) /\ (p = "loop" => LoopOk(a))
      BY <1>9, <2>1
    <2>3. a.told = {a.at}
      <3>1. a.at[2] = details
        BY <2>1
      <3>2. \A x \in a.told : x = a.at
        BY <1>1, <2>2, <3>1 DEF JobOk, TellsOwn
      <3> QED BY <2>1, <2>2, <3>2 DEF JobOk, TellsOwn
    <2>4. CASE Diag!GoesOn(p) /\ UNCHANGED <<snapshot, replies>>
      BY <1>11, <2>1, <2>4
    <2>5. CASE /\ job' = [job EXCEPT ![p] = Diag!Idle]
               /\ replies' = IF p = "loop" THEN replies \cup {reply} ELSE replies
               /\ \/ snapshot' = snapshot
                  \/ \E t : snapshot' = [token |-> t, at |-> a.at, range |-> a.request.what,
                                         told |-> a.told]
      <3>1. p = "loop" => AnswerOk(reply)
        <4>1. /\ reply.id = a.request.id /\ reply.told = a.told /\ reply.with = a.with
              /\ reply.range = a.request.what
          OBVIOUS
        <4> HIDE DEF reply
        <4> QED BY <2>2, <2>3, <4>1 DEF AnswerOk, JobOk, LoopOk
      <3> HIDE DEF reply
      <3>2. \A r \in replies' : r \in replies \/ AnswerOk(r)
        BY <2>5, <3>1
      <3>3. snapshot' # None => snapshot'.told = {snapshot'.at}
        BY <2>3, <2>5 DEF DiagnosisInvariant
      <3>4. Diag!Idle.pc = "idle"
        BY DEF Diag!Idle
      <3> QED BY <2>1, <2>5, <3>2, <3>3, <3>4, RunKeeps
    <2> QED BY <1>13, <2>4, <2>5 DEF Diag!Hear
  <1>14. ASSUME NEW r \in requests, Diag!Enqueue(r)
         PROVE  DiagnosisInvariant'
    BY <1>14, EnqueueKeeps
  <1>15. CASE Diag!Take
    BY <1>15, TakeKeeps
  <1> QED BY <1>2, <1>3, <1>4, <1>5, <1>6, <1>7, <1>8, <1>10, <1>12, <1>13, <1>14, <1>15
          DEF Diag!Next

\* A call that ends with words got those read for it, once, under what held when its
\* request was admitted.
THEOREM CallsGetTheirOwnRead ==
  DiagnosisNames /\ Diag!Spec => []Diag!AnsweredByItsOwnRead
  <1> DEFINE Inv == DiagnosisNames /\ DiagnosisInvariant
  <1>1. DiagnosisNames /\ Diag!Init => Inv
    BY DiagnosisStarts
  <1>2. Inv /\ [Diag!Next]_Diag!vars => Inv'
    BY DiagnosisKeeps
  <1>3. Inv => Diag!AnsweredByItsOwnRead
    BY DEF DiagnosisInvariant, AnswerOk, Diag!AnsweredByItsOwnRead
  <1> QED BY <1>1, <1>2, <1>3, PTL DEF Diag!Spec

-----------------------------------------------------------------------------
(* The settings without MQTT.                                              *)

DirectNames == Nothing \notin Keys /\ Offers \in [Profiles -> SUBSET Settings]

Links == [number : Nat \ {0}, key : Keys]
Readings == [value : Values, by : Nat \ {0}, under : Nat]
Objects == [profile : Profiles, session : Keys, values : [Settings -> Readings \cup {Nothing}]]
Works == [pc : {"lock", "next", "confirm", "asking", "answered", "lost"},
          kind : {"refresh", "command"}, object : Nat \ {0}, key : Settings \cup {Nothing},
          want : Values \cup {Nothing}, todo : SUBSET Settings,
          what : {"read", "write", "confirm", Nothing}, by : Links \cup {Direct!NoLink},
          read : Readings \cup {Nothing}]
Rests == {Direct!Idle, Direct!Starting}

DirectTyped ==
  /\ link \in Links \cup {Direct!NoLink} /\ connections \in Nat /\ link.number <= connections
  /\ changes \in Nat /\ held \in [Settings -> Values]
  /\ objects \in Seq(Objects) /\ state = Len(objects)
  /\ job \in [Jobs -> Works \cup Rests]

Working(j) == job[j].pc \notin {"idle", "start"}
HasLock(j) == Working(j) /\ job[j].pc # "lock"

\* A request refers to the connection of its object's session, and what it read of the
\* current object is what the inverter holds.
JobFits(j) ==
  /\ job[j].object \in 1..Len(objects)
  /\ job[j].kind = "command" => job[j].key \in Settings /\ job[j].want \in Values
  /\ HasLock(j) => job[j].object \in locked
  /\ Direct!Waits(j) =>
       /\ job[j].key \in Settings /\ job[j].by \in Links /\ job[j].by.number <= connections
       /\ job[j].by.key = objects[job[j].object].session
       /\ job[j].by.key = link.key \/ job[j].by.number = link.number => job[j].by = link
       /\ job[j].what = "write" => job[j].kind = "command"
  /\ job[j].pc = "answered" =>
       /\ job[j].read \in Readings /\ job[j].read.by = job[j].by.number
       /\ job[j].read.under <= changes
       /\ job[j].object = state /\ job[j].by = link /\ job[j].read.under = changes =>
            job[j].read.value = held[job[j].key]

LocksExclude ==
  \A i, j \in Jobs : HasLock(i) /\ HasLock(j) /\ job[i].object = job[j].object => i = j

\* What an object knows was read in a connection of its session.
KnownWell(o, s) ==
  objects[o].values[s] # Nothing =>
    /\ objects[o].values[s].by <= connections /\ objects[o].values[s].under <= changes
    /\ objects[o].session = link.key /\ link.key \notin reused =>
         objects[o].values[s].by = link.number

\* What the current object knows is true, or a command on it is under way.
CommandUnderWay(s) ==
  \E j \in Jobs : Working(j) /\ job[j].kind = "command" /\ job[j].object = state /\ job[j].key = s
KeptWell(s) ==
  objects[state].values[s] # Nothing =>
    \/ objects[state].values[s].under # changes \/ objects[state].values[s].by # link.number
    \/ objects[state].values[s].value = held[s] \/ CommandUnderWay(s)

\* A write for an object replaced: nothing has been read through this connection for the
\* object that took its place, and nothing is being read.
Late(j) ==
  /\ job[j].pc = "asking" /\ job[j].what = "write" /\ job[j].by = link
  /\ job[j].object # state
HearsNow(j) == Direct!Waits(j) /\ job[j].by = link /\ job[j].object = state
LateFirst(j) ==
  Late(j) =>
    /\ \A s \in Settings : objects[state].values[s] # Nothing =>
         objects[state].values[s].by # link.number
    /\ \A i \in Jobs : ~HearsNow(i)

DirectInvariant ==
  /\ DirectTyped
  /\ \A j \in Jobs : Working(j) => JobFits(j)
  /\ LocksExclude
  /\ \A o \in 1..Len(objects), s \in Settings : KnownWell(o, s)
  /\ state # 0 => \A s \in Settings : KeptWell(s)
  /\ \A j \in Jobs : LateFirst(j)

LEMMA DirectStarts == DirectNames /\ Direct!Init => DirectInvariant
  <1> SUFFICES ASSUME DirectNames, Direct!Init PROVE DirectInvariant
    OBVIOUS
  <1>1. objects \in Seq(Objects) /\ Len(objects) = 0
    BY DEF Direct!Init
  <1>2. DirectTyped
    BY <1>1 DEF Direct!Init, Direct!NoLink, DirectTyped, Rests
  <1> QED BY <1>1, <1>2 DEF Direct!Init, Direct!Idle, Direct!Waits, DirectInvariant, Working,
          HasLock, LocksExclude, LateFirst, Late

LEMMA WorksAreTyped ==
  ASSUME DirectTyped, NEW j \in Jobs
  PROVE  /\ Working(j) => job[j] \in Works
         /\ Direct!Waits(j) => HasLock(j)
         /\ HasLock(j) => Working(j)
  BY DEF DirectTyped, Rests, Direct!Idle, Direct!Starting, Working, HasLock, Direct!Waits

\* A refresh or command goes on; nothing it learnt is kept yet.
LEMMA WorkGoesOn ==
  ASSUME DirectInvariant, NEW j \in Jobs, NEW b \in Works \cup Rests,
         job' = [job EXCEPT ![j] = b],
         UNCHANGED <<link, connections, held, changes, state, objects, reused>>,
         Working(j)' => JobFits(j)',
         \A i \in Jobs \ {j} : HasLock(i) => job[i].object \in locked',
         HasLock(j)' => \A i \in Jobs \ {j} : HasLock(i) => job[i].object # b.object,
         Working(j) /\ job[j].kind = "command" =>
           Working(j)' /\ b.kind = "command" /\ b.object = job[j].object /\ b.key = job[j].key,
         Late(j)' => Late(j),
         HearsNow(j)' => HearsNow(j) \/ \A i \in Jobs : ~Late(i)
  PROVE  DirectInvariant'
  <1>1. job'[j] = b /\ \A i \in Jobs \ {j} : job'[i] = job[i]
    BY DEF DirectInvariant, DirectTyped
  <1>2. DirectTyped'
    BY DEF DirectInvariant, DirectTyped
  <1>3. ASSUME NEW i \in Jobs \ {j}
        PROVE  /\ Working(i)' <=> Working(i)
               /\ HasLock(i)' <=> HasLock(i)
               /\ Direct!Waits(i)' <=> Direct!Waits(i)
               /\ Late(i)' <=> Late(i)
               /\ HearsNow(i)' <=> HearsNow(i)
    BY <1>1 DEF Working, HasLock, Direct!Waits, Late, HearsNow
  <1>4. ASSUME NEW i \in Jobs, Working(i)'
        PROVE  JobFits(i)'
    <2>1. CASE i = j
      BY <1>4, <2>1
    <2>2. CASE i # j
      <3>1. JobFits(i)
        BY <1>3, <1>4, <2>2 DEF DirectInvariant
      <3> QED BY <1>1, <1>3, <2>2, <3>1 DEF JobFits
    <2> QED BY <2>1, <2>2
  <1>5. LocksExclude'
    BY <1>1, <1>3 DEF DirectInvariant, LocksExclude
  <1>6. \A o \in 1..Len(objects'), s \in Settings : KnownWell(o, s)'
    BY DEF DirectInvariant, KnownWell
  <1>7. ASSUME state' # 0, NEW s \in Settings
        PROVE  KeptWell(s)'
    <2>1. CommandUnderWay(s) => CommandUnderWay(s)'
      <3>1. SUFFICES ASSUME NEW i \in Jobs, Working(i), job[i].kind = "command",
                            job[i].object = state, job[i].key = s
                     PROVE  CommandUnderWay(s)'
        BY DEF CommandUnderWay
      <3>2. Working(i)' /\ job'[i].kind = "command" /\ job'[i].object = state' /\ job'[i].key = s
        BY <1>1, <1>3, <3>1
      <3> QED BY <3>2 DEF CommandUnderWay
    <2> QED BY <1>7, <2>1 DEF DirectInvariant, KeptWell
  <1>8. ASSUME NEW i \in Jobs
        PROVE  LateFirst(i)'
    <2>1. Late(i)' => Late(i)
      BY <1>3
    <2>2. Late(i)' => \A k \in Jobs : ~HearsNow(k)'
      BY <1>3, <2>1 DEF DirectInvariant, LateFirst
    <2> QED BY <2>1, <2>2 DEF DirectInvariant, LateFirst
  <1> QED BY <1>2, <1>4, <1>5, <1>6, <1>7, <1>8 DEF DirectInvariant

LEMMA OneReplaced ==
  ASSUME NEW S, NEW q \in Seq(S), NEW n \in 1..Len(q), NEW e \in S
  PROVE  /\ [q EXCEPT ![n] = e] \in Seq(S) /\ Len([q EXCEPT ![n] = e]) = Len(q)
         /\ \A p \in 1..Len(q) : [q EXCEPT ![n] = e][p] = IF p = n THEN e ELSE q[p]
  OBVIOUS

Replaced(n, t, v) == [objects EXCEPT ![n].values[t] = v]

LEMMA OneValueReplaced ==
  ASSUME objects \in Seq(Objects), NEW n \in 1..Len(objects), NEW t \in Settings,
         NEW v \in Readings \cup {Nothing}, objects' = Replaced(n, t, v)
  PROVE  /\ objects' \in Seq(Objects) /\ Len(objects') = Len(objects)
         /\ \A p \in 1..Len(objects) : objects'[p].session = objects[p].session
         /\ \A p \in 1..Len(objects), s \in Settings :
              objects'[p].values[s] = IF p = n /\ s = t THEN v ELSE objects[p].values[s]
  <1> DEFINE new == [objects[n] EXCEPT !.values[t] = v]
  <1>1. objects[n] \in Objects
    OBVIOUS
  <1>2. /\ new \in Objects /\ new.session = objects[n].session
        /\ \A s \in Settings : new.values[s] = IF s = t THEN v ELSE objects[n].values[s]
    BY <1>1 DEF Objects
  <1>3. objects' = [objects EXCEPT ![n] = new]
    BY DEF Replaced
  <1> HIDE DEF new
  <1>4. /\ objects' \in Seq(Objects) /\ Len(objects') = Len(objects)
        /\ \A p \in 1..Len(objects) : objects'[p] = IF p = n THEN new ELSE objects[p]
    BY <1>2, <1>3, OneReplaced
  <1>5. ASSUME NEW p \in 1..Len(objects)
        PROVE  /\ objects'[p].session = objects[p].session
               /\ \A s \in Settings :
                    objects'[p].values[s] = IF p = n /\ s = t THEN v ELSE objects[p].values[s]
    <2>1. objects'[p] = IF p = n THEN new ELSE objects[p]
      BY <1>4
    <2>2. CASE p = n
      <3>1. objects'[p] = new
        BY <2>1, <2>2
      <3>2. objects'[p] = new /\ p = n
        BY <2>2, <3>1
      <3> QED BY <1>2, <3>2
    <2>3. CASE p # n
      <3>1. objects'[p] = objects[p]
        BY <2>1, <2>3
      <3> QED BY <2>3, <3>1
    <2> QED BY <2>2, <2>3
  <1> QED BY <1>4, <1>5, Zenon

\* What a request brought is kept in the object it was made for, or the value is dropped.
LEMMA WorkLearns ==
  ASSUME DirectInvariant, NEW j \in Jobs, HasLock(j), NEW b \in Works \cup Rests,
         job[j].key \in Settings, NEW v \in Readings \cup {Nothing},
         v # Nothing => job[j].pc = "answered" /\ v = job[j].read,
         job' = [job EXCEPT ![j] = b],
         objects' = [objects EXCEPT ![job[j].object].values[job[j].key] = v],
         UNCHANGED <<link, connections, held, changes, state, reused>>,
         \/ b = Direct!Idle /\ locked' = locked \ {job[j].object}
         \/ /\ b.pc = "next" /\ b.kind = "refresh" /\ b.object = job[j].object
            /\ job[j].kind = "refresh" /\ locked' = locked
  PROVE  DirectInvariant'
  <1>3. JobFits(j) /\ job[j] \in Works /\ job[j].object \in 1..Len(objects)
    BY WorksAreTyped DEF DirectInvariant, JobFits
  <1> SUFFICES ASSUME NEW o \in 1..Len(objects), NEW k \in Settings,
                      o = job[j].object, k = job[j].key
               PROVE  DirectInvariant'
    BY <1>3
  <1>1. JobFits(j) /\ job[j] \in Works /\ o \in 1..Len(objects)
    BY <1>3
  <1>2. job'[j] = b /\ (b.pc = "idle" \/ b.pc = "next") /\ \A i \in Jobs \ {j} : job'[i] = job[i]
    BY SMTT(30) DEF DirectInvariant, DirectTyped, Direct!Idle
  <1>4. /\ objects' \in Seq(Objects) /\ Len(objects') = Len(objects)
        /\ \A p \in 1..Len(objects) : objects'[p].session = objects[p].session
        /\ \A p \in 1..Len(objects), s \in Settings :
             objects'[p].values[s] = IF p = o /\ s = k THEN v ELSE objects[p].values[s]
    <2>1. objects \in Seq(Objects)
      BY DEF DirectInvariant, DirectTyped
    <2>2. objects' = Replaced(o, k, v)
      BY DEF Replaced
    <2> QED BY <2>1, <2>2, OneValueReplaced
  <1>5. DirectTyped'
    BY <1>4 DEF DirectInvariant, DirectTyped
  <1>6. ASSUME NEW i \in Jobs \ {j}
        PROVE  /\ Working(i)' <=> Working(i)
               /\ HasLock(i)' <=> HasLock(i)
               /\ Direct!Waits(i)' <=> Direct!Waits(i)
               /\ Late(i)' <=> Late(i)
               /\ HearsNow(i)' <=> HearsNow(i)
               /\ HasLock(i) => job[i].object # o
    BY <1>2 DEF Working, HasLock, Direct!Waits, Late, HearsNow, DirectInvariant, LocksExclude
  <1>7. ASSUME NEW i \in Jobs, Working(i)'
        PROVE  JobFits(i)'
    <2>1. CASE i = j
      <3>1. b.pc = "next" /\ b.kind = "refresh" /\ b.object = o /\ locked' = locked
        BY <1>2, <1>7, <2>1 DEF Working, Direct!Idle
      <3> QED BY <1>1, <1>2, <1>4, <2>1, <3>1 DEF JobFits, HasLock, Working, Direct!Waits
    <2>2. CASE i # j
      <3>1. JobFits(i) /\ job'[i] = job[i]
        BY <1>2, <1>6, <1>7, <2>2 DEF DirectInvariant
      <3>2. HasLock(i) => job[i].object \in locked'
        BY <1>6, <2>2, <3>1 DEF JobFits
      <3> QED BY <1>4, <1>6, <2>2, <3>1, <3>2 DEF JobFits
    <2> QED BY <2>1, <2>2
  <1>8. LocksExclude'
    BY <1>2, <1>6 DEF DirectInvariant, LocksExclude, HasLock, Working, Direct!Idle
  <1>9. v # Nothing =>
          /\ Direct!Waits(j) /\ v.by = job[j].by.number /\ v.under <= changes
          /\ v.by <= connections /\ job[j].by.key = objects[o].session
          /\ v.by = link.number \/ objects[o].session = link.key => job[j].by = link
          /\ o = state /\ job[j].by = link /\ v.under = changes => v.value = held[k]
    BY <1>1, SMTT(30) DEF JobFits, Direct!Waits
  <1>10. ASSUME NEW p \in 1..Len(objects'), NEW s \in Settings
         PROVE  KnownWell(p, s)'
    <2>1. p \in 1..Len(objects) /\ KnownWell(p, s)
      BY <1>4 DEF DirectInvariant
    <2>2. CASE p = o /\ s = k
      BY <1>4, <1>9, <2>1, <2>2 DEF KnownWell
    <2>3. CASE ~(p = o /\ s = k)
      BY <1>4, <2>1, <2>3 DEF KnownWell
    <2> QED BY <2>2, <2>3
  <1>11. ASSUME state' # 0, NEW s \in Settings
         PROVE  KeptWell(s)'
    <2>1. KeptWell(s) /\ state \in 1..Len(objects)
      BY <1>11 DEF DirectInvariant, DirectTyped
    <2>2. CASE state = o /\ s = k
      BY <1>4, <1>9, <2>1, <2>2 DEF KeptWell
    <2>3. CASE ~(state = o /\ s = k)
      <3>1. objects'[state].values[s] = objects[state].values[s]
        BY <1>4, <2>1, <2>3
      <3>2. CommandUnderWay(s) => CommandUnderWay(s)'
        <4>1. SUFFICES ASSUME NEW i \in Jobs, Working(i), job[i].kind = "command",
                              job[i].object = state, job[i].key = s
                       PROVE  CommandUnderWay(s)'
          BY DEF CommandUnderWay
        <4>2. i # j
          BY <2>3, <4>1
        <4>3. Working(i)' /\ job'[i].kind = "command" /\ job'[i].object = state' /\ job'[i].key = s
          BY <1>2, <1>6, <4>1, <4>2
        <4> QED BY <4>3 DEF CommandUnderWay
      <3> QED BY <2>1, <3>1, <3>2 DEF KeptWell
    <2> QED BY <2>2, <2>3
  <1>12. ASSUME NEW i \in Jobs
         PROVE  LateFirst(i)'
    <2>1. SUFFICES ASSUME Late(i)'
                   PROVE  /\ \A s \in Settings : objects'[state].values[s] # Nothing =>
                               objects'[state].values[s].by # link.number
                          /\ \A h \in Jobs : ~HearsNow(h)'
      BY DEF LateFirst
    <2>2. i # j /\ Late(i)
      BY <1>2, <1>6, <2>1 DEF Late
    <2>3. /\ \A s \in Settings : objects[state].values[s] # Nothing =>
               objects[state].values[s].by # link.number
          /\ \A h \in Jobs : ~HearsNow(h)
      BY <2>2 DEF DirectInvariant, LateFirst
    <2>4. \A h \in Jobs : ~HearsNow(h)'
      BY <1>2, <1>6, <2>3 DEF HearsNow, Direct!Waits
    <2>5. state \in 1..Len(objects)
      <3>1. Working(i)
        BY <2>2 DEF Late, Working
      <3>2. job[i].object \in 1..Len(objects)
        BY <3>1 DEF DirectInvariant, JobFits
      <3> QED BY <3>2 DEF DirectInvariant, DirectTyped
    <2>6. ASSUME NEW s \in Settings, objects'[state].values[s] # Nothing
          PROVE  objects'[state].values[s].by # link.number
      <3>1. CASE state = o /\ s = k
        BY <1>4, <1>9, <2>3, <2>5, <2>6, <3>1 DEF HearsNow
      <3>2. CASE ~(state = o /\ s = k)
        BY <1>4, <2>3, <2>5, <2>6, <3>2
      <3> QED BY <3>1, <3>2
    <2> QED BY <2>4, <2>6
  <1> QED BY <1>5, <1>7, <1>8, <1>10, <1>11, <1>12 DEF DirectInvariant

\* The connection changes: requests and values of the former one are not of this one.
LEMMA ConnectionChanges ==
  ASSUME DirectNames, DirectInvariant, link' # link,
         \/ link' = Direct!NoLink /\ connections' = connections /\ reused' = reused
         \/ \E k \in Keys :
              /\ link' = [number |-> connections + 1, key |-> k] /\ connections' = connections + 1
              /\ \A j \in Jobs : Direct!Waits(j) => job[j].by.key # k
              /\ reused \subseteq reused'
              /\ (\E o \in 1..Len(objects) : objects[o].session = k) => k \in reused',
         UNCHANGED <<held, changes, state, objects, locked, job>>
  PROVE  DirectInvariant'
  <1>1. connections \in Nat /\ connections' \in Nat /\ connections <= connections'
        /\ link' \in Links \cup {Direct!NoLink} /\ link'.number <= connections'
        /\ (link'.number = 0 \/ link'.number > connections)
    BY DEF DirectInvariant, DirectTyped, Links, Direct!NoLink
  <1>2. DirectTyped'
    BY <1>1 DEF DirectInvariant, DirectTyped
  <1>3. ASSUME NEW j \in Jobs, Direct!Waits(j)
        PROVE  /\ job[j].by.key # link'.key /\ job[j].by.number # link'.number
               /\ job[j].by # link' /\ job[j].by.number <= connections'
    <2>1. /\ job[j].by \in Links /\ job[j].by.number <= connections
      BY <1>3, WorksAreTyped DEF DirectInvariant, JobFits
    <2>2. job[j].by.key # link'.key
      BY <1>3, <2>1 DEF Links, Direct!NoLink, DirectNames
    <2> QED BY <1>1, <2>1, <2>2 DEF Links
  <1>4. ASSUME NEW j \in Jobs, Working(j)'
        PROVE  JobFits(j)'
    <2>1. JobFits(j)
      BY <1>4 DEF DirectInvariant, Working
    <2>2. job[j].pc = "answered" => Direct!Waits(j)
      BY DEF Direct!Waits
    <2> QED BY <1>3, <2>1, <2>2 DEF JobFits, HasLock, Working, Direct!Waits
  <1>5. LocksExclude'
    BY DEF DirectInvariant, LocksExclude, HasLock, Working
  <1>6. ASSUME NEW o \in 1..Len(objects), NEW s \in Settings, objects[o].values[s] # Nothing
        PROVE  /\ objects[o].values[s].by <= connections' /\ objects[o].values[s].by # link'.number
               /\ objects[o].values[s].under <= changes
               /\ objects[o].session = link'.key => link'.key \in reused'
    <2>1. objects[o] \in Objects
      BY DEF DirectInvariant, DirectTyped
    <2>2. objects[o].values[s] \in Readings /\ objects[o].session # Nothing
      BY <1>6, <2>1 DEF Objects, DirectNames
    <2>3. objects[o].values[s].by <= connections /\ objects[o].values[s].under <= changes
      BY <1>6 DEF DirectInvariant, KnownWell
    <2>4. objects[o].session = link'.key => link'.key \in reused'
      BY <2>2 DEF Direct!NoLink
    <2>5. objects[o].values[s].by \in Nat \ {0}
      BY <2>2 DEF Readings
    <2> QED BY <1>1, <2>3, <2>4, <2>5
  <1>7. \A o \in 1..Len(objects'), s \in Settings : KnownWell(o, s)'
    BY <1>6 DEF KnownWell
  <1>8. state' # 0 => \A s \in Settings : KeptWell(s)'
    <2>1. state # 0 => state \in 1..Len(objects)
      BY DEF DirectInvariant, DirectTyped
    <2> QED BY <1>6, <2>1 DEF KeptWell
  <1>9. ASSUME NEW j \in Jobs
        PROVE  ~Late(j)'
    BY <1>3 DEF Late, Direct!Waits
  <1>10. \A j \in Jobs : LateFirst(j)'
    BY <1>9 DEF LateFirst
  <1> QED BY <1>2, <1>4, <1>5, <1>7, <1>8, <1>10 DEF DirectInvariant

\* A request is answered or lost, and its write may be done.
LEMMA RequestEnds ==
  ASSUME DirectInvariant, NEW j \in Jobs, NEW b \in Works,
         job[j].pc = "asking", b.pc \in {"answered", "lost"},
         job' = [job EXCEPT ![j] = b],
         b.kind = job[j].kind, b.object = job[j].object, b.key = job[j].key, b.by = job[j].by,
         b.what = job[j].what, b.want = job[j].want,
         \/ held' = held
         \/ /\ job[j].what = "write" /\ job[j].by = link
            /\ held' = [held EXCEPT ![job[j].key] = job[j].want],
         b.pc = "answered" =>
           /\ b.read.by = b.by.number /\ b.read.under = changes /\ b.read.value = held'[b.key]
           /\ b.read \in Readings,
         UNCHANGED <<link, connections, changes, state, objects, locked, reused>>
  PROVE  DirectInvariant'
  <1>1. /\ job[j] \in Works /\ JobFits(j) /\ HasLock(j) /\ Working(j) /\ Direct!Waits(j)
        /\ job[j].key \in Settings
    BY WorksAreTyped DEF DirectInvariant, Working, JobFits, Direct!Waits
  <1>2. job'[j] = b /\ \A i \in Jobs \ {j} : job'[i] = job[i]
    BY DEF DirectInvariant, DirectTyped
  <1>3. held' \in [Settings -> Values] /\ changes \in Nat
        /\ \A s \in Settings : s # job[j].key => held'[s] = held[s]
    BY <1>1 DEF DirectInvariant, DirectTyped, JobFits
  <1>4. DirectTyped'
    BY <1>3 DEF DirectInvariant, DirectTyped
  <1>5. ASSUME NEW i \in Jobs
        PROVE  /\ Working(i)' <=> Working(i)
               /\ HasLock(i)' <=> HasLock(i)
               /\ Direct!Waits(i)' <=> Direct!Waits(i)
               /\ Late(i)' => Late(i)
               /\ HearsNow(i)' <=> HearsNow(i)
    <2>1. CASE i = j
      BY <1>1, <1>2, <2>1 DEF Working, HasLock, Direct!Waits, Late, HearsNow
    <2>2. CASE i # j
      BY <1>2, <2>2 DEF Working, HasLock, Direct!Waits, Late, HearsNow
    <2> QED BY <2>1, <2>2
  <1>6. ASSUME NEW i \in Jobs, i # j, job[i].pc = "answered", job[i].object = state,
               job[i].by = link
        PROVE  held' = held
    <2>1. SUFFICES ASSUME held' # held PROVE FALSE
      OBVIOUS
    <2>2. job[j].what = "write" /\ job[j].by = link
      BY <2>1
    <2>3. Direct!Waits(i) /\ HearsNow(i) /\ HasLock(i)
      BY <1>6 DEF Direct!Waits, HearsNow, HasLock, Working
    <2>4. CASE job[j].object = state
      BY <1>1, <1>6, <2>3, <2>4 DEF DirectInvariant, LocksExclude
    <2>5. CASE job[j].object # state
      BY <2>2, <2>3, <2>5 DEF DirectInvariant, LateFirst, Late
    <2> QED BY <2>4, <2>5
  <1>7. ASSUME NEW i \in Jobs, Working(i)'
        PROVE  JobFits(i)'
    <2>1. CASE i = j
      BY <1>1, <1>2, <1>3, <1>5, <2>1 DEF JobFits, Direct!Waits
    <2>2. CASE i # j
      <3>1. JobFits(i)
        BY <1>5, <1>7 DEF DirectInvariant
      <3>2. job[i].pc = "answered" /\ job[i].object = state /\ job[i].by = link
              => held'[job[i].key] = held[job[i].key]
        BY <1>6, <2>2
      <3> QED BY <1>2, <1>5, <2>2, <3>1, <3>2 DEF JobFits
    <2> QED BY <2>1, <2>2
  <1>8. LocksExclude'
    <2>1. \A i \in Jobs : HasLock(i) => job'[i].object = job[i].object
      BY <1>2
    <2> QED BY <1>5, <2>1 DEF DirectInvariant, LocksExclude
  <1>9. \A o \in 1..Len(objects'), s \in Settings : KnownWell(o, s)'
    BY DEF DirectInvariant, KnownWell
  <1>10. ASSUME state' # 0, NEW s \in Settings
         PROVE  KeptWell(s)'
    <2>1. KeptWell(s)
      BY <1>10 DEF DirectInvariant
    <2>2. CommandUnderWay(s) => CommandUnderWay(s)'
      <3>1. SUFFICES ASSUME NEW i \in Jobs, Working(i), job[i].kind = "command",
                            job[i].object = state, job[i].key = s
                     PROVE  CommandUnderWay(s)'
        BY DEF CommandUnderWay
      <3>2. Working(i)' /\ job'[i].kind = "command" /\ job'[i].object = state' /\ job'[i].key = s
        BY <1>2, <1>5, <3>1
      <3> QED BY <3>2 DEF CommandUnderWay
    <2>3. CASE held'[s] = held[s]
      BY <2>1, <2>2, <2>3 DEF KeptWell
    <2>4. CASE held'[s] # held[s]
      <3>1. job[j].what = "write" /\ job[j].by = link /\ s = job[j].key /\ job[j].kind = "command"
        BY <1>1, <1>3, <2>4 DEF JobFits
      <3>2. CASE job[j].object = state
        <4>1. CommandUnderWay(s)
          BY <1>1, <3>1, <3>2 DEF CommandUnderWay
        <4> QED BY <2>2, <4>1 DEF KeptWell
      <3>3. CASE job[j].object # state
        <4>1. Late(j)
          BY <3>1, <3>3 DEF Late
        <4>2. objects[state].values[s] # Nothing => objects[state].values[s].by # link.number
          BY <4>1 DEF DirectInvariant, LateFirst
        <4> QED BY <4>2 DEF KeptWell
      <3> QED BY <3>2, <3>3
    <2> QED BY <2>3, <2>4
  <1>11. \A i \in Jobs : LateFirst(i)'
    BY <1>5 DEF DirectInvariant, LateFirst
  <1> QED BY <1>4, <1>7, <1>8, <1>9, <1>10, <1>11 DEF DirectInvariant

\* A reading that came by another connection, or under another profile, makes a new object.
LEMMA ObjectMade ==
  ASSUME DirectNames, DirectInvariant, NEW p \in Profiles, link # Direct!NoLink,
         objects' = Append(objects, Direct!Object(p, link.key)), state' = Len(objects) + 1,
         \/ job' = job
         \/ \E j \in Jobs : job[j].pc = "idle" /\ job' = [job EXCEPT ![j] = Direct!Starting],
         UNCHANGED <<link, connections, held, changes, locked, reused>>
  PROVE  DirectInvariant'
  <1> DEFINE new == [profile |-> p, session |-> link.key, values |-> [s \in Settings |-> Nothing]]
  <1>1. new \in Objects /\ \A s \in Settings : new.values[s] = Nothing
    BY DEF DirectInvariant, DirectTyped, Objects, Links
  <1>2. objects' = Append(objects, new)
    BY DEF Direct!Object
  <1> HIDE DEF new
  <1>3. /\ objects' \in Seq(Objects) /\ Len(objects') = Len(objects) + 1 /\ Len(objects) \in Nat
        /\ objects'[Len(objects')] = new
        /\ \A o \in 1..Len(objects) : objects'[o] = objects[o]
    BY <1>1, <1>2 DEF DirectInvariant, DirectTyped
  <1>4. DirectTyped'
    BY <1>3 DEF DirectInvariant, DirectTyped, Rests
  <1>5. ASSUME NEW j \in Jobs
         PROVE  /\ Working(j)' <=> Working(j)
                /\ Working(j) => job'[j] = job[j]
    BY DEF DirectInvariant, DirectTyped, Working, Direct!Starting
  <1>6. ASSUME NEW j \in Jobs, Working(j)'
        PROVE  JobFits(j)' /\ job'[j] = job[j] /\ job[j].object # state'
    <2>1. JobFits(j) /\ job[j].object \in 1..Len(objects) /\ job'[j] = job[j]
      BY <1>6, <1>5 DEF DirectInvariant, JobFits
    <2>2. /\ job[j].object \in 1..Len(objects') /\ job[j].object # state'
          /\ objects'[job[j].object] = objects[job[j].object]
      BY <1>3, <2>1
    <2> QED BY <2>1, <2>2 DEF JobFits, HasLock, Working, Direct!Waits
  <1>7. LocksExclude'
    BY <1>5 DEF DirectInvariant, LocksExclude, HasLock, Working
  <1>8. ASSUME NEW o \in 1..Len(objects'), NEW s \in Settings
        PROVE  KnownWell(o, s)'
    <2>1. CASE o = Len(objects')
      BY <1>1, <1>3, <2>1 DEF KnownWell
    <2>2. CASE o # Len(objects')
      <3>1. o \in 1..Len(objects) /\ objects'[o] = objects[o]
        BY <1>3, <2>2
      <3> QED BY <3>1 DEF DirectInvariant, KnownWell
    <2> QED BY <2>1, <2>2
  <1>9. \A s \in Settings : objects'[state'].values[s] = Nothing
    BY <1>1, <1>3
  <1>10. \A s \in Settings : KeptWell(s)'
    BY <1>9 DEF KeptWell
  <1>11. ASSUME NEW j \in Jobs
         PROVE  ~HearsNow(j)'
    BY <1>6 DEF HearsNow, Direct!Waits, Working
  <1>12. \A j \in Jobs : LateFirst(j)'
    BY <1>9, <1>11 DEF LateFirst
  <1> QED BY <1>4, <1>6, <1>7, <1>8, <1>10, <1>12 DEF DirectInvariant

\* The values of the current object are dropped.
LEMMA ValuesDropped ==
  ASSUME DirectInvariant, state # 0,
         objects' = [objects EXCEPT ![state] = Direct!Object(@.profile, @.session)],
         UNCHANGED <<link, connections, held, changes, state, locked, job, reused>>
  PROVE  DirectInvariant'
  <1> DEFINE new == [profile |-> objects[state].profile, session |-> objects[state].session,
                     values |-> [s \in Settings |-> Nothing]]
  <1>1. state \in 1..Len(objects) /\ objects \in Seq(Objects) /\ objects[state] \in Objects
    BY DEF DirectInvariant, DirectTyped
  <1>2. /\ new \in Objects /\ new.session = objects[state].session
        /\ \A s \in Settings : new.values[s] = Nothing
    BY <1>1 DEF Objects
  <1>3. objects' = [objects EXCEPT ![state] = new]
    BY DEF Direct!Object
  <1> HIDE DEF new
  <1>4. /\ objects' \in Seq(Objects) /\ Len(objects') = Len(objects)
        /\ \A o \in 1..Len(objects) : objects'[o] = IF o = state THEN new ELSE objects[o]
    BY <1>1, <1>2, <1>3, OneReplaced
  <1>5. \A o \in 1..Len(objects) : objects'[o].session = objects[o].session
    BY <1>2, <1>4
  <1>6. DirectTyped'
    BY <1>4 DEF DirectInvariant, DirectTyped
  <1>7. ASSUME NEW j \in Jobs, Working(j)'
        PROVE  JobFits(j)'
    <2>1. JobFits(j)
      BY <1>7 DEF DirectInvariant, Working
    <2> QED BY <1>4, <1>5, <2>1 DEF JobFits, HasLock, Working, Direct!Waits
  <1>8. LocksExclude'
    BY DEF DirectInvariant, LocksExclude, HasLock, Working
  <1>9. ASSUME NEW o \in 1..Len(objects'), NEW s \in Settings
        PROVE  KnownWell(o, s)'
    <2>1. CASE o = state
      BY <1>2, <1>4, <2>1 DEF KnownWell
    <2>2. CASE o # state
      BY <1>4, <2>2 DEF DirectInvariant, KnownWell
    <2> QED BY <2>1, <2>2
  <1>10. \A s \in Settings : objects'[state].values[s] = Nothing
    BY <1>1, <1>2, <1>4
  <1>11. \A s \in Settings : KeptWell(s)'
    BY <1>10 DEF KeptWell
  <1>12. \A j \in Jobs : LateFirst(j)'
    BY <1>10 DEF DirectInvariant, LateFirst, Late, HearsNow, Direct!Waits
  <1> QED BY <1>6, <1>7, <1>8, <1>9, <1>11, <1>12 DEF DirectInvariant

LEMMA NothingKnownChanges ==
  ASSUME DirectInvariant,
         UNCHANGED <<link, connections, held, changes, state, objects, locked, job, reused>>
  PROVE  DirectInvariant'
  <1>1. DirectTyped' /\ LocksExclude'
    BY DEF DirectInvariant, DirectTyped, LocksExclude, HasLock, Working
  <1>2. \A j \in Jobs : (Working(j) => JobFits(j))'
    BY DEF DirectInvariant, Working, JobFits, HasLock, Direct!Waits
  <1>3. \A o \in 1..Len(objects'), s \in Settings : KnownWell(o, s)'
    BY DEF DirectInvariant, KnownWell
  <1>4. state' # 0 => \A s \in Settings : KeptWell(s)'
    BY DEF DirectInvariant, KeptWell, CommandUnderWay, Working
  <1>5. \A j \in Jobs : LateFirst(j)'
    BY DEF DirectInvariant, LateFirst, Late, HearsNow, Direct!Waits
  <1> QED BY <1>1, <1>2, <1>3, <1>4, <1>5 DEF DirectInvariant

\* The cloud changes a setting: nothing read so far was read since.
LEMMA ElsewhereChanged ==
  ASSUME DirectInvariant, held' \in [Settings -> Values], changes' = changes + 1,
         UNCHANGED <<link, connections, state, objects, locked, job, reused>>
  PROVE  DirectInvariant'
  <1>1. DirectTyped' /\ LocksExclude' /\ changes \in Nat
    BY DEF DirectInvariant, DirectTyped, LocksExclude, HasLock, Working
  <1>2. ASSUME NEW j \in Jobs, Working(j)'
        PROVE  JobFits(j)'
    <2>1. JobFits(j)
      BY <1>2 DEF DirectInvariant, Working
    <2>2. job[j].pc = "answered" => job[j].read.under < changes' /\ job[j].read.under <= changes'
      BY <1>1, <2>1 DEF JobFits, Readings
    <2> QED BY <2>1, <2>2 DEF JobFits, HasLock, Working, Direct!Waits
  <1>3. ASSUME NEW o \in 1..Len(objects), NEW s \in Settings, objects[o].values[s] # Nothing
        PROVE  objects[o].values[s].under <= changes /\ objects[o].values[s].under \in Nat
    <2>1. objects[o] \in Objects
      BY DEF DirectInvariant, DirectTyped
    <2>2. objects[o].values[s] \in Readings
      BY <1>3, <2>1 DEF Objects
    <2> QED BY <1>3, <2>2 DEF DirectInvariant, KnownWell, Readings
  <1>4. \A o \in 1..Len(objects'), s \in Settings : KnownWell(o, s)'
    BY <1>1, <1>3 DEF DirectInvariant, KnownWell
  <1>5. state' # 0 => \A s \in Settings : KeptWell(s)'
    <2>1. state # 0 => state \in 1..Len(objects)
      BY DEF DirectInvariant, DirectTyped
    <2> QED BY <1>1, <1>3, <2>1 DEF KeptWell
  <1>6. \A j \in Jobs : LateFirst(j)'
    BY DEF DirectInvariant, LateFirst, Late, HearsNow, Direct!Waits
  <1> QED BY <1>1, <1>2, <1>4, <1>5, <1>6 DEF DirectInvariant

\* A refresh is due.
LEMMA RefreshDue ==
  ASSUME DirectInvariant, NEW j \in Jobs, job[j].pc = "idle",
         job' = [job EXCEPT ![j] = Direct!Starting],
         UNCHANGED <<link, connections, held, changes, state, objects, locked, reused>>
  PROVE  DirectInvariant'
  <1> DEFINE b == Direct!Starting
  <1>1. job'[j] = b /\ ~Working(j) /\ ~Working(j)'
    BY DEF DirectInvariant, DirectTyped, Working, Direct!Starting
  <1>2. ~HasLock(j)' /\ ~Late(j)' /\ ~HearsNow(j)'
    BY <1>1 DEF HasLock, Late, HearsNow, Direct!Waits, Working
  <1>3. \A i \in Jobs \ {j} : HasLock(i) => job[i].object \in locked'
    BY DEF DirectInvariant, JobFits, HasLock
  <1> QED BY <1>1, <1>2, <1>3, WorkGoesOn DEF Rests

\* A refresh or command begins, and waits for the lock of the current object.
LEMMA WorkBegins ==
  ASSUME DirectInvariant, NEW j \in Jobs, ~Working(j), state # 0,
         NEW b \in Works, b.pc = "lock", b.object = state,
         b.kind = "command" => b.key \in Settings /\ b.want \in Values,
         job' = [job EXCEPT ![j] = b],
         UNCHANGED <<link, connections, held, changes, state, objects, locked, reused>>
  PROVE  DirectInvariant'
  <1>1. state \in 1..Len(objects) /\ Len(objects) \in Nat
    BY DEF DirectInvariant, DirectTyped
  <1>2. job'[j] = b
    BY DEF DirectInvariant, DirectTyped
  <1>3. ~HasLock(j)' /\ ~Late(j)' /\ ~HearsNow(j)' /\ ~Direct!Waits(j)'
    BY <1>2 DEF HasLock, Late, HearsNow, Direct!Waits, Working
  <1>4. JobFits(j)'
    BY <1>1, <1>2, <1>3 DEF JobFits, Direct!Waits
  <1>5. \A i \in Jobs \ {j} : HasLock(i) => job[i].object \in locked'
    BY DEF DirectInvariant, JobFits, HasLock
  <1> QED BY <1>3, <1>4, <1>5, WorkGoesOn

LEMMA LockTaken ==
  ASSUME DirectInvariant, NEW j \in Jobs, Direct!TakeLock(j)
  PROVE  DirectInvariant'
  <1> DEFINE b == [job[j] EXCEPT !.pc = "next"]
  <1>1. job[j].pc = "lock" /\ job[j].object \notin locked /\ locked' = locked \cup {job[j].object}
        /\ job' = [job EXCEPT ![j] = b]
    BY DEF Direct!TakeLock
  <1>2. job[j] \in Works /\ Working(j) /\ JobFits(j)
    BY <1>1, WorksAreTyped DEF Working, DirectInvariant
  <1>3. /\ b \in Works /\ b.pc = "next" /\ b.object = job[j].object /\ b.kind = job[j].kind
        /\ b.key = job[j].key /\ b.want = job[j].want
    BY <1>2 DEF Works
  <1> HIDE DEF b
  <1>4. job'[j] = b
    BY <1>1 DEF DirectInvariant, DirectTyped
  <1>5. /\ Working(j)' /\ ~Direct!Waits(j)' /\ ~Late(j)' /\ ~HearsNow(j)'
    BY <1>3, <1>4 DEF Working, Direct!Waits, Late, HearsNow
  <1>6. UNCHANGED <<link, connections, held, changes, state, objects, reused>>
    BY DEF Direct!TakeLock
  <1>7. JobFits(j)'
    BY <1>1, <1>2, <1>3, <1>4, <1>5, <1>6 DEF JobFits
  <1>8. \A i \in Jobs \ {j} : HasLock(i) => job[i].object \in locked' /\ job[i].object # b.object
    BY <1>1, <1>3 DEF DirectInvariant, JobFits, HasLock
  <1> QED BY <1>1, <1>2, <1>3, <1>5, <1>6, <1>7, <1>8, WorkGoesOn

\* A request is made through the connection in use, which waits for no other request.
LEMMA RequestMade ==
  ASSUME DirectInvariant, NEW j \in Jobs, job[j].pc \in {"next", "confirm"},
         NEW what \in {"read", "write", "confirm"}, NEW s \in Settings,
         Direct!Current(job[j].object), Direct!Asks(j, what, s),
         what = "write" => job[j].kind = "command", job[j].kind = "command" => s = job[j].key,
         UNCHANGED <<link, connections, held, changes, state, objects, locked, reused>>
  PROVE  DirectInvariant'
  <1> DEFINE b == [job[j] EXCEPT !.pc = "asking", !.what = what, !.key = s, !.by = link]
  <1>1. /\ \A i \in Jobs : job[i].pc = "asking" => job[i].by # link
        /\ job' = [job EXCEPT ![j] = b]
    BY DEF Direct!Asks
  <1>2. job[j] \in Works /\ Working(j) /\ JobFits(j) /\ HasLock(j)
    BY WorksAreTyped DEF Working, DirectInvariant, HasLock
  <1>3. /\ link \in Links /\ link.number <= connections /\ job[j].object = state
        /\ link.key = objects[job[j].object].session
    BY DEF Direct!Current, DirectInvariant, DirectTyped, Direct!NoLink
  <1>4. /\ b \in Works /\ b.pc = "asking" /\ b.object = job[j].object /\ b.kind = job[j].kind
        /\ b.key = s /\ b.want = job[j].want /\ b.by = link /\ b.what = what
    BY <1>2, <1>3 DEF Works
  <1> HIDE DEF b
  <1>5. job'[j] = b
    BY <1>1 DEF DirectInvariant, DirectTyped
  <1>6. Working(j)' /\ ~Late(j)'
    BY <1>3, <1>4, <1>5 DEF Working, Late
  <1>7. \A i \in Jobs : ~Late(i)
    BY <1>1 DEF Late
  <1>8. JobFits(j)'
    BY <1>2, <1>3, <1>4, <1>5 DEF JobFits, HasLock
  <1>9. \A i \in Jobs \ {j} : HasLock(i) => job[i].object \in locked' /\ job[i].object # b.object
    BY <1>2, <1>4 DEF DirectInvariant, JobFits, HasLock, LocksExclude
  <1> QED BY <1>1, <1>2, <1>4, <1>6, <1>7, <1>8, <1>9, WorkGoesOn

\* A refresh or command at rest between two requests goes on under its lock, or a refresh
\* ends.
LEMMA TurnEnds ==
  ASSUME DirectInvariant, NEW j \in Jobs, HasLock(j), NEW b \in Works \cup Rests,
         job' = [job EXCEPT ![j] = b],
         UNCHANGED <<link, connections, held, changes, state, objects, reused>>,
         \/ /\ b.pc \in {"next", "confirm"} /\ b.object = job[j].object /\ b.kind = job[j].kind
            /\ b.want = job[j].want
            /\ job[j].kind = "command" => b.key = job[j].key
            /\ locked' = locked
         \/ b = Direct!Idle /\ job[j].kind = "refresh" /\ locked' = locked \ {job[j].object}
  PROVE  DirectInvariant'
  <1>1. JobFits(j) /\ job'[j] = b
    BY WorksAreTyped DEF DirectInvariant, DirectTyped
  <1>2. b.pc \in {"next", "confirm", "idle"}
    BY DEF Direct!Idle
  <1>3. ~Direct!Waits(j)' /\ ~Late(j)' /\ ~HearsNow(j)'
    BY <1>1, <1>2 DEF Direct!Waits, Late, HearsNow
  <1>4. Working(j)' => JobFits(j)'
    BY <1>1, <1>3 DEF JobFits, HasLock, Working, Direct!Waits, Direct!Idle
  <1>5. \A i \in Jobs \ {j} : HasLock(i) => job[i].object \in locked /\ job[i].object # job[j].object
    BY DEF DirectInvariant, JobFits, HasLock, LocksExclude
  <1>6. \A i \in Jobs \ {j} : HasLock(i) => job[i].object \in locked'
    BY <1>5
  <1>7. HasLock(j)' => \A i \in Jobs \ {j} : HasLock(i) => job[i].object # b.object
    BY <1>1, <1>5 DEF HasLock, Working, Direct!Idle
  <1>8. Working(j) /\ job[j].kind = "command" =>
           Working(j)' /\ b.kind = "command" /\ b.object = job[j].object /\ b.key = job[j].key
    BY <1>1, <1>2 DEF Working, Direct!Idle
  <1> QED BY <1>3, <1>4, <1>6, <1>7, <1>8, WorkGoesOn

LEMMA CommandFails ==
  ASSUME DirectInvariant, NEW j \in Jobs, HasLock(j), job[j].kind = "command", Direct!Fails(j),
         UNCHANGED <<link, connections, held, changes, state, reused>>
  PROVE  DirectInvariant'
  <1>1. job[j].key \in Settings
    BY DEF DirectInvariant, JobFits, HasLock
  <1>2. /\ objects' = [objects EXCEPT ![job[j].object].values[job[j].key] = Nothing]
        /\ job' = [job EXCEPT ![j] = Direct!Idle] /\ locked' = locked \ {job[j].object}
    BY DEF Direct!Fails, Direct!Forgets, Direct!Keeps, Direct!Ends
  <1> QED BY <1>1, <1>2, WorkLearns DEF Rests

\* A refresh keeps what it heard if its object is the current one, and turns to the next
\* setting.
LEMMA RefreshGoesOn ==
  ASSUME DirectInvariant, NEW j \in Jobs, Direct!RefreshHears(j)
  PROVE  DirectInvariant'
  <1> DEFINE a == [job[j] EXCEPT !.what = Nothing, !.by = Direct!NoLink, !.read = Nothing]
             b == [a EXCEPT !.pc = "next", !.key = Nothing, !.todo = job[j].todo \ {job[j].key}]
  <1>1. /\ job[j].pc \in {"answered", "lost"} /\ job[j].kind = "refresh"
        /\ job' = [job EXCEPT ![j] = b]
        /\ UNCHANGED <<link, connections, held, changes, state, locked, reused>>
    <2>1. job' = [job EXCEPT ![j] = b]
      BY DEF Direct!RefreshHears, Direct!Unasked
    <2> QED BY <2>1 DEF Direct!RefreshHears
  <1>2. /\ job[j] \in Works /\ JobFits(j) /\ HasLock(j) /\ Direct!Waits(j)
    BY <1>1, WorksAreTyped DEF Working, DirectInvariant, HasLock, Direct!Waits
  <1>3. /\ b \in Works /\ b.pc = "next" /\ b.object = job[j].object /\ b.kind = job[j].kind
        /\ b.want = job[j].want
    <2>1. /\ a \in Works /\ job[j].todo \subseteq Settings
          /\ a.object = job[j].object /\ a.kind = job[j].kind /\ a.want = job[j].want
      BY <1>2 DEF Works
    <2> HIDE DEF a
    <2> QED BY <2>1 DEF Works
  <1> HIDE DEF b
  <1>4. job[j].key \in Settings /\ (job[j].pc = "answered" => job[j].read \in Readings)
    BY <1>2 DEF JobFits
  <1>5. CASE UNCHANGED objects
    BY <1>1, <1>2, <1>3, <1>5, TurnEnds
  <1>6. ASSUME NEW v \in Readings \cup {Nothing}, Direct!Keeps(j, v),
               v # Nothing => job[j].pc = "answered" /\ v = job[j].read
        PROVE  DirectInvariant'
    <2>1. objects' = [objects EXCEPT ![job[j].object].values[job[j].key] = v]
      BY <1>6 DEF Direct!Keeps
    <2> QED BY <1>1, <1>2, <1>3, <1>4, <1>6, <2>1, WorkLearns
  <1>7. CASE job[j].pc = "lost"
    <2>1. Direct!Keeps(j, Nothing)
      BY <1>7 DEF Direct!RefreshHears, Direct!Forgets
    <2> QED BY <1>6, <2>1
  <1>8. CASE job[j].pc = "answered" /\ Direct!Current(job[j].object)
    <2>1. Direct!Keeps(j, job[j].read)
      BY <1>8 DEF Direct!RefreshHears
    <2>2. PICK v \in Readings : v = job[j].read
      BY <1>4, <1>8
    <2> QED BY <1>6, <1>8, <2>1, <2>2
  <1>9. CASE job[j].pc = "answered" /\ ~Direct!Current(job[j].object)
    BY <1>5, <1>9 DEF Direct!RefreshHears
  <1> QED BY <1>1, <1>7, <1>8, <1>9

\* A command confirms, asks again or gives up.
LEMMA CommandGoesOn ==
  ASSUME DirectInvariant, NEW j \in Jobs, Direct!CommandHears(j)
  PROVE  DirectInvariant'
  <1> DEFINE confirmed == job[j].what = "confirm" /\ job[j].pc = "answered"
                          /\ job[j].read.value = job[j].want
  <1>1. /\ job[j].pc \in {"answered", "lost"} /\ job[j].kind = "command"
        /\ UNCHANGED <<link, connections, held, changes, state, reused>>
        /\ \/ confirmed /\ Direct!Keeps(j, job[j].read) /\ Direct!Ends(j)
           \/ /\ job' = [job EXCEPT ![j] = [Direct!Unasked(@) EXCEPT !.pc = "confirm"]]
              /\ UNCHANGED <<objects, locked>>
           \/ Direct!Fails(j)
    BY DEF Direct!CommandHears
  <1>2. /\ job[j] \in Works /\ JobFits(j) /\ HasLock(j) /\ job[j].key \in Settings
        /\ (job[j].pc = "answered" => job[j].read \in Readings)
    BY <1>1, WorksAreTyped DEF Working, DirectInvariant, HasLock, JobFits
  <1>3. CASE confirmed /\ Direct!Keeps(j, job[j].read) /\ Direct!Ends(j)
    <2>1. PICK v \in Readings : v = job[j].read
      BY <1>2, <1>3
    <2>2. /\ objects' = [objects EXCEPT ![job[j].object].values[job[j].key] = v]
          /\ job' = [job EXCEPT ![j] = Direct!Idle] /\ locked' = locked \ {job[j].object}
      BY <1>3, <2>1 DEF Direct!Keeps, Direct!Ends
    <2> QED BY <1>1, <1>2, <1>3, <2>1, <2>2, WorkLearns DEF Rests
  <1>4. CASE /\ job' = [job EXCEPT ![j] = [Direct!Unasked(@) EXCEPT !.pc = "confirm"]]
             /\ UNCHANGED <<objects, locked>>
    <2> DEFINE b == [job[j] EXCEPT !.what = Nothing, !.by = Direct!NoLink, !.read = Nothing,
                                   !.pc = "confirm"]
    <2>1. job' = [job EXCEPT ![j] = b]
      BY <1>4 DEF Direct!Unasked
    <2>2. /\ b \in Works /\ b.pc = "confirm" /\ b.object = job[j].object /\ b.kind = job[j].kind
          /\ b.want = job[j].want /\ b.key = job[j].key
      BY <1>2 DEF Works
    <2> HIDE DEF b
    <2> QED BY <1>1, <1>2, <1>4, <2>1, <2>2, TurnEnds
  <1>5. CASE Direct!Fails(j)
    BY <1>1, <1>2, <1>5, CommandFails
  <1> QED BY <1>1, <1>3, <1>4, <1>5

LEMMA RefreshTurns ==
  ASSUME DirectInvariant, NEW j \in Jobs, Direct!RefreshNext(j)
  PROVE  DirectInvariant'
  <1>1. /\ job[j].pc = "next" /\ job[j].kind = "refresh"
        /\ UNCHANGED <<link, connections, held, changes, state, objects, reused>>
        /\ \/ /\ Direct!Current(job[j].object) /\ UNCHANGED locked
              /\ \E s \in job[j].todo : Direct!Asks(j, "read", s)
           \/ Direct!Ends(j)
    BY DEF Direct!RefreshNext
  <1>2. job[j] \in Works /\ HasLock(j)
    BY <1>1, WorksAreTyped DEF Working, DirectInvariant, HasLock
  <1>3. CASE Direct!Current(job[j].object) /\ UNCHANGED locked
             /\ \E s \in job[j].todo : Direct!Asks(j, "read", s)
    <2>1. PICK s \in job[j].todo : Direct!Asks(j, "read", s)
      BY <1>3
    <2>2. s \in Settings
      BY <1>2 DEF Works
    <2> QED BY <1>1, <1>3, <2>1, <2>2, RequestMade
  <1>4. CASE Direct!Ends(j)
    BY <1>1, <1>2, <1>4, TurnEnds DEF Direct!Ends, Rests
  <1> QED BY <1>1, <1>3, <1>4

LEMMA CommandTurns ==
  ASSUME DirectInvariant, NEW j \in Jobs, NEW what \in {"write", "confirm"},
         Direct!CommandNext(j, what)
  PROVE  DirectInvariant'
  <1>1. /\ job[j].pc \in {"next", "confirm"} /\ job[j].kind = "command"
        /\ UNCHANGED <<link, connections, held, changes, state, reused>>
        /\ \/ /\ Direct!Current(job[j].object) /\ Direct!Asks(j, what, job[j].key)
              /\ UNCHANGED <<objects, locked>>
           \/ Direct!Fails(j)
    BY DEF Direct!CommandNext, Direct!Allowed
  <1>2. HasLock(j) /\ JobFits(j) /\ job[j].key \in Settings
    BY <1>1, WorksAreTyped DEF Working, DirectInvariant, HasLock, JobFits
  <1>3. CASE /\ Direct!Current(job[j].object) /\ Direct!Asks(j, what, job[j].key)
             /\ UNCHANGED <<objects, locked>>
    <2>1. PICK s \in Settings : s = job[j].key
      BY <1>2
    <2> QED BY <1>1, <1>3, <2>1, RequestMade
  <1>4. CASE Direct!Fails(j)
    BY <1>1, <1>2, <1>4, CommandFails
  <1> QED BY <1>1, <1>3, <1>4

LEMMA RequestAnswered ==
  ASSUME DirectInvariant, NEW j \in Jobs, Direct!Answer(j)
  PROVE  DirectInvariant'
  <1> DEFINE read == [value |-> held'[job[j].key], by |-> job[j].by.number, under |-> changes]
             b == [job[j] EXCEPT !.pc = "answered", !.read = read]
  <1>1. /\ job[j].pc = "asking" /\ job[j].by = link
        /\ held' = IF job[j].what = "write" THEN [held EXCEPT ![job[j].key] = job[j].want] ELSE held
        /\ job' = [job EXCEPT ![j] = b]
        /\ UNCHANGED <<link, connections, changes, state, objects, locked, reused>>
    BY DEF Direct!Answer
  <1>2. job[j] \in Works /\ JobFits(j) /\ Direct!Waits(j) /\ HasLock(j)
    BY <1>1, WorksAreTyped DEF Working, DirectInvariant, HasLock, Direct!Waits
  <1>3. held'[job[j].key] \in Values /\ changes \in Nat /\ job[j].by.number \in Nat \ {0}
    BY <1>1, <1>2 DEF JobFits, DirectInvariant, DirectTyped, Links
  <1>4. read \in Readings /\ read.value = held'[job[j].key] /\ read.by = job[j].by.number
        /\ read.under = changes
    BY <1>3 DEF Readings
  <1> HIDE DEF read
  <1>5. /\ b \in Works /\ b.pc = "answered" /\ b.object = job[j].object /\ b.kind = job[j].kind
        /\ b.key = job[j].key /\ b.want = job[j].want /\ b.by = job[j].by /\ b.what = job[j].what
        /\ b.read = read
    BY <1>2, <1>4 DEF Works
  <1> HIDE DEF b
  <1> QED BY <1>1, <1>4, <1>5, RequestEnds

LEMMA RequestLost ==
  ASSUME DirectInvariant, NEW j \in Jobs, Direct!Lose(j)
  PROVE  DirectInvariant'
  <1> DEFINE b == [job[j] EXCEPT !.pc = "lost"]
  <1>1. /\ job[j].pc = "asking" /\ job' = [job EXCEPT ![j] = b]
        /\ \/ held' = held
           \/ /\ job[j].what = "write" /\ job[j].by = link
              /\ held' = [held EXCEPT ![job[j].key] = job[j].want]
        /\ UNCHANGED <<link, connections, changes, state, objects, locked, reused>>
    BY DEF Direct!Lose
  <1>2. job[j] \in Works
    BY <1>1, WorksAreTyped DEF Working, DirectInvariant
  <1>3. /\ b \in Works /\ b.pc = "lost" /\ b.object = job[j].object /\ b.kind = job[j].kind
        /\ b.key = job[j].key /\ b.want = job[j].want /\ b.by = job[j].by /\ b.what = job[j].what
    BY <1>2 DEF Works
  <1> HIDE DEF b
  <1> QED BY <1>1, <1>3, RequestEnds

LEMMA DirectKeeps ==
  ASSUME DirectNames, DirectInvariant, [Direct!Next]_Direct!vars
  PROVE  DirectInvariant'
  <1>1. CASE UNCHANGED Direct!vars
    BY <1>1, NothingKnownChanges DEF Direct!vars
  <1>2. ASSUME NEW k \in Keys, Direct!Connect(k)
        PROVE  DirectInvariant'
    <2>1. link' = [number |-> connections + 1, key |-> k] /\ link.key # k
      BY <1>2 DEF Direct!Connect
    <2>2. link' # link /\ DOMAIN objects = 1..Len(objects)
      BY <2>1 DEF DirectInvariant, DirectTyped
    <2>3. /\ connections' = connections + 1
          /\ \A j \in Jobs : Direct!Waits(j) => job[j].by.key # k
          /\ reused \subseteq reused'
          /\ (\E o \in 1..Len(objects) : objects[o].session = k) => k \in reused'
          /\ UNCHANGED <<held, changes, state, objects, locked, job>>
      BY <1>2, <2>2 DEF Direct!Connect
    <2> QED BY <2>1, <2>2, <2>3, ConnectionChanges
  <1>3. CASE Direct!Disconnect
    BY <1>3, ConnectionChanges DEF Direct!Disconnect
  <1>4. CASE Direct!CheckSessions
    BY <1>4, ValuesDropped DEF Direct!CheckSessions
  <1>5. ASSUME NEW s \in Settings, NEW v \in Values, Direct!ChangeElsewhere(s, v)
        PROVE  DirectInvariant'
    <2>1. held' \in [Settings -> Values]
      BY <1>5 DEF Direct!ChangeElsewhere, DirectInvariant, DirectTyped
    <2> QED BY <1>5, <2>1, ElsewhereChanged DEF Direct!ChangeElsewhere
  <1>6. ASSUME NEW p \in Profiles, NEW due \in BOOLEAN, NEW j \in Jobs, Direct!Observe(p, due, j)
        PROVE  DirectInvariant'
    <2>1. /\ link # Direct!NoLink
          /\ \/ UNCHANGED <<state, objects>>
             \/ /\ state' = Len(objects) + 1
                /\ objects' = Append(objects, Direct!Object(p, link.key))
          /\ \/ job' = job
             \/ job[j].pc = "idle" /\ job' = [job EXCEPT ![j] = Direct!Starting]
          /\ UNCHANGED <<link, connections, held, changes, locked, reused>>
      BY <1>6 DEF Direct!Observe
    <2>2. CASE UNCHANGED <<state, objects>>
      BY <2>1, <2>2, NothingKnownChanges, RefreshDue
    <2>3. CASE /\ state' = Len(objects) + 1
               /\ objects' = Append(objects, Direct!Object(p, link.key))
      BY <2>1, <2>3, ObjectMade
    <2> QED BY <2>1, <2>2, <2>3
  <1>7. ASSUME NEW j \in Jobs, Direct!Press(j)
        PROVE  DirectInvariant'
    BY <1>7, RefreshDue DEF Direct!Press
  <1>8. ASSUME NEW j \in Jobs, Direct!RefreshStarts(j)
        PROVE  DirectInvariant'
    <2>1. /\ job[j].pc = "start"
          /\ UNCHANGED <<link, connections, held, changes, state, objects, locked, reused>>
      BY <1>8 DEF Direct!RefreshStarts
    <2>2. CASE Direct!Available
      <3>1. state \in 1..Len(objects) /\ state # 0
        BY <2>2 DEF Direct!Available, DirectInvariant, DirectTyped
      <3>2. objects[state] \in Objects
        BY <3>1 DEF DirectInvariant, DirectTyped
      <3>3. PICK offered \in SUBSET Settings : offered = Offers[objects[state].profile]
        BY <3>2 DEF Objects, DirectNames
      <3> DEFINE b == Direct!Work("refresh", state, Nothing, Nothing, offered)
      <3>4. job' = [job EXCEPT ![j] = b]
        BY <1>8, <2>2, <3>3 DEF Direct!RefreshStarts
      <3>5. b \in Works /\ b.pc = "lock" /\ b.object = state /\ b.kind = "refresh"
        BY <3>1 DEF Direct!Work, Works, Direct!NoLink
      <3> HIDE DEF b
      <3> QED BY <2>1, <3>1, <3>4, <3>5, WorkBegins DEF Working
    <2>3. CASE ~Direct!Available
      <3>1. job' = [job EXCEPT ![j] = Direct!Idle]
        BY <1>8, <2>3 DEF Direct!RefreshStarts
      <3>2. job'[j] = Direct!Idle /\ ~Working(j) /\ ~Working(j)'
        BY <2>1, <3>1 DEF DirectInvariant, DirectTyped, Working, Direct!Idle
      <3>3. ~HasLock(j)' /\ ~Late(j)' /\ ~HearsNow(j)'
        BY <3>2 DEF HasLock, Late, HearsNow, Direct!Waits, Working
      <3>4. \A i \in Jobs \ {j} : HasLock(i) => job[i].object \in locked'
        BY <2>1 DEF DirectInvariant, JobFits, HasLock
      <3> QED BY <2>1, <3>1, <3>2, <3>3, <3>4, WorkGoesOn DEF Rests
    <2> QED BY <2>2, <2>3
  <1>9. ASSUME NEW j \in Jobs, NEW s \in Settings, NEW v \in Values, Direct!Command(j, s, v)
        PROVE  DirectInvariant'
    <2>1. /\ job[j].pc = "idle" /\ state # 0
          /\ job' = [job EXCEPT ![j] = Direct!Work("command", state, s, v, {})]
          /\ UNCHANGED <<link, connections, held, changes, state, objects, locked, reused>>
      BY <1>9 DEF Direct!Command, Direct!Offered, Direct!Available
    <2> DEFINE b == Direct!Work("command", state, s, v, {})
    <2>2. state \in Nat \ {0}
      BY <2>1 DEF DirectInvariant, DirectTyped
    <2>3. /\ b \in Works /\ b.pc = "lock" /\ b.object = state /\ b.key \in Settings
          /\ b.want \in Values
      BY <2>2 DEF Direct!Work, Works, Direct!NoLink
    <2>4. job' = [job EXCEPT ![j] = b]
      BY <2>1
    <2> HIDE DEF b
    <2> QED BY <2>1, <2>3, <2>4, WorkBegins DEF Working
  <1>10. ASSUME NEW j \in Jobs,
                \/ Direct!TakeLock(j) \/ Direct!RefreshNext(j) \/ Direct!Answer(j)
                \/ Direct!Lose(j) \/ Direct!RefreshHears(j) \/ Direct!CommandHears(j)
                \/ \E what \in {"write", "confirm"} : Direct!CommandNext(j, what)
         PROVE  DirectInvariant'
    BY <1>10, LockTaken, RefreshTurns, RequestAnswered, RequestLost, RefreshGoesOn,
       CommandGoesOn, CommandTurns
  <1> QED BY <1>1, <1>2, <1>3, <1>4, <1>5, <1>6, <1>7, <1>8, <1>9, <1>10 DEF Direct!Next

LEMMA OfferedIsKnown ==
  ASSUME DirectNames, DirectInvariant
  PROVE  Direct!OfferedIsTrue
  <1> SUFFICES ASSUME NEW s \in Direct!Offered
               PROVE  /\ objects[state].session \notin reused => Direct!Read(s).by = link.number
                      /\ Direct!Read(s).under = changes /\ Direct!Read(s).by = link.number =>
                           Direct!Read(s).value = held[s] \/ Direct!Unsettled(s)
    BY DEF Direct!OfferedIsTrue
  <1>1. /\ state # 0 /\ link.key # Nothing /\ objects[state].session = link.key
        /\ objects[state].values[s] # Nothing /\ s \in Offers[objects[state].profile]
    BY DEF Direct!Offered, Direct!Available, Direct!Current
  <1>2. state \in 1..Len(objects) /\ objects[state] \in Objects
    BY <1>1 DEF DirectInvariant, DirectTyped
  <1>3. s \in Settings
    BY <1>1, <1>2 DEF Objects, DirectNames
  <1>4. KnownWell(state, s) /\ KeptWell(s)
    BY <1>1, <1>2, <1>3 DEF DirectInvariant
  <1>5. CommandUnderWay(s) => Direct!Unsettled(s)
    BY DEF CommandUnderWay, Working, Direct!Unsettled
  <1> QED BY <1>1, <1>4, <1>5 DEF KnownWell, KeptWell, Direct!Read

(* A setting offered was read since this session key came up, and shows    *)
(* what the inverter holds unless another changed it since or a command    *)
(* for it is under way, whatever the keys, profiles, settings, refreshes   *)
(* and commands, and however often objects and connections are replaced    *)
(* (direct_controls.py:92, 139-160, 205-216).                              *)
THEOREM OfferedStaysTrue == DirectNames /\ Direct!Spec => []Direct!OfferedIsTrue
  <1> DEFINE Inv == DirectNames /\ DirectInvariant
  <1>1. DirectNames /\ Direct!Init => Inv
    BY DirectStarts
  <1>2. Inv /\ [Direct!Next]_Direct!vars => Inv'
    BY DirectKeeps DEF DirectNames
  <1>3. Inv => Direct!OfferedIsTrue
    BY OfferedIsKnown
  <1> QED BY <1>1, <1>2, <1>3, PTL DEF Direct!Spec

-----------------------------------------------------------------------------
(* Division.                                                               *)

LEMMA Division ==
  ASSUME NEW N \in Nat \ {0}, NEW x \in Nat
  PROVE  x % N \in 0..(N - 1) /\ x \div N \in Nat /\ x = N * (x \div N) + (x % N)
  BY Z3

LEMMA Turns ==
  ASSUME NEW N \in Nat \ {0}, NEW p \in Int, NEW q \in Int, p < q
  PROVE  N * q - N * p >= N
  <1>1. PICK d \in Nat : q = p + d + 1
    <2>1. q - p - 1 \in Nat /\ q = p + (q - p - 1) + 1
      OBVIOUS
    <2> QED BY <2>1
  <1> DEFINE A == N * q
             B == N * p
             C == N * d
  <1>2. A \in Int /\ B \in Int /\ C \in Int
    BY <1>1
  <1>3. A = B + C + N /\ C >= 0
    BY <1>1, Z3
  <1> HIDE DEF A, B, C
  <1>4. A - B >= N
    BY <1>2, <1>3
  <1> QED BY <1>4 DEF A, B

-----------------------------------------------------------------------------
(* Sequences put one after the other.                                      *)

\* What holds of 0 and goes on from each number to the next holds of all: otherwise the
\* numbers up to a counterexample would fit in one place less.
LEMMA FromEachToTheNext ==
  ASSUME NEW S, 0 \in S, \A k \in Nat : k \in S => k + 1 \in S
  PROVE  \A n \in Nat : n \in S
  <1> SUFFICES ASSUME NEW n \in Nat, n \notin S PROVE FALSE
    OBVIOUS
  <1> DEFINE f == [k \in 0..n |-> IF k \in S THEN k + 1 ELSE k]
  <1>1. f \in [0..n -> 1..n]
    <2>1. ASSUME NEW k \in 0..n
          PROVE  (IF k \in S THEN k + 1 ELSE k) \in 1..n
      <3>1. CASE k \in S
        BY <3>1
      <3>2. CASE k \notin S
        <4>1. k # 0
          BY <3>2
        <4> QED BY <3>2, <4>1
      <3> QED BY <3>1, <3>2
    <2> QED BY <2>1
  <1>2. /\ IsFiniteSet(0..n) /\ Cardinality(0..n) = n + 1
        /\ IsFiniteSet(1..n) /\ Cardinality(1..n) = n
    BY FS_Interval
  <1>3. PICK x \in 0..n, y \in 0..n : x # y /\ f[x] = f[y]
    <2>1. Cardinality(1..n) < Cardinality(0..n)
      BY <1>2
    <2> HIDE DEF f
    <2> QED BY <1>1, <1>2, <2>1, FS_PigeonHole
  <1>4. (IF x \in S THEN x + 1 ELSE x) = (IF y \in S THEN y + 1 ELSE y)
    BY <1>3
  <1> HIDE DEF f
  <1>5. CASE x \in S
    BY <1>3, <1>4, <1>5
  <1>6. CASE x \notin S
    BY <1>3, <1>4, <1>6
  <1> QED BY <1>5, <1>6

\* Every element is related so to those behind it.
Spread(s, D) == \A i, j \in 1..Len(s) : i < j => <<s[i], s[j]>> \in D

\* Sequences put one after the other have what is in each of them, in the relation that
\* holds within and between them.
Joined(s, seqs, n, S, D) ==
  /\ s \in Seq(S)
  /\ \A i \in 1..Len(s) : \E k \in 1..n : \E j \in 1..Len(seqs[k]) : s[i] = seqs[k][j]
  /\ \A k \in 1..n : \A j \in 1..Len(seqs[k]) : \E i \in 1..Len(s) : s[i] = seqs[k][j]
  /\ Spread(s, D)

Placed(q, s, t) ==
  /\ Len(q) = Len(s) + Len(t) /\ Len(s) \in Nat /\ Len(t) \in Nat
  /\ \A i \in 1..Len(q) : i <= Len(s) => i \in 1..Len(s) /\ q[i] = s[i]
  /\ \A i \in 1..Len(q) : ~(i <= Len(s)) => i - Len(s) \in 1..Len(t) /\ q[i] = t[i - Len(s)]
  /\ \A i \in 1..Len(s) : i \in 1..Len(q) /\ q[i] = s[i]
  /\ \A i \in 1..Len(t) : Len(s) + i \in 1..Len(q) /\ q[Len(s) + i] = t[i]

LEMMA PlacesJoined ==
  ASSUME NEW S, NEW s \in Seq(S), NEW t \in Seq(S), NEW q, q = s \o t
  PROVE  q \in Seq(S) /\ Placed(q, s, t)
  <1>1. /\ q \in Seq(S) /\ Len(q) = Len(s) + Len(t) /\ Len(s) \in Nat /\ Len(t) \in Nat
        /\ \A i \in 1..Len(q) : q[i] = IF i <= Len(s) THEN s[i] ELSE t[i - Len(s)]
    BY ConcatProperties
  <1>2. \A i \in 1..Len(q) : ~(i <= Len(s)) => i - Len(s) \in 1..Len(t)
    BY <1>1
  <1>3. ASSUME NEW i \in 1..Len(t)
        PROVE  Len(s) + i \in 1..Len(q) /\ q[Len(s) + i] = t[i]
    <2>1. Len(s) + i \in 1..Len(q) /\ ~(Len(s) + i <= Len(s)) /\ (Len(s) + i) - Len(s) = i
      BY <1>1
    <2> QED BY <1>1, <2>1
  <1>4. ASSUME NEW i \in 1..Len(s)
        PROVE  i \in 1..Len(q) /\ q[i] = s[i]
    <2>1. i \in 1..Len(q) /\ i <= Len(s)
      BY <1>1
    <2> QED BY <1>1, <2>1
  <1>5. ASSUME NEW i \in 1..Len(q)
        PROVE  /\ i <= Len(s) => i \in 1..Len(s) /\ q[i] = s[i]
               /\ ~(i <= Len(s)) => q[i] = t[i - Len(s)]
    BY <1>1
  <1> QED BY <1>1, <1>2, <1>3, <1>4, <1>5 DEF Placed

LEMMA Join ==
  ASSUME NEW S, NEW D, NEW seqs \in Seq(Seq(S)), NEW n \in Nat, n + 1 <= Len(seqs),
         NEW s, Joined(s, seqs, n, S, D), Spread(seqs[n + 1], D),
         \A k \in 1..n : \A i \in 1..Len(seqs[k]), j \in 1..Len(seqs[n + 1]) :
           <<seqs[k][i], seqs[n + 1][j]>> \in D
  PROVE  Joined(s \o seqs[n + 1], seqs, n + 1, S, D)
  <1>1. PICK t \in Seq(S) : t = seqs[n + 1]
    OBVIOUS
  <1>2. PICK q : q = s \o t
    OBVIOUS
  <1>3. s \in Seq(S) /\ Spread(s, D) /\ Spread(t, D)
    BY <1>1 DEF Joined
  <1>4. /\ q \in Seq(S) /\ Len(q) = Len(s) + Len(t) /\ Len(s) \in Nat /\ Len(t) \in Nat
        /\ \A i \in 1..Len(q) : i <= Len(s) => i \in 1..Len(s) /\ q[i] = s[i]
        /\ \A i \in 1..Len(q) : ~(i <= Len(s)) => i - Len(s) \in 1..Len(t) /\ q[i] = t[i - Len(s)]
        /\ \A i \in 1..Len(s) : i \in 1..Len(q) /\ q[i] = s[i]
        /\ \A i \in 1..Len(t) : Len(s) + i \in 1..Len(q) /\ q[Len(s) + i] = t[i]
    <2>1. q \in Seq(S) /\ Placed(q, s, t)
      BY <1>2, <1>3, PlacesJoined, Zenon
    <2> QED BY <2>1, Zenon DEF Placed
  <1>5. ASSUME NEW a \in 1..Len(s)
        PROVE  \E k \in 1..n : \E m \in 1..Len(seqs[k]) : s[a] = seqs[k][m]
    BY DEF Joined
  <1>6. ASSUME NEW i \in 1..Len(q)
        PROVE  \E k \in 1..(n + 1) : \E j \in 1..Len(seqs[k]) : q[i] = seqs[k][j]
    <2>1. CASE i <= Len(s)
      <3>0. i \in 1..Len(s) /\ q[i] = s[i]
        BY <1>4, <2>1
      <3>1. PICK k \in 1..n : \E m \in 1..Len(seqs[k]) : s[i] = seqs[k][m]
        BY <1>5, <3>0
      <3>2. k \in 1..(n + 1)
        OBVIOUS
      <3> QED BY <3>0, <3>1, <3>2
    <2>2. CASE ~(i <= Len(s))
      <3>1. n + 1 \in 1..(n + 1)
        OBVIOUS
      <3> QED BY <1>1, <1>4, <2>2, <3>1
    <2> QED BY <2>1, <2>2
  <1>7. ASSUME NEW k \in 1..(n + 1), NEW j \in 1..Len(seqs[k])
        PROVE  \E i \in 1..Len(q) : q[i] = seqs[k][j]
    <2>1. CASE k = n + 1
      BY <1>1, <1>4, <2>1
    <2>2. CASE k # n + 1
      <3>1. k \in 1..n
        BY <2>2
      <3>2. PICK i \in 1..Len(s) : s[i] = seqs[k][j]
        BY <3>1 DEF Joined
      <3> QED BY <1>4, <3>2
    <2> QED BY <2>1, <2>2
  <1>8. ASSUME NEW i \in 1..Len(q), NEW j \in 1..Len(q), i < j
        PROVE  <<q[i], q[j]>> \in D
    <2>1. ASSUME NEW a \in 1..Len(s), NEW b \in 1..Len(t)
          PROVE  <<s[a], t[b]>> \in D
      <3>1. PICK k \in 1..n : \E m \in 1..Len(seqs[k]) : s[a] = seqs[k][m]
        BY <1>5
      <3> QED BY <1>1, <3>1
    <2>2. CASE i <= Len(s) /\ j <= Len(s)
      BY <1>3, <1>4, <1>8, <2>2 DEF Spread
    <2>3. CASE i <= Len(s) /\ ~(j <= Len(s))
      BY <1>4, <2>1, <2>3
    <2>4. CASE ~(i <= Len(s)) /\ j <= Len(s)
      BY <1>4, <1>8, <2>4
    <2>5. CASE ~(i <= Len(s)) /\ ~(j <= Len(s))
      <3>1. i - Len(s) < j - Len(s)
        BY <1>4, <1>8
      <3> QED BY <1>3, <1>4, <2>5, <3>1 DEF Spread
    <2> QED BY <2>2, <2>3, <2>4, <2>5
  <1>9. Spread(q, D)
    BY <1>8 DEF Spread
  <1>10. Joined(q, seqs, n + 1, S, D)
    BY <1>4, <1>6, <1>7, <1>9 DEF Joined
  <1> QED BY <1>1, <1>2, <1>10

\* FlattenSeq is defined by a recursive function: there is one.
LEMMA Flattening ==
  ASSUME NEW seqs, Len(seqs) \in Nat
  PROVE  \E g : g = [i \in 1..Len(seqs) |-> IF i = 1 THEN seqs[i] ELSE g[i - 1] \o seqs[i]]
  <1> DEFINE Value(g, i) == IF i = 1 THEN seqs[i] ELSE g[i - 1] \o seqs[i]
             T == {n \in Nat : \E g : g = [i \in 1..n |-> Value(g, i)]}
  <1>1. 0 \in T
    <2> DEFINE g == [i \in 1..0 |-> seqs[i]]
    <2>1. g = [i \in 1..0 |-> Value(g, i)]
      OBVIOUS
    <2> QED BY <2>1
  <1>2. ASSUME NEW n \in Nat, n \in T
        PROVE  n + 1 \in T
    <2>1. PICK g : g = [i \in 1..n |-> Value(g, i)]
      BY <1>2
    <2> DEFINE h == [i \in 1..(n + 1) |-> IF i = n + 1 THEN Value(g, i) ELSE g[i]]
    <2>2. ASSUME NEW i \in 1..(n + 1)
          PROVE  h[i] = Value(h, i)
      <3>1. i # 1 => i - 1 \in 1..n /\ h[i - 1] = g[i - 1]
        OBVIOUS
      <3>2. Value(h, i) = Value(g, i)
        <4>1. CASE i = 1
          BY <4>1
        <4>2. CASE i # 1
          <5>1. h[i - 1] = g[i - 1]
            BY <3>1, <4>2
          <5> HIDE DEF h
          <5> QED BY <4>2, <5>1
        <4> QED BY <4>1, <4>2
      <3>3. h[i] = Value(g, i)
        <4>1. CASE i = n + 1
          BY <4>1
        <4>2. CASE i # n + 1
          <5>1. i \in 1..n /\ h[i] = g[i]
            BY <4>2
          <5> HIDE DEF h, Value
          <5> QED BY <2>1, <5>1
        <4> QED BY <4>1, <4>2
      <3> QED BY <3>2, <3>3
    <2>3. h = [i \in 1..(n + 1) |-> h[i]]
      OBVIOUS
    <2> HIDE DEF h, Value
    <2>4. h = [i \in 1..(n + 1) |-> Value(h, i)]
      BY <2>2, <2>3
    <2> QED BY <2>4
  <1> HIDE DEF T
  <1>3. Len(seqs) \in T
    BY <1>1, <1>2, FromEachToTheNext
  <1> QED BY <1>3 DEF T

LEMMA Flattened ==
  ASSUME NEW S, NEW D, NEW seqs \in Seq(Seq(S)),
         \A k \in 1..Len(seqs) : Spread(seqs[k], D),
         \A k, l \in 1..Len(seqs) : k < l =>
           \A i \in 1..Len(seqs[k]), j \in 1..Len(seqs[l]) : <<seqs[k][i], seqs[l][j]>> \in D
  PROVE  Joined(Reads!FlattenSeq(seqs), seqs, Len(seqs), S, D)
  <1>0. Len(seqs) \in Nat /\ \A k \in 1..Len(seqs) : seqs[k] \in Seq(S)
    OBVIOUS
  <1>1. CASE Len(seqs) = 0
    <2>1. Reads!FlattenSeq(seqs) = seqs /\ seqs \in Seq(S)
      BY <1>1 DEF Reads!FlattenSeq
    <2> QED BY <1>1, <2>1 DEF Joined, Spread
  <1>2. CASE Len(seqs) # 0
    <2> DEFINE f[i \in 1..Len(seqs)] == IF i = 1 THEN seqs[i] ELSE f[i - 1] \o seqs[i]
    <2>1. Reads!FlattenSeq(seqs) = f[Len(seqs)]
      BY <1>2, Zenon DEF Reads!FlattenSeq
    <2>2. f = [i \in 1..Len(seqs) |-> IF i = 1 THEN seqs[i] ELSE f[i - 1] \o seqs[i]]
      BY <1>0, Flattening, Zenon
    <2> HIDE DEF f
    <2>3. \A i \in 1..Len(seqs) : f[i] = IF i = 1 THEN seqs[i] ELSE f[i - 1] \o seqs[i]
      BY <2>2
    <2>4. Joined(f[1], seqs, 1, S, D)
      <3>1. 1 \in 1..Len(seqs) /\ f[1] = seqs[1]
        BY <1>0, <1>2, <2>3
      <3> QED BY <1>0, <3>1 DEF Joined
    <2>5. ASSUME NEW m \in Nat \ {0}, m + 1 <= Len(seqs), Joined(f[m], seqs, m, S, D)
          PROVE  Joined(f[m + 1], seqs, m + 1, S, D)
      <3>1. m + 1 \in 1..Len(seqs) /\ m + 1 # 1 /\ (m + 1) - 1 = m
        BY <1>0, <2>5
      <3>2. f[m + 1] = f[m] \o seqs[m + 1]
        BY <2>3, <3>1, Zenon
      <3>3. \A k \in 1..m : k \in 1..Len(seqs) /\ k < m + 1
        BY <1>0, <3>1
      <3>4. \A k \in 1..m : \A i \in 1..Len(seqs[k]), j \in 1..Len(seqs[m + 1]) :
               <<seqs[k][i], seqs[m + 1][j]>> \in D
        BY <3>1, <3>3, Zenon
      <3>5. Spread(seqs[m + 1], D)
        BY <3>1
      <3> HIDE DEF Joined
      <3>6. Joined(f[m] \o seqs[m + 1], seqs, m + 1, S, D)
        BY <2>5, <3>4, <3>5, Join
      <3> QED BY <3>2, <3>6
    <2> DEFINE U == {n \in Nat : n + 1 <= Len(seqs) => Joined(f[n + 1], seqs, n + 1, S, D)}
    <2>6. 0 \in U
      <3>1. 0 + 1 = 1 /\ 0 \in Nat
        OBVIOUS
      <3> QED BY <2>4, <3>1
    <2>7. ASSUME NEW n \in Nat, n \in U
          PROVE  n + 1 \in U
      <3>1. PICK m \in Nat \ {0} : m = n + 1
        OBVIOUS
      <3>2. m + 1 <= Len(seqs) => Joined(f[m + 1], seqs, m + 1, S, D)
        <4>1. m + 1 <= Len(seqs) => m <= Len(seqs)
          BY <1>0
        <4> QED BY <2>5, <2>7, <3>1, <4>1
      <3> QED BY <3>1, <3>2
    <2> HIDE DEF U
    <2>9. Len(seqs) - 1 \in U
      <3>1. Len(seqs) - 1 \in Nat
        BY <1>0, <1>2
      <3> QED BY <2>6, <2>7, <3>1, FromEachToTheNext, Zenon
    <2>8. Joined(f[Len(seqs)], seqs, Len(seqs), S, D)
      <3>1. (Len(seqs) - 1) + 1 = Len(seqs)
        BY <1>0
      <3> QED BY <1>0, <2>9, <3>1 DEF U
    <2> QED BY <2>1, <2>8
  <1> QED BY <1>1, <1>2

-----------------------------------------------------------------------------
(* Register reads.                                                         *)

Block == [kind : {"input", "holding"}, first : Nat, count : Nat]
Apart == {p \in Block \X Block : Reads!Cells(p[1]) \cap Reads!Cells(p[2]) = {}}
AddressesOf(range) == range[1]..(range[1] + range[2] - 1)

\* Kinds asked once and ranges that do not overlap.
ReadsApart ==
  /\ MAX_WORDS \in Nat \ {0}
  /\ Ways \subseteq {"tcp", "udp", "serial"} \X {"scan", "poll"}
  /\ \A c \in {"scan", "poll"} :
       /\ Kinds[c] \in Seq({"input", "holding"})
       /\ \A i, j \in 1..Len(Kinds[c]) : i # j => Kinds[c][i] # Kinds[c][j]
  /\ Ranges \in Seq(Nat \X Nat)
  /\ \A i, j \in 1..Len(Ranges) :
       i # j => AddressesOf(Ranges[i]) \cap AddressesOf(Ranges[j]) = {}

LEMMA CellOf ==
  ASSUME NEW b \in Block, NEW c
  PROVE  c \in Reads!Cells(b) <=> \E a \in b.first..(b.first + b.count - 1) : c = <<b.kind, a>>
  BY DEF Reads!Cells

\* The blocks of a range have its addresses, each once.
LEMMA RangeInBlocks ==
  ASSUME NEW sort \in {"input", "holding"}, NEW f \in Nat, NEW c \in Nat,
         MAX_WORDS \in Nat \ {0}
  PROVE  LET s == Reads!BlocksOf(sort, <<f, c>>)
         IN /\ s \in Seq(Block)
            /\ Spread(s, Apart)
            /\ \A k \in 1..Len(s) : Reads!Cells(s[k]) \subseteq {sort} \X AddressesOf(<<f, c>>)
            /\ \A a \in AddressesOf(<<f, c>>) : \E k \in 1..Len(s) : <<sort, a>> \in Reads!Cells(s[k])
  <1>1. PICK M \in Nat \ {0} : M = MAX_WORDS
    OBVIOUS
  <1>2. PICK N \in Nat : N = (c + M - 1) \div M
    <2>1. c + M - 1 \in Nat
      OBVIOUS
    <2> QED BY <2>1, Division
  <1>3. PICK rest \in 0..(M - 1) : c + M - 1 = M * N + rest
    <2>1. c + M - 1 \in Nat
      OBVIOUS
    <2> QED BY <1>2, <2>1, Division
  <1> DEFINE Offset(k) == (k - 1) * M
             Element(k) == [kind |-> sort, first |-> f + Offset(k),
                            count |-> IF c - Offset(k) < M THEN c - Offset(k) ELSE M]
             s == [k \in 1..N |-> Element(k)]
  <1>4. Reads!BlocksOf(sort, <<f, c>>) = s
    BY <1>1, <1>2, Zenon DEF Reads!BlocksOf
  <1>5. ASSUME NEW k \in 1..N
        PROVE  Offset(k) \in Nat /\ Offset(k) < c
    <2>1. Offset(k) \in Nat
      <3>1. k - 1 \in Nat
        OBVIOUS
      <3> QED BY <3>1, Z3
    <2>2. M * N - M * (k - 1) >= M
      BY Turns
    <2>3. M * (k - 1) = Offset(k)
      BY Z3
    <2>4. M * N \in Nat
      BY Z3
    <2> HIDE DEF Offset
    <2>5. PICK p \in Nat : p = M * N
      BY <2>4
    <2> QED BY <1>3, <2>1, <2>2, <2>3, <2>5
  <1>6. ASSUME NEW k \in 1..N, NEW l \in 1..N, k < l
        PROVE  Offset(k) + M <= Offset(l)
    <2>1. M * (l - 1) - M * (k - 1) >= M
      <3>1. k - 1 \in Int /\ l - 1 \in Int /\ k - 1 < l - 1
        BY <1>6
      <3> QED BY <3>1, Turns
    <2>2. M * (k - 1) = Offset(k) /\ M * (l - 1) = Offset(l)
      BY Z3
    <2>3. Offset(k) \in Nat /\ Offset(l) \in Nat
      BY <1>5
    <2> HIDE DEF Offset
    <2> QED BY <2>1, <2>2, <2>3
  <1>7. ASSUME NEW x \in Nat, x < c
        PROVE  \E k \in 1..N : Offset(k) <= x /\ x < Offset(k) + M
    <2>1. PICK q \in Nat, r \in 0..(M - 1) : x = M * q + r
      BY Division
    <2>2. PICK A \in Nat : A = M * q
      BY Z3
    <2>3. PICK B \in Nat : B = M * N
      BY Z3
    <2>4. q < N
      <3>1. SUFFICES ASSUME N <= q PROVE FALSE
        OBVIOUS
      <3>2. N = q \/ A - B >= M
        BY <2>2, <2>3, <3>1, Turns
      <3>3. A >= B
        BY <2>2, <2>3, <3>2
      <3> QED BY <1>3, <1>7, <2>1, <2>2, <2>3, <3>3
    <2>5. q + 1 \in 1..N
      BY <2>4
    <2>6. Offset(q + 1) = A
      BY <2>2, Z3
    <2> HIDE DEF Offset
    <2>7. Offset(q + 1) <= x /\ x < Offset(q + 1) + M
      BY <2>1, <2>2, <2>6
    <2> QED BY <2>5, <2>7
  <1> HIDE DEF Offset
  <1>8. ASSUME NEW k \in 1..N
        PROVE  Element(k) \in Block
    BY <1>5 DEF Block
  <1>9. s \in Seq(Block) /\ Len(s) = N /\ \A k \in 1..N : s[k] = Element(k)
    <2> HIDE DEF Element
    <2> QED BY <1>8
  <1>10. ASSUME NEW k \in 1..N, NEW cell
         PROVE  cell \in Reads!Cells(Element(k)) <=>
                  \E a \in (f + Offset(k))..(f + c - 1) :
                    cell = <<sort, a>> /\ a < f + Offset(k) + M
    <2>1. cell \in Reads!Cells(Element(k)) <=>
            \E a \in Element(k).first..(Element(k).first + Element(k).count - 1) : cell = <<sort, a>>
      <3>1. Element(k).kind = sort
        OBVIOUS
      <3> HIDE DEF Element
      <3> QED BY <1>8, <3>1, CellOf
    <2>2. ASSUME NEW a \in Int
          PROVE  a \in Element(k).first..(Element(k).first + Element(k).count - 1) <=>
                   a \in (f + Offset(k))..(f + c - 1) /\ a < f + Offset(k) + M
      BY <1>5
    <2>3. Element(k).first \in Int /\ Element(k).first + Element(k).count - 1 \in Int
          /\ f + Offset(k) \in Int /\ f + c - 1 \in Int
      BY <1>5
    <2> HIDE DEF Element
    <2> QED BY <2>1, <2>2, <2>3
  <1> HIDE DEF Element
  <1>11. ASSUME NEW k \in 1..N, NEW l \in 1..N, k < l
         PROVE  Reads!Cells(Element(k)) \cap Reads!Cells(Element(l)) = {}
    <2>1. Offset(k) \in Nat /\ Offset(l) \in Nat /\ Offset(k) + M <= Offset(l)
      BY <1>5, <1>6, <1>11
    <2>2. ASSUME NEW cell, cell \in Reads!Cells(Element(k)), cell \in Reads!Cells(Element(l))
          PROVE  FALSE
      <3>1. PICK a \in (f + Offset(k))..(f + c - 1) : cell = <<sort, a>> /\ a < f + Offset(k) + M
        BY <1>10, <2>2
      <3>2. PICK d \in (f + Offset(l))..(f + c - 1) : cell = <<sort, d>>
        BY <1>10, <2>2
      <3> QED BY <2>1, <3>1, <3>2
    <2> QED BY <2>2
  <1>12. Spread(s, Apart)
    <2>1. ASSUME NEW i \in 1..N, NEW j \in 1..N, i < j
          PROVE  <<Element(i), Element(j)>> \in Apart
      <3>2. Reads!Cells(Element(i)) \cap Reads!Cells(Element(j)) = {}
        BY <1>11, <2>1
      <3> QED BY <1>8, <3>2 DEF Apart
    <2> HIDE DEF s
    <2> QED BY <1>9, <2>1 DEF Spread
  <1>13. \A k \in 1..N : Reads!Cells(Element(k)) \subseteq {sort} \X AddressesOf(<<f, c>>)
    <2> TAKE k \in 1..N
    <2>1. ASSUME NEW cell \in Reads!Cells(Element(k))
          PROVE  cell \in {sort} \X AddressesOf(<<f, c>>)
      <3>1. PICK a \in (f + Offset(k))..(f + c - 1) : cell = <<sort, a>>
        BY <1>10
      <3>2. a \in AddressesOf(<<f, c>>)
        BY <1>5, <3>1 DEF AddressesOf
      <3> QED BY <3>1, <3>2
    <2> QED BY <2>1
  <1>14. ASSUME NEW a \in AddressesOf(<<f, c>>)
         PROVE  \E k \in 1..N : <<sort, a>> \in Reads!Cells(Element(k))
    <2>1. a \in f..(f + c - 1)
      BY DEF AddressesOf
    <2>2. a - f \in Nat /\ a - f < c
      BY <2>1
    <2>3. PICK k \in 1..N : Offset(k) <= a - f /\ a - f < Offset(k) + M
      BY <1>7, <2>2
    <2>4. a \in (f + Offset(k))..(f + c - 1) /\ a < f + Offset(k) + M
      BY <1>5, <2>1, <2>3
    <2> QED BY <1>10, <2>4
  <1> HIDE DEF s
  <1> QED BY <1>4, <1>9, <1>12, <1>13, <1>14

\* The ranges of one kind in blocks.
LEMMA KindInBlocks ==
  ASSUME ReadsApart, NEW sort \in {"input", "holding"}
  PROVE  LET s == Reads!FlattenSeq([n \in DOMAIN Ranges |-> Reads!BlocksOf(sort, Ranges[n])])
         IN /\ s \in Seq(Block)
            /\ Spread(s, Apart)
            /\ \A i \in 1..Len(s) : \E n \in 1..Len(Ranges) :
                 Reads!Cells(s[i]) \subseteq {sort} \X AddressesOf(Ranges[n])
            /\ \A n \in 1..Len(Ranges) : \A a \in AddressesOf(Ranges[n]) :
                 \E i \in 1..Len(s) : <<sort, a>> \in Reads!Cells(s[i])
  <1> DEFINE Part(n) == Reads!BlocksOf(sort, Ranges[n])
             seqs == [n \in DOMAIN Ranges |-> Part(n)]
             s == Reads!FlattenSeq(seqs)
  <1>1. ASSUME NEW n \in 1..Len(Ranges)
        PROVE  /\ Part(n) \in Seq(Block)
               /\ Spread(Part(n), Apart)
               /\ \A k \in 1..Len(Part(n)) :
                    Reads!Cells(Part(n)[k]) \subseteq {sort} \X AddressesOf(Ranges[n])
               /\ \A a \in AddressesOf(Ranges[n]) :
                    \E k \in 1..Len(Part(n)) : <<sort, a>> \in Reads!Cells(Part(n)[k])
    <2>1. PICK f \in Nat, c \in Nat : Ranges[n] = <<f, c>>
      <3>1. Ranges[n] \in Nat \X Nat
        BY DEF ReadsApart
      <3> QED BY <3>1
    <2>2. MAX_WORDS \in Nat \ {0}
      BY DEF ReadsApart
    <2> QED BY <2>1, <2>2, RangeInBlocks, Zenon
  <1> HIDE DEF Part
  <1>2. DOMAIN Ranges = 1..Len(Ranges) /\ Len(Ranges) \in Nat
    BY DEF ReadsApart
  <1>3. seqs \in Seq(Seq(Block)) /\ Len(seqs) = Len(Ranges)
        /\ \A n \in 1..Len(Ranges) : seqs[n] = Part(n)
    BY <1>1, <1>2
  <1> HIDE DEF seqs
  <1>4. \A k \in 1..Len(seqs) : Spread(seqs[k], Apart)
    BY <1>1, <1>3
  <1>5. ASSUME NEW k \in 1..Len(seqs), NEW l \in 1..Len(seqs), k < l,
               NEW i \in 1..Len(seqs[k]), NEW j \in 1..Len(seqs[l])
        PROVE  <<seqs[k][i], seqs[l][j]>> \in Apart
    <2>0. k # l
      BY <1>5
    <2>1. AddressesOf(Ranges[k]) \cap AddressesOf(Ranges[l]) = {}
      BY <1>3, <2>0 DEF ReadsApart
    <2>2. /\ Reads!Cells(seqs[k][i]) \subseteq {sort} \X AddressesOf(Ranges[k])
          /\ Reads!Cells(seqs[l][j]) \subseteq {sort} \X AddressesOf(Ranges[l])
      BY <1>1, <1>3
    <2>3. seqs[k][i] \in Block /\ seqs[l][j] \in Block
      BY <1>3
    <2>4. Reads!Cells(seqs[k][i]) \cap Reads!Cells(seqs[l][j]) = {}
      BY <2>1, <2>2
    <2> QED BY <2>3, <2>4 DEF Apart
  <1>6. Joined(s, seqs, Len(seqs), Block, Apart)
    <2> HIDE DEF Joined
    <2> QED BY <1>3, <1>4, <1>5, Flattened
  <1> HIDE DEF s
  <1>7. s \in Seq(Block) /\ Spread(s, Apart)
    BY <1>6 DEF Joined
  <1>8. ASSUME NEW i \in 1..Len(s)
        PROVE  \E n \in 1..Len(Ranges) :
                 Reads!Cells(s[i]) \subseteq {sort} \X AddressesOf(Ranges[n])
    <2>1. PICK k \in 1..Len(seqs) : \E j \in 1..Len(seqs[k]) : s[i] = seqs[k][j]
      BY <1>6 DEF Joined
    <2>2. PICK j \in 1..Len(seqs[k]) : s[i] = seqs[k][j]
      BY <2>1
    <2> QED BY <1>1, <1>3, <2>2
  <1>9. ASSUME NEW n \in 1..Len(Ranges), NEW a \in AddressesOf(Ranges[n])
        PROVE  \E i \in 1..Len(s) : <<sort, a>> \in Reads!Cells(s[i])
    <2>1. PICK k \in 1..Len(Part(n)) : <<sort, a>> \in Reads!Cells(Part(n)[k])
      BY <1>1
    <2>2. n \in 1..Len(seqs) /\ k \in 1..Len(seqs[n]) /\ seqs[n][k] = Part(n)[k]
      BY <1>3
    <2>3. PICK i \in 1..Len(s) : s[i] = seqs[n][k]
      BY <1>6, <2>2 DEF Joined
    <2> QED BY <2>1, <2>2, <2>3
  <1>10. s = Reads!FlattenSeq([n \in DOMAIN Ranges |-> Reads!BlocksOf(sort, Ranges[n])])
    BY Zenon DEF s, seqs, Part
  <1> QED BY <1>7, <1>8, <1>9, <1>10, Zenon

\* What a client reads: every address of every kind, once.
LEMMA AllInBlocks ==
  ASSUME ReadsApart, client \in {"scan", "poll"}
  PROVE  /\ Reads!Blocks \in Seq(Block)
         /\ Spread(Reads!Blocks, Apart)
         /\ Reads!Covered(Reads!ToSet(Reads!Blocks)) = Reads!Addresses
  <1> DEFINE kinds == Kinds[client]
             Part(k) == Reads!FlattenSeq([n \in DOMAIN Ranges |-> Reads!BlocksOf(kinds[k], Ranges[n])])
             seqs == [k \in DOMAIN kinds |-> Part(k)]
             s == Reads!FlattenSeq(seqs)
  <1>0. /\ kinds \in Seq({"input", "holding"}) /\ DOMAIN kinds = 1..Len(kinds) /\ Len(kinds) \in Nat
        /\ \A i, j \in 1..Len(kinds) : i # j => kinds[i] # kinds[j]
    <2>1. /\ kinds \in Seq({"input", "holding"})
          /\ \A i, j \in 1..Len(kinds) : i # j => kinds[i] # kinds[j]
      BY DEF ReadsApart
    <2> HIDE DEF kinds
    <2> QED BY <2>1
  <1> HIDE DEF kinds
  <1>1. ASSUME NEW k \in 1..Len(kinds)
        PROVE  /\ Part(k) \in Seq(Block)
               /\ Spread(Part(k), Apart)
               /\ \A i \in 1..Len(Part(k)) : \E n \in 1..Len(Ranges) :
                    Reads!Cells(Part(k)[i]) \subseteq {kinds[k]} \X AddressesOf(Ranges[n])
               /\ \A n \in 1..Len(Ranges) : \A a \in AddressesOf(Ranges[n]) :
                    \E i \in 1..Len(Part(k)) : <<kinds[k], a>> \in Reads!Cells(Part(k)[i])
    <2>1. kinds[k] \in {"input", "holding"}
      BY <1>0
    <2> QED BY <2>1, KindInBlocks, Zenon
  <1> HIDE DEF Part
  <1>2. seqs \in Seq(Seq(Block)) /\ Len(seqs) = Len(kinds)
        /\ \A k \in 1..Len(kinds) : seqs[k] = Part(k)
    BY <1>0, <1>1
  <1> HIDE DEF seqs
  <1>3. \A k \in 1..Len(seqs) : Spread(seqs[k], Apart)
    BY <1>1, <1>2
  <1>4. ASSUME NEW k \in 1..Len(seqs), NEW l \in 1..Len(seqs), k < l,
               NEW i \in 1..Len(seqs[k]), NEW j \in 1..Len(seqs[l])
        PROVE  <<seqs[k][i], seqs[l][j]>> \in Apart
    <2>0. k # l
      BY <1>4
    <2>1. kinds[k] # kinds[l]
      BY <1>0, <1>2, <2>0
    <2>2. PICK n \in 1..Len(Ranges) :
            Reads!Cells(seqs[k][i]) \subseteq {kinds[k]} \X AddressesOf(Ranges[n])
      BY <1>1, <1>2
    <2>3. PICK m \in 1..Len(Ranges) :
            Reads!Cells(seqs[l][j]) \subseteq {kinds[l]} \X AddressesOf(Ranges[m])
      BY <1>1, <1>2
    <2>4. seqs[k][i] \in Block /\ seqs[l][j] \in Block
      BY <1>2
    <2>5. Reads!Cells(seqs[k][i]) \cap Reads!Cells(seqs[l][j]) = {}
      BY <2>1, <2>2, <2>3
    <2> QED BY <2>4, <2>5 DEF Apart
  <1>5. Joined(s, seqs, Len(seqs), Block, Apart)
    <2> HIDE DEF Joined
    <2> QED BY <1>2, <1>3, <1>4, Flattened
  <1>6. s = Reads!Blocks
    BY Zenon DEF s, seqs, Part, kinds, Reads!Blocks
  <1> HIDE DEF s
  <1>7. s \in Seq(Block) /\ Spread(s, Apart)
    BY <1>5 DEF Joined
  <1>8. Reads!ToSet(s) = {s[i] : i \in 1..Len(s)}
    BY <1>7 DEF Reads!ToSet
  <1>9. Ranges \in Seq(Nat \X Nat) /\ Reads!ToSet(Ranges) = {Ranges[n] : n \in 1..Len(Ranges)}
    BY DEF Reads!ToSet, ReadsApart
  <1>10. Reads!ToSet(kinds) = {kinds[k] : k \in 1..Len(kinds)}
    BY <1>0 DEF Reads!ToSet
  <1>11. ASSUME NEW cell
         PROVE  cell \in Reads!Addresses <=>
                  \E k \in 1..Len(kinds), n \in 1..Len(Ranges) :
                    cell \in {kinds[k]} \X AddressesOf(Ranges[n])
    <2>1. cell \in Reads!Addresses <=>
            \E sort \in Reads!ToSet(kinds), range \in Reads!ToSet(Ranges) :
              cell \in {sort} \X AddressesOf(range)
      <3> DEFINE Cross(sort, range) == {sort} \X AddressesOf(range)
      <3>1. Reads!Addresses =
              UNION {Cross(sort, range) : sort \in Reads!ToSet(kinds), range \in Reads!ToSet(Ranges)}
        BY SMT DEF Reads!Addresses, AddressesOf, kinds
      <3> HIDE DEF Cross
      <3>2. cell \in Reads!Addresses <=>
              \E sort \in Reads!ToSet(kinds), range \in Reads!ToSet(Ranges) : cell \in Cross(sort, range)
        BY <3>1
      <3> QED BY <3>2, Zenon DEF Cross
    <2> QED BY <2>1, <1>9, <1>10
  <1>12. ASSUME NEW cell, cell \in Reads!Addresses
         PROVE  cell \in Reads!Covered(Reads!ToSet(s))
    <2>1. PICK k \in 1..Len(kinds), n \in 1..Len(Ranges) : cell \in {kinds[k]} \X AddressesOf(Ranges[n])
      BY <1>11, <1>12
    <2>2. PICK a \in AddressesOf(Ranges[n]) : cell = <<kinds[k], a>>
      BY <2>1
    <2>3. PICK j \in 1..Len(Part(k)) : <<kinds[k], a>> \in Reads!Cells(Part(k)[j])
      BY <1>1
    <2>4. k \in 1..Len(seqs) /\ j \in 1..Len(seqs[k]) /\ seqs[k][j] = Part(k)[j]
      BY <1>2
    <2>5. PICK i \in 1..Len(s) : s[i] = seqs[k][j]
      BY <1>5, <2>4 DEF Joined
    <2>6. cell \in Reads!Cells(s[i])
      BY <2>2, <2>3, <2>4, <2>5
    <2> QED BY <1>8, <2>6 DEF Reads!Covered
  <1>13. ASSUME NEW cell, cell \in Reads!Covered(Reads!ToSet(s))
         PROVE  cell \in Reads!Addresses
    <2>1. PICK i \in 1..Len(s) : cell \in Reads!Cells(s[i])
      BY <1>8, <1>13 DEF Reads!Covered
    <2>2. PICK k \in 1..Len(seqs) : \E j \in 1..Len(seqs[k]) : s[i] = seqs[k][j]
      BY <1>5 DEF Joined
    <2>3. PICK j \in 1..Len(seqs[k]) : s[i] = seqs[k][j]
      BY <2>2
    <2>4. k \in 1..Len(kinds) /\ j \in 1..Len(Part(k)) /\ s[i] = Part(k)[j]
      BY <1>2, <2>3
    <2>5. PICK n \in 1..Len(Ranges) : Reads!Cells(s[i]) \subseteq {kinds[k]} \X AddressesOf(Ranges[n])
      BY <1>1, <2>4
    <2> QED BY <1>11, <2>1, <2>4, <2>5
  <1>14. Reads!Covered(Reads!ToSet(s)) = Reads!Addresses
    BY <1>12, <1>13
  <1> QED BY <1>6, <1>7, <1>14

\* What is still to read, read and unavailable, of all that is asked for.
Shares(all, t, read, missing) ==
  /\ t \in Seq(Block) /\ Spread(t, Apart)
  /\ missing \subseteq Block /\ \A b, c \in missing : b # c => <<b, c>> \in Apart
  /\ read \cap Reads!Covered(missing) = {}
  /\ read \cap Reads!Covered(Reads!ToSet(t)) = {}
  /\ Reads!Covered(missing) \cap Reads!Covered(Reads!ToSet(t)) = {}
  /\ read \cup Reads!Covered(missing) \cup Reads!Covered(Reads!ToSet(t)) = all

LEMMA FirstOf ==
  ASSUME NEW T, NEW t \in Seq(T), t # <<>>
  PROVE  /\ Head(t) = t[1] /\ Head(t) \in T /\ 1 \in 1..Len(t)
         /\ Tail(t) \in Seq(T) /\ Len(Tail(t)) = Len(t) - 1 /\ Len(t) \in Nat
         /\ \A i \in 1..Len(Tail(t)) : i + 1 \in 1..Len(t) /\ i + 1 # 1 /\ Tail(t)[i] = t[i + 1]
         /\ \A i \in 1..Len(t) : i # 1 => i - 1 \in 1..Len(Tail(t)) /\ Tail(t)[i - 1] = t[i]
  <1>1. Len(t) \in Nat \ {0} /\ Tail(t) \in Seq(T) /\ Len(Tail(t)) = Len(t) - 1
        /\ Head(t) = t[1] /\ Head(t) \in T
    OBVIOUS
  <1>2. \A i \in 1..(Len(t) - 1) : Tail(t)[i] = t[i + 1]
    OBVIOUS
  <1>3. ASSUME NEW i \in 1..Len(t), i # 1
        PROVE  i - 1 \in 1..Len(Tail(t)) /\ Tail(t)[i - 1] = t[i]
    <2>1. i - 1 \in 1..(Len(t) - 1) /\ (i - 1) + 1 = i
      BY <1>1, <1>3
    <2> QED BY <1>1, <1>2, <2>1
  <1> QED BY <1>1, <1>2, <1>3

LEMMA CoveredBy ==
  ASSUME NEW t \in Seq(Block), NEW cell
  PROVE  cell \in Reads!Covered(Reads!ToSet(t)) <=> \E i \in 1..Len(t) : cell \in Reads!Cells(t[i])
  <1>1. Reads!ToSet(t) = {t[i] : i \in 1..Len(t)}
    BY DEF Reads!ToSet
  <1> QED BY <1>1 DEF Reads!Covered

LEMMA FirstAndRest ==
  ASSUME NEW t \in Seq(Block), Spread(t, Apart), t # <<>>
  PROVE  /\ Head(t) \in Block /\ Tail(t) \in Seq(Block) /\ Spread(Tail(t), Apart)
         /\ Reads!Covered(Reads!ToSet(t)) =
              Reads!Cells(Head(t)) \cup Reads!Covered(Reads!ToSet(Tail(t)))
         /\ Reads!Cells(Head(t)) \cap Reads!Covered(Reads!ToSet(Tail(t))) = {}
         /\ \A i \in 1..Len(Tail(t)) : <<Head(t), Tail(t)[i]>> \in Apart
  <1> DEFINE r == Tail(t)
  <1>1. /\ Head(t) = t[1] /\ Head(t) \in Block /\ 1 \in 1..Len(t)
        /\ r \in Seq(Block)
        /\ \A i \in 1..Len(r) : i + 1 \in 1..Len(t) /\ i + 1 # 1 /\ r[i] = t[i + 1]
        /\ \A i \in 1..Len(t) : i # 1 => i - 1 \in 1..Len(r) /\ r[i - 1] = t[i]
    BY FirstOf, Zenon
  <1>2. Len(r) \in Nat
    BY <1>1
  <1> HIDE DEF r
  <1>3. \A i \in 1..Len(r) : <<Head(t), r[i]>> \in Apart
    <2>1. \A i \in 1..Len(r) : 1 < i + 1
      OBVIOUS
    <2> QED BY <1>1, <2>1 DEF Spread
  <1>4. Spread(r, Apart)
    <2>1. \A i, j \in 1..Len(r) : i < j => i + 1 < j + 1
      BY <1>2
    <2> QED BY <1>1, <2>1 DEF Spread
  <1>5. ASSUME NEW cell
        PROVE  (\E i \in 1..Len(t) : cell \in Reads!Cells(t[i])) <=>
                 cell \in Reads!Cells(Head(t)) \/ \E i \in 1..Len(r) : cell \in Reads!Cells(r[i])
    BY <1>1
  <1>6. Reads!Covered(Reads!ToSet(t)) = Reads!Cells(Head(t)) \cup Reads!Covered(Reads!ToSet(r))
    BY <1>1, <1>5, CoveredBy
  <1>7. ASSUME NEW cell, cell \in Reads!Cells(Head(t)), cell \in Reads!Covered(Reads!ToSet(r))
        PROVE  FALSE
    <2>1. PICK i \in 1..Len(r) : cell \in Reads!Cells(r[i])
      BY <1>1, <1>7, CoveredBy
    <2>2. Reads!Cells(Head(t)) \cap Reads!Cells(r[i]) = {}
      BY <1>3 DEF Apart
    <2> QED BY <1>7, <2>1, <2>2
  <1> QED BY <1>1, <1>3, <1>4, <1>6, <1>7 DEF r

LEMMA SharesAtFirst ==
  ASSUME ReadsApart, client \in {"scan", "poll"}
  PROVE  Shares(Reads!Addresses, Reads!Blocks, {}, {})
  <1>1. Reads!Covered({}) = {}
    BY DEF Reads!Covered
  <1> QED BY <1>1, AllInBlocks DEF Shares

LEMMA FirstRead ==
  ASSUME NEW all, NEW t, NEW read, NEW missing, Shares(all, t, read, missing), t # <<>>
  PROVE  Shares(all, Tail(t), read \cup Reads!Cells(Head(t)), missing)
  BY FirstAndRest DEF Shares

LEMMA FirstMissing ==
  ASSUME NEW all, NEW t, NEW read, NEW missing, Shares(all, t, read, missing), t # <<>>
  PROVE  Shares(all, Tail(t), read, missing \cup {Head(t)})
  <1>1. Reads!Covered(missing \cup {Head(t)}) = Reads!Covered(missing) \cup Reads!Cells(Head(t))
    BY DEF Reads!Covered
  <1>2. /\ Head(t) \in Block /\ Tail(t) \in Seq(Block) /\ Spread(Tail(t), Apart)
        /\ Reads!Covered(Reads!ToSet(t)) =
             Reads!Cells(Head(t)) \cup Reads!Covered(Reads!ToSet(Tail(t)))
        /\ Reads!Cells(Head(t)) \cap Reads!Covered(Reads!ToSet(Tail(t))) = {}
    BY FirstAndRest DEF Shares
  <1>3. ASSUME NEW b \in missing
        PROVE  <<b, Head(t)>> \in Apart /\ <<Head(t), b>> \in Apart
    <2>1. Reads!Cells(b) \subseteq Reads!Covered(missing)
      BY DEF Reads!Covered
    <2>2. Reads!Cells(b) \cap Reads!Cells(Head(t)) = {} /\ b \in Block
      BY <1>2, <2>1 DEF Shares
    <2> QED BY <1>2, <2>2 DEF Apart
  <1>4. \A b, c \in missing \cup {Head(t)} : b # c => <<b, c>> \in Apart
    BY <1>3 DEF Shares
  <1> QED BY <1>1, <1>2, <1>4 DEF Shares

LEMMA HalvesOf ==
  ASSUME NEW b \in Block, b.count > 1
  PROVE  /\ Reads!Halves(b)[1] \in Block /\ Reads!Halves(b)[2] \in Block
         /\ Reads!Halves(b) = <<Reads!Halves(b)[1], Reads!Halves(b)[2]>>
         /\ Reads!Cells(Reads!Halves(b)[1]) \cap Reads!Cells(Reads!Halves(b)[2]) = {}
         /\ Reads!Cells(Reads!Halves(b)[1]) \cup Reads!Cells(Reads!Halves(b)[2]) = Reads!Cells(b)
  <1>1. PICK m \in Nat : m = b.count \div 2 /\ m < b.count
    BY DEF Block
  <1> DEFINE x == [b EXCEPT !.count = m]
             y == [b EXCEPT !.first = b.first + m, !.count = b.count - m]
  <1>2. Reads!Halves(b) = <<x, y>>
    BY <1>1, Zenon DEF Reads!Halves
  <1>3. x \in Block /\ y \in Block
    <2>1. b.first \in Nat /\ b.count \in Nat /\ b.kind \in {"input", "holding"}
      BY DEF Block
    <2>2. b.first + m \in Nat /\ b.count - m \in Nat
      BY <1>1, <2>1
    <2>3. b = [kind |-> b.kind, first |-> b.first, count |-> b.count]
      BY DEF Block
    <2>4. x = [kind |-> b.kind, first |-> b.first, count |-> m]
      BY <2>3
    <2>5. y = [kind |-> b.kind, first |-> b.first + m, count |-> b.count - m]
      <3> DEFINE z == [b EXCEPT !.first = b.first + m]
      <3>1. z = [kind |-> b.kind, first |-> b.first + m, count |-> b.count]
        BY <2>3
      <3>2. y = [z EXCEPT !.count = b.count - m]
        OBVIOUS
      <3> HIDE DEF z, y
      <3> QED BY <3>1, <3>2
    <2> HIDE DEF x, y
    <2> QED BY <1>1, <2>1, <2>2, <2>4, <2>5 DEF Block
  <1>4. /\ x.kind = b.kind /\ x.first = b.first /\ x.count = m
        /\ y.kind = b.kind /\ y.first = b.first + m /\ y.count = b.count - m
    BY DEF Block
  <1> HIDE DEF x, y
  <1>5. b.first \in Nat /\ b.count \in Nat
    BY DEF Block
  <1>6. \A a : a \in b.first..(b.first + b.count - 1) <=>
           a \in b.first..(b.first + m - 1) \/ a \in (b.first + m)..(b.first + m + (b.count - m) - 1)
    BY <1>1, <1>5
  <1>7. ASSUME NEW cell
        PROVE  /\ cell \in Reads!Cells(b) <=> cell \in Reads!Cells(x) \/ cell \in Reads!Cells(y)
               /\ ~(cell \in Reads!Cells(x) /\ cell \in Reads!Cells(y))
    <2>1. cell \in Reads!Cells(b) <=>
            \E a \in b.first..(b.first + b.count - 1) : cell = <<b.kind, a>>
      BY CellOf
    <2>2. cell \in Reads!Cells(x) <=>
            \E a \in b.first..(b.first + m - 1) : cell = <<b.kind, a>>
      BY <1>3, <1>4, CellOf
    <2>3. cell \in Reads!Cells(y) <=>
            \E a \in (b.first + m)..(b.first + m + (b.count - m) - 1) : cell = <<b.kind, a>>
      BY <1>3, <1>4, CellOf
    <2>4. \A a \in b.first..(b.first + m - 1) :
            \A d \in (b.first + m)..(b.first + m + (b.count - m) - 1) : a # d
      BY <1>1, <1>5
    <2> QED BY <1>6, <2>1, <2>2, <2>3, <2>4
  <1>8. Reads!Cells(x) \cap Reads!Cells(y) = {} /\ Reads!Cells(x) \cup Reads!Cells(y) = Reads!Cells(b)
    BY <1>7
  <1>9. <<x, y>>[1] = x /\ <<x, y>>[2] = y
    OBVIOUS
  <1> QED BY <1>2, <1>3, <1>8, <1>9

LEMMA FirstHalved ==
  ASSUME NEW all, NEW t, NEW read, NEW missing, Shares(all, t, read, missing), t # <<>>,
         Head(t).count > 1
  PROVE  Shares(all, Reads!Halves(Head(t)) \o Tail(t), read, missing)
  <1> DEFINE b == Head(t)
             r == Tail(t)
             x == Reads!Halves(b)[1]
             y == Reads!Halves(b)[2]
             q == <<x, y>> \o r
  <1>1. /\ b \in Block /\ r \in Seq(Block) /\ Spread(r, Apart)
        /\ Reads!Covered(Reads!ToSet(t)) = Reads!Cells(b) \cup Reads!Covered(Reads!ToSet(r))
        /\ Reads!Cells(b) \cap Reads!Covered(Reads!ToSet(r)) = {}
        /\ \A i \in 1..Len(r) : <<b, r[i]>> \in Apart
    BY FirstAndRest DEF Shares
  <1>2. /\ x \in Block /\ y \in Block /\ Reads!Halves(b) = <<x, y>>
        /\ Reads!Cells(x) \cap Reads!Cells(y) = {}
        /\ Reads!Cells(x) \cup Reads!Cells(y) = Reads!Cells(b)
    BY <1>1, HalvesOf
  <1> HIDE DEF b, r, x, y
  <1>3. <<x, y>> \in Seq(Block) /\ Len(<<x, y>>) = 2 /\ <<x, y>>[1] = x /\ <<x, y>>[2] = y
    BY <1>2
  <1>4. /\ q \in Seq(Block) /\ Len(r) \in Nat
        /\ \A i \in 1..Len(q) : i <= 2 => i \in 1..2 /\ q[i] = <<x, y>>[i]
        /\ \A i \in 1..Len(q) : ~(i <= 2) => i - 2 \in 1..Len(r) /\ q[i] = r[i - 2]
        /\ \A i \in 1..2 : i \in 1..Len(q) /\ q[i] = <<x, y>>[i]
        /\ \A i \in 1..Len(r) : 2 + i \in 1..Len(q) /\ q[2 + i] = r[i]
    <2> HIDE DEF q
    <2>1. q = <<x, y>> \o r
      BY DEF q
    <2>2. q \in Seq(Block) /\ Placed(q, <<x, y>>, r)
      BY <1>1, <1>3, <2>1, PlacesJoined, Zenon
    <2> QED BY <1>3, <2>2 DEF Placed
  <1> HIDE DEF q
  <1>5. ASSUME NEW i \in 1..Len(q)
        PROVE  q[i] = x \/ q[i] = y \/ \E j \in 1..Len(r) : q[i] = r[j]
    <2>1. CASE i <= 2
      BY <1>3, <1>4, <2>1
    <2>2. CASE ~(i <= 2)
      BY <1>4, <2>2
    <2> QED BY <2>1, <2>2
  <1>6. 1 \in 1..Len(q) /\ q[1] = x /\ 2 \in 1..Len(q) /\ q[2] = y
    <2>1. 1 \in 1..2 /\ 2 \in 1..2
      OBVIOUS
    <2> QED BY <1>3, <1>4, <2>1
  <1>7. Reads!Covered(Reads!ToSet(q)) = Reads!Cells(b) \cup Reads!Covered(Reads!ToSet(r))
    <2>1. ASSUME NEW cell
          PROVE  (\E i \in 1..Len(q) : cell \in Reads!Cells(q[i])) <=>
                   \/ cell \in Reads!Cells(x) \/ cell \in Reads!Cells(y)
                   \/ \E j \in 1..Len(r) : cell \in Reads!Cells(r[j])
      BY <1>4, <1>5, <1>6
    <2> QED BY <1>1, <1>2, <1>4, <2>1, CoveredBy
  <1>8. ASSUME NEW j \in 1..Len(r), NEW z \in {x, y}
        PROVE  <<z, r[j]>> \in Apart /\ <<r[j], z>> \in Apart
    <2>1. r[j] \in Block /\ Reads!Cells(b) \cap Reads!Cells(r[j]) = {}
      BY <1>1 DEF Apart
    <2>2. Reads!Cells(z) \cap Reads!Cells(r[j]) = {} /\ z \in Block
      BY <1>2, <2>1
    <2> QED BY <2>1, <2>2 DEF Apart
  <1>9. ASSUME NEW i \in 1..Len(q), NEW j \in 1..Len(q), i < j
        PROVE  <<q[i], q[j]>> \in Apart
    <2>1. <<x, y>> \in Apart /\ <<y, x>> \in Apart
      BY <1>2 DEF Apart
    <2>2. CASE i <= 2 /\ j <= 2
      <3>1. i \in 1..2 /\ j \in 1..2 /\ q[i] = <<x, y>>[i] /\ q[j] = <<x, y>>[j]
        BY <1>4, <2>2
      <3>2. i = 1 /\ j = 2
        BY <1>9, <3>1
      <3> QED BY <1>3, <2>1, <3>1, <3>2
    <2>3. CASE i <= 2 /\ ~(j <= 2)
      <3>1. q[i] \in {x, y}
        <4>1. i \in 1..2 /\ q[i] = <<x, y>>[i]
          BY <1>4, <2>3
        <4>2. i = 1 \/ i = 2
          BY <4>1
        <4> QED BY <1>3, <4>1, <4>2
      <3> QED BY <1>4, <1>8, <2>3, <3>1
    <2>4. CASE ~(i <= 2) /\ j <= 2
      BY <1>4, <1>9, <2>4
    <2>5. CASE ~(i <= 2) /\ ~(j <= 2)
      <3>1. i - 2 < j - 2
        BY <1>4, <1>9
      <3> QED BY <1>1, <1>4, <2>5, <3>1 DEF Spread
    <2> QED BY <2>2, <2>3, <2>4, <2>5
  <1>10. Spread(q, Apart)
    BY <1>9 DEF Spread
  <1>11. Shares(all, q, read, missing)
    BY <1>1, <1>4, <1>7, <1>10 DEF Shares
  <1> QED BY <1>2, <1>11 DEF q, b, r

\* A request, and a reply to it.
Asked == [block : Block, number : Nat]
Answers == [number : Nat, block : Block, result : {"failure", "absent", "words"}]

\* A request or reply under way is of the read under way, or of one that did not get it.
OwnOrLate(e, way, ask, last, late) ==
  /\ e.number <= last
  /\ e.number \in late \/ (ask # Nothing /\ e.number = ask.number /\ e.block = ask.block)
  /\ way # "serial" /\ ask # Nothing => e.number = ask.number /\ e.block = ask.block

ReadsTyped ==
  /\ transport \in {"tcp", "udp", "serial"} /\ client \in {"scan", "poll"} /\ sends \in Nat
  /\ asked \in Asked \cup {Nothing}
  /\ unanswered \in Seq(Asked) /\ buffer \in Seq(Answers)

Different(t) == \A i, j \in 1..Len(t) : i # j => t[i].number # t[j].number
PartOf(r, t) == \A i \in 1..Len(r) : \E j \in 1..Len(t) : r[i] = t[j]

\* No request is under way twice.
Once(un, bu) ==
  /\ Different(un) /\ Different(bu)
  /\ \A i \in 1..Len(un), j \in 1..Len(bu) : un[i].number # bu[j].number

UnderWay ==
  /\ \A i \in 1..Len(unanswered) : OwnOrLate(unanswered[i], transport, asked, sends, unheard)
  /\ \A i \in 1..Len(buffer) : OwnOrLate(buffer[i], transport, asked, sends, unheard)
  /\ Once(unanswered, buffer)

ReadsInvariant ==
  /\ ReadsTyped
  /\ asked # Nothing => todo # <<>> /\ asked.block = Head(todo) /\ asked.number <= sends
  /\ Shares(Reads!Addresses, todo, DOMAIN values, unavailable)
  /\ client = "poll" => unavailable = {}
  /\ UnderWay
  /\ \A c \in DOMAIN values :
       values[c].of # c => transport = "serial" /\ values[c].by \in unheard

ReadsNames == ReadsApart /\ Nothing \notin Asked

LEMMA ReadsStart == ReadsNames /\ Reads!Init => ReadsInvariant
  <1> SUFFICES ASSUME ReadsNames, Reads!Init PROVE ReadsInvariant
    OBVIOUS
  <1>1. transport \in {"tcp", "udp", "serial"} /\ client \in {"scan", "poll"}
    BY DEF ReadsNames, ReadsApart, Reads!Init
  <1>2. /\ todo = Reads!Blocks /\ asked = Nothing /\ sends = 0 /\ unanswered = <<>>
        /\ buffer = <<>> /\ values = <<>> /\ unavailable = {}
    BY DEF Reads!Init
  <1>3. DOMAIN values = {}
    BY <1>2
  <1>4. Shares(Reads!Addresses, todo, DOMAIN values, unavailable)
    <2> HIDE DEF Shares
    <2> QED BY <1>1, <1>2, <1>3, SharesAtFirst DEF ReadsNames
  <1>5. ReadsTyped
    BY <1>1, <1>2 DEF ReadsTyped
  <1>6. UnderWay
    BY <1>2 DEF UnderWay, Once, Different
  <1> QED BY <1>2, <1>3, <1>4, <1>5, <1>6 DEF ReadsInvariant

\* What is taken from the front is gone, and the rest is what it was.
LEMMA FewerOnce ==
  ASSUME NEW T, NEW t \in Seq(T), NEW r, r = t \/ (t # <<>> /\ r = Tail(t)), Different(t)
  PROVE  r \in Seq(T) /\ PartOf(r, t) /\ Different(r)
  <1>1. CASE r = t
    BY <1>1 DEF PartOf
  <1>2. CASE t # <<>> /\ r = Tail(t)
    <2>1. /\ r \in Seq(T) /\ Len(r) \in Nat
          /\ \A i \in 1..Len(r) : i + 1 \in 1..Len(t) /\ r[i] = t[i + 1]
      BY <1>2, FirstOf
    <2>2. ASSUME NEW i \in 1..Len(r), NEW j \in 1..Len(r), i # j
          PROVE  r[i].number # r[j].number
      <3>1. i + 1 # j + 1
        BY <2>1, <2>2
      <3> QED BY <2>1, <3>1 DEF Different
    <2> QED BY <2>1, <2>2 DEF PartOf, Different
  <1> QED BY <1>1, <1>2

LEMMA OnceParted ==
  ASSUME NEW un, NEW bu, Once(un, bu), NEW u2, NEW b2,
         PartOf(u2, un), Different(u2), PartOf(b2, bu), Different(b2)
  PROVE  Once(u2, b2)
  <1>1. ASSUME NEW i \in 1..Len(u2), NEW j \in 1..Len(b2)
        PROVE  u2[i].number # b2[j].number
    <2>1. PICK k \in 1..Len(un) : u2[i] = un[k]
      BY DEF PartOf
    <2>2. PICK l \in 1..Len(bu) : b2[j] = bu[l]
      BY DEF PartOf
    <2> QED BY <2>1, <2>2 DEF Once
  <1> QED BY <1>1, Zenon DEF Once

\* A step that only takes from the front, and after which what is under way is still its
\* read's own or late.
LEMMA UnderWayKeeps ==
  ASSUME ReadsTyped, UnderWay,
         unanswered' = unanswered \/ (unanswered # <<>> /\ unanswered' = Tail(unanswered)),
         buffer' = buffer \/ (buffer # <<>> /\ buffer' = Tail(buffer)),
         \A e : OwnOrLate(e, transport, asked, sends, unheard) =>
                  OwnOrLate(e, transport', asked', sends', unheard')
  PROVE  /\ UnderWay' /\ unanswered' \in Seq(Asked) /\ buffer' \in Seq(Answers)
  <1>1. /\ unanswered \in Seq(Asked) /\ buffer \in Seq(Answers) /\ Once(unanswered, buffer)
        /\ Different(unanswered) /\ Different(buffer)
    BY Zenon DEF ReadsTyped, UnderWay, Once
  <1>2. unanswered' \in Seq(Asked) /\ PartOf(unanswered', unanswered) /\ Different(unanswered')
    BY <1>1, FewerOnce, Zenon
  <1>3. buffer' \in Seq(Answers) /\ PartOf(buffer', buffer) /\ Different(buffer')
    BY <1>1, FewerOnce, Zenon
  <1>4. Once(unanswered', buffer')
    BY <1>1, <1>2, <1>3, OnceParted, Zenon
  <1>5. ASSUME NEW i \in 1..Len(unanswered')
        PROVE  OwnOrLate(unanswered'[i], transport', asked', sends', unheard')
    <2>1. PICK j \in 1..Len(unanswered) : unanswered'[i] = unanswered[j]
      BY <1>2 DEF PartOf
    <2>2. OwnOrLate(unanswered[j], transport, asked, sends, unheard)
      BY DEF UnderWay
    <2> QED BY <2>1, <2>2
  <1>6. ASSUME NEW i \in 1..Len(buffer')
        PROVE  OwnOrLate(buffer'[i], transport', asked', sends', unheard')
    <2>1. PICK j \in 1..Len(buffer) : buffer'[i] = buffer[j]
      BY <1>3 DEF PartOf
    <2>2. OwnOrLate(buffer[j], transport, asked, sends, unheard)
      BY DEF UnderWay
    <2> QED BY <2>1, <2>2
  <1> QED BY <1>2, <1>3, <1>4, <1>5, <1>6 DEF UnderWay

\* The addresses asked for are those of the client.
LEMMA SameAddresses ==
  ASSUME client' = client
  PROVE  Reads!Addresses' = Reads!Addresses
  BY DEF Reads!Addresses

\* What is left to read after a read that failed.
LEMMA FailureKeeps ==
  ASSUME ReadsNames, ReadsInvariant, asked # Nothing, NEW splittable,
         Reads!ReadFails(splittable), client' = client
  PROVE  /\ Shares(Reads!Addresses, todo', DOMAIN values', unavailable')
         /\ client = "poll" => unavailable' = {}
         /\ values' = values \/ values' = <<>>
         /\ asked' = Nothing
  <1>1. /\ todo # <<>> /\ asked.block = Head(todo)
        /\ Shares(Reads!Addresses, todo, DOMAIN values, unavailable)
        /\ client \in {"scan", "poll"} /\ (client = "poll" => unavailable = {})
    BY DEF ReadsInvariant, ReadsTyped
  <1> HIDE DEF Shares
  <1>2. CASE client = "poll"
    <2>1. todo' = Reads!Blocks /\ values' = <<>> /\ unavailable' = unavailable /\ asked' = Nothing
      BY <1>2 DEF Reads!ReadFails
    <2>2. DOMAIN values' = {} /\ unavailable' = {}
      BY <1>1, <1>2, <2>1
    <2>3. Shares(Reads!Addresses, Reads!Blocks, {}, {})
      BY <1>1, SharesAtFirst DEF ReadsNames
    <2> QED BY <2>1, <2>2, <2>3
  <1>3. CASE client # "poll" /\ splittable /\ asked.block.count > 1
    <2>1. /\ todo' = Reads!Halves(Head(todo)) \o Tail(todo) /\ values' = values
          /\ unavailable' = unavailable /\ asked' = Nothing
      BY <1>1, <1>3 DEF Reads!ReadFails
    <2>2. Shares(Reads!Addresses, Reads!Halves(Head(todo)) \o Tail(todo), DOMAIN values, unavailable)
      BY <1>1, <1>3, FirstHalved, Zenon
    <2> QED BY <1>3, <2>1, <2>2
  <1>4. CASE client # "poll" /\ ~(splittable /\ asked.block.count > 1)
    <2>1. /\ todo' = Tail(todo) /\ values' = values /\ unavailable' = unavailable \cup {Head(todo)}
          /\ asked' = Nothing
      BY <1>1, <1>4 DEF Reads!ReadFails
    <2>2. Shares(Reads!Addresses, Tail(todo), DOMAIN values, unavailable \cup {Head(todo)})
      BY <1>1, FirstMissing, Zenon
    <2> QED BY <1>4, <2>1, <2>2
  <1> QED BY <1>2, <1>3, <1>4

\* What is true of the words stays so.
LEMMA WordsStay ==
  ASSUME ReadsInvariant, values' = values \/ values' = <<>>, transport' = transport,
         unheard \subseteq unheard'
  PROVE  (\A c \in DOMAIN values :
            values[c].of # c => transport = "serial" /\ values[c].by \in unheard)'
  BY DEF ReadsInvariant

\* A read ends without its reply: what is under way of it is late.
LEMMA Unanswered ==
  ASSUME ReadsNames, ReadsInvariant, asked # Nothing, Reads!ReadFails(FALSE),
         unheard' = unheard \cup {asked.number},
         UNCHANGED <<transport, client, sends, unanswered, buffer>>
  PROVE  ReadsInvariant'
  <1>1. /\ Shares(Reads!Addresses, todo', DOMAIN values', unavailable')
        /\ client = "poll" => unavailable' = {}
        /\ values' = values \/ values' = <<>>
        /\ asked' = Nothing
    <2> HIDE DEF Shares
    <2> QED BY FailureKeeps
  <1>2. ReadsTyped /\ UnderWay
    BY DEF ReadsInvariant
  <1>3. \A e : OwnOrLate(e, transport, asked, sends, unheard) =>
                 OwnOrLate(e, transport', asked', sends', unheard')
    BY <1>1 DEF OwnOrLate
  <1>4. UnderWay' /\ unanswered' \in Seq(Asked) /\ buffer' \in Seq(Answers)
    BY <1>2, <1>3, UnderWayKeeps
  <1>5. ReadsTyped'
    BY <1>1, <1>2, <1>4 DEF ReadsTyped
  <1>6. Reads!Addresses' = Reads!Addresses
    BY SameAddresses
  <1>7. Shares(Reads!Addresses, todo, DOMAIN values, unavailable)'
    BY <1>1, <1>6 DEF Shares
  <1>8. (\A c \in DOMAIN values :
           values[c].of # c => transport = "serial" /\ values[c].by \in unheard)'
    BY <1>1, WordsStay
  <1> HIDE DEF Shares
  <1> QED BY <1>1, <1>4, <1>5, <1>7, <1>8 DEF ReadsInvariant

\* A request is sent: over a connection or endpoint of its own nothing else is under way.
LEMMA RequestSentKeeps ==
  ASSUME ReadsNames, ReadsInvariant, Reads!Send
  PROVE  ReadsInvariant'
  <1>1. /\ asked = Nothing /\ todo # <<>> /\ sends' = sends + 1
        /\ asked' = [block |-> Head(todo), number |-> sends + 1]
        /\ unanswered' = Append(IF transport = "serial" THEN unanswered ELSE <<>>, asked')
        /\ buffer' = <<>>
        /\ UNCHANGED <<transport, client, todo, values, unavailable, unheard>>
    BY DEF Reads!Send
  <1>2. ReadsTyped /\ UnderWay /\ todo \in Seq(Block)
    BY DEF ReadsInvariant, Shares
  <1>3. Head(todo) \in Block
    BY <1>1, <1>2, FirstOf
  <1>4. asked' \in Asked /\ asked' # Nothing /\ asked'.number = sends + 1 /\ asked'.block = Head(todo)
    BY <1>1, <1>2, <1>3 DEF Asked, ReadsTyped, ReadsNames
  <1> DEFINE before == IF transport = "serial" THEN unanswered ELSE <<>>
  <1>5. /\ before \in Seq(Asked) /\ unanswered' = Append(before, asked')
        /\ \A i, j \in 1..Len(before) : i # j => before[i].number # before[j].number
        /\ \A i \in 1..Len(before) : OwnOrLate(before[i], transport, asked, sends, unheard)
        /\ transport # "serial" => Len(before) = 0
    <2>1. CASE transport = "serial"
      <3>1. before = unanswered
        BY <2>1
      <3> HIDE DEF before
      <3> QED BY <1>1, <1>2, <2>1, <3>1 DEF ReadsTyped, UnderWay, Once, Different
    <2>2. CASE transport # "serial"
      <3>1. before = <<>> /\ <<>> \in Seq(Asked) /\ Len(<<>>) = 0
        BY <2>2
      <3> HIDE DEF before
      <3> QED BY <1>1, <2>2, <3>1
    <2> QED BY <2>1, <2>2
  <1> HIDE DEF before
  <1>6. /\ unanswered' \in Seq(Asked) /\ Len(unanswered') = Len(before) + 1 /\ Len(before) \in Nat
        /\ \A i \in 1..Len(before) : unanswered'[i] = before[i]
        /\ unanswered'[Len(before) + 1] = asked'
    BY <1>4, <1>5
  <1>7. ASSUME NEW i \in 1..Len(before)
        PROVE  /\ OwnOrLate(before[i], transport', asked', sends', unheard')
               /\ before[i].number # sends + 1
    <2>1. OwnOrLate(before[i], transport, asked, sends, unheard) /\ before[i].number \in Nat
      <3>1. before[i] \in Asked
        BY <1>5
      <3> QED BY <1>5, <3>1 DEF Asked
    <2>2. transport = "serial"
      BY <1>5
    <2> QED BY <1>1, <1>2, <2>1, <2>2 DEF OwnOrLate, ReadsTyped
  <1>8. ASSUME NEW i \in 1..Len(unanswered')
        PROVE  i \in 1..Len(before) \/ i = Len(before) + 1
    BY <1>6
  <1>9. OwnOrLate(asked', transport', asked', sends', unheard')
    BY <1>1, <1>2, <1>4 DEF OwnOrLate, ReadsTyped
  <1>10. \A i \in 1..Len(unanswered') :
           OwnOrLate(unanswered'[i], transport', asked', sends', unheard')
    BY <1>6, <1>7, <1>8, <1>9
  <1>11. Different(unanswered')
    <2>1. ASSUME NEW i \in 1..Len(unanswered'), NEW j \in 1..Len(unanswered'), i # j
          PROVE  unanswered'[i].number # unanswered'[j].number
      <3>1. CASE i \in 1..Len(before) /\ j \in 1..Len(before)
        BY <1>5, <1>6, <2>1, <3>1
      <3>2. CASE i \in 1..Len(before) /\ j = Len(before) + 1
        BY <1>4, <1>6, <1>7, <3>2
      <3>3. CASE i = Len(before) + 1 /\ j \in 1..Len(before)
        BY <1>4, <1>6, <1>7, <3>3
      <3> QED BY <1>8, <2>1, <3>1, <3>2, <3>3
    <2> QED BY <2>1 DEF Different
  <1>12. UnderWay'
    BY <1>1, <1>10, <1>11 DEF UnderWay, Once, Different
  <1>13. ReadsTyped'
    BY <1>1, <1>2, <1>4, <1>6 DEF ReadsTyped
  <1>14. Reads!Addresses' = Reads!Addresses
    BY <1>1, SameAddresses
  <1>15. Shares(Reads!Addresses, todo, DOMAIN values, unavailable)'
    BY <1>1, <1>14 DEF ReadsInvariant, Shares
  <1>16. asked'.number <= sends'
    BY <1>1, <1>2, <1>4 DEF ReadsTyped
  <1> HIDE DEF Shares
  <1>17. todo' = todo /\ asked'.block = Head(todo') /\ todo' # <<>>
    BY <1>1, <1>4
  <1>18. (\A c \in DOMAIN values :
           values[c].of # c => transport = "serial" /\ values[c].by \in unheard)'
    BY <1>1, WordsStay
  <1>19. client' = "poll" => unavailable' = {}
    BY <1>1 DEF ReadsInvariant
  <1> QED BY <1>12, <1>13, <1>15, <1>16, <1>17, <1>18, <1>19 DEF ReadsInvariant

\* A step that leaves what is read and asked alone.
LEMMA UnderWayChanges ==
  ASSUME ReadsInvariant, UnderWay', unanswered' \in Seq(Asked), buffer' \in Seq(Answers),
         unheard \subseteq unheard',
         UNCHANGED <<transport, client, todo, asked, sends, values, unavailable>>
  PROVE  ReadsInvariant'
  <1>1. ReadsTyped'
    BY DEF ReadsInvariant, ReadsTyped
  <1>2. Reads!Addresses' = Reads!Addresses
    BY SameAddresses
  <1>3. Shares(Reads!Addresses, todo, DOMAIN values, unavailable)'
    BY <1>2 DEF ReadsInvariant, Shares
  <1>4. (\A c \in DOMAIN values :
           values[c].of # c => transport = "serial" /\ values[c].by \in unheard)'
    BY WordsStay
  <1> HIDE DEF Shares
  <1>5. /\ asked' # Nothing => todo' # <<>> /\ asked'.block = Head(todo') /\ asked'.number <= sends'
        /\ client' = "poll" => unavailable' = {}
    BY DEF ReadsInvariant
  <1> QED BY <1>1, <1>3, <1>4, <1>5 DEF ReadsInvariant

\* Requests and replies are lost or taken by the cancelled reader.
LEMMA LossKeeps ==
  ASSUME ReadsInvariant, unheard \subseteq unheard',
         unanswered' = unanswered \/ (unanswered # <<>> /\ unanswered' = Tail(unanswered)),
         buffer' = buffer \/ (buffer # <<>> /\ buffer' = Tail(buffer)),
         UNCHANGED <<transport, client, todo, asked, sends, values, unavailable>>
  PROVE  ReadsInvariant'
  <1>1. ReadsTyped /\ UnderWay
    BY DEF ReadsInvariant
  <1>2. \A e : OwnOrLate(e, transport, asked, sends, unheard) =>
                 OwnOrLate(e, transport', asked', sends', unheard')
    BY DEF OwnOrLate
  <1>3. UnderWay' /\ unanswered' \in Seq(Asked) /\ buffer' \in Seq(Answers)
    BY <1>1, <1>2, UnderWayKeeps
  <1> QED BY <1>3, UnderWayChanges

\* The oldest request becomes the newest reply.
LEMMA ReplyMoves ==
  ASSUME ReadsInvariant, NEW error \in BOOLEAN, Reads!Reply(error)
  PROVE  ReadsInvariant'
  <1>1. PICK what \in {"failure", "absent", "words"} :
          buffer' = Append(buffer, [number |-> Head(unanswered).number,
                                    block |-> Head(unanswered).block, result |-> what])
    BY DEF Reads!Reply
  <1>2. /\ unanswered # <<>> /\ unanswered' = Tail(unanswered)
        /\ UNCHANGED <<transport, client, todo, asked, sends, values, unavailable, unheard>>
    BY DEF Reads!Reply
  <1>3. /\ unanswered \in Seq(Asked) /\ buffer \in Seq(Answers)
        /\ Different(unanswered) /\ Different(buffer) /\ Once(unanswered, buffer)
    BY DEF ReadsInvariant, ReadsTyped, UnderWay, Once
  <1> DEFINE first == Head(unanswered)
             reply == [number |-> first.number, block |-> first.block, result |-> what]
  <1>4. /\ first = unanswered[1] /\ first \in Asked /\ 1 \in 1..Len(unanswered)
        /\ unanswered' \in Seq(Asked)
        /\ \A i \in 1..Len(unanswered') :
             i + 1 \in 1..Len(unanswered) /\ i + 1 # 1 /\ unanswered'[i] = unanswered[i + 1]
    BY <1>2, <1>3, FirstOf
  <1>5. /\ reply \in Answers /\ reply.number = first.number /\ reply.block = first.block
        /\ buffer' = Append(buffer, reply)
    BY <1>1, <1>4 DEF Asked, Answers
  <1> HIDE DEF first, reply
  <1>6. /\ buffer' \in Seq(Answers) /\ Len(buffer') = Len(buffer) + 1 /\ Len(buffer) \in Nat
        /\ \A i \in 1..Len(buffer) : buffer'[i] = buffer[i]
        /\ buffer'[Len(buffer) + 1] = reply
    BY <1>3, <1>5
  <1>7. \A i \in 1..Len(buffer') : i \in 1..Len(buffer) \/ i = Len(buffer) + 1
    BY <1>6
  <1>8. PartOf(unanswered', unanswered) /\ Different(unanswered')
    BY <1>2, <1>3, FewerOnce, Zenon
  <1>9. \A i \in 1..Len(unanswered') : unanswered'[i].number # first.number
    BY <1>3, <1>4 DEF Different
  <1>10. \A i \in 1..Len(buffer) : buffer[i].number # first.number
    BY <1>3, <1>4 DEF Once
  <1>11. Different(buffer')
    <2>1. ASSUME NEW i \in 1..Len(buffer'), NEW j \in 1..Len(buffer'), i # j
          PROVE  buffer'[i].number # buffer'[j].number
      <3>1. CASE i \in 1..Len(buffer) /\ j \in 1..Len(buffer)
        BY <1>3, <1>6, <2>1, <3>1 DEF Different
      <3>2. CASE i \in 1..Len(buffer) /\ j = Len(buffer) + 1
        BY <1>5, <1>6, <1>10, <3>2
      <3>3. CASE i = Len(buffer) + 1 /\ j \in 1..Len(buffer)
        BY <1>5, <1>6, <1>10, <3>3
      <3> QED BY <1>7, <2>1, <3>1, <3>2, <3>3
    <2> QED BY <2>1 DEF Different
  <1>12. ASSUME NEW i \in 1..Len(unanswered'), NEW j \in 1..Len(buffer')
         PROVE  unanswered'[i].number # buffer'[j].number
    <2>1. CASE j \in 1..Len(buffer)
      BY <1>3, <1>4, <1>6, <2>1 DEF Once
    <2>2. CASE j = Len(buffer) + 1
      BY <1>5, <1>6, <1>9, <2>2
    <2> QED BY <1>7, <2>1, <2>2
  <1>13. Once(unanswered', buffer')
    BY <1>8, <1>11, <1>12, Zenon DEF Once
  <1>14. \A i \in 1..Len(unanswered') :
           OwnOrLate(unanswered'[i], transport', asked', sends', unheard')
    BY <1>2, <1>4 DEF ReadsInvariant, UnderWay
  <1>15. OwnOrLate(reply, transport, asked, sends, unheard)
    <2>1. OwnOrLate(first, transport, asked, sends, unheard)
      BY <1>4 DEF ReadsInvariant, UnderWay
    <2> QED BY <1>5, <2>1 DEF OwnOrLate
  <1>16. ASSUME NEW i \in 1..Len(buffer')
         PROVE  OwnOrLate(buffer'[i], transport', asked', sends', unheard')
    <2>1. CASE i \in 1..Len(buffer)
      BY <1>2, <1>6, <2>1 DEF ReadsInvariant, UnderWay
    <2>2. CASE i = Len(buffer) + 1
      BY <1>2, <1>6, <1>15, <2>2
    <2> QED BY <1>7, <2>1, <2>2
  <1>17. UnderWay'
    BY <1>13, <1>14, <1>16 DEF UnderWay
  <1> QED BY <1>2, <1>4, <1>6, <1>17, UnderWayChanges

\* What is left when the reader has taken a reply: all of it late.
LEMMA HeardLeaves ==
  ASSUME ReadsInvariant, asked # Nothing, asked' = Nothing, buffer # <<>>, buffer' = Tail(buffer),
         Reads!Unheard({Head(buffer).number}), UNCHANGED <<transport, sends, unanswered>>
  PROVE  /\ UnderWay' /\ buffer' \in Seq(Answers) /\ unheard \subseteq unheard'
         /\ Head(buffer) \in Answers
         /\ OwnOrLate(Head(buffer), transport, asked, sends, unheard)
  <1>1. /\ unanswered \in Seq(Asked) /\ buffer \in Seq(Answers)
        /\ Different(unanswered) /\ Different(buffer) /\ Once(unanswered, buffer)
    BY DEF ReadsInvariant, ReadsTyped, UnderWay, Once
  <1> DEFINE first == Head(buffer)
  <1>2. /\ first = buffer[1] /\ first \in Answers /\ 1 \in 1..Len(buffer)
        /\ buffer' \in Seq(Answers)
        /\ \A i \in 1..Len(buffer') :
             i + 1 \in 1..Len(buffer) /\ i + 1 # 1 /\ buffer'[i] = buffer[i + 1]
    BY <1>1, FirstOf
  <1>3. unheard' = IF first.number = asked.number THEN unheard ELSE unheard \cup {asked.number}
    <2>1. {first.number} = {asked.number} <=> first.number = asked.number
      OBVIOUS
    <2> QED BY <2>1 DEF Reads!Unheard
  <1> HIDE DEF first
  <1>4. ASSUME NEW e, OwnOrLate(e, transport, asked, sends, unheard), e.number # first.number
        PROVE  OwnOrLate(e, transport', asked', sends', unheard')
    BY <1>3, <1>4 DEF OwnOrLate
  <1>5. PartOf(buffer', buffer) /\ Different(buffer')
    BY <1>1, FewerOnce, Zenon
  <1>6. Once(unanswered', buffer')
    <2>1. PartOf(unanswered', unanswered) /\ Different(unanswered')
      BY <1>1 DEF PartOf
    <2> QED BY <1>1, <1>5, <2>1, OnceParted, Zenon
  <1>7. ASSUME NEW i \in 1..Len(buffer')
        PROVE  OwnOrLate(buffer'[i], transport', asked', sends', unheard')
    <2>1. i + 1 \in 1..Len(buffer) /\ i + 1 # 1 /\ buffer'[i] = buffer[i + 1]
      BY <1>2
    <2>2. OwnOrLate(buffer[i + 1], transport, asked, sends, unheard)
      BY <2>1 DEF ReadsInvariant, UnderWay
    <2>3. buffer[i + 1].number # first.number
      BY <1>1, <1>2, <2>1 DEF Different
    <2> QED BY <1>4, <2>1, <2>2, <2>3
  <1>8. ASSUME NEW i \in 1..Len(unanswered')
        PROVE  OwnOrLate(unanswered'[i], transport', asked', sends', unheard')
    <2>1. i \in 1..Len(unanswered) /\ unanswered'[i] = unanswered[i]
      OBVIOUS
    <2>2. OwnOrLate(unanswered[i], transport, asked, sends, unheard)
      BY <2>1 DEF ReadsInvariant, UnderWay
    <2>3. unanswered[i].number # first.number
      BY <1>1, <1>2, <2>1 DEF Once
    <2> QED BY <1>4, <2>1, <2>2, <2>3
  <1>9. UnderWay'
    BY <1>6, <1>7, <1>8 DEF UnderWay
  <1>10. OwnOrLate(first, transport, asked, sends, unheard)
    BY <1>2 DEF ReadsInvariant, UnderWay
  <1> QED BY <1>2, <1>3, <1>9, <1>10 DEF first

\* The reader takes a reply, its own or, over a serial line, a late one.
LEMMA HearKeeps ==
  ASSUME ReadsNames, ReadsInvariant, Reads!Hear
  PROVE  ReadsInvariant'
  <1> DEFINE r == Head(buffer)
             ours == Reads!Matches(r) /\ r.result = "words"
             cells == Reads!Cells(asked.block)
  <1>1. /\ asked # Nothing /\ buffer # <<>> /\ buffer' = Tail(buffer)
        /\ Reads!Unheard({r.number})
        /\ UNCHANGED <<transport, client, sends, unanswered>>
    BY Zenon DEF Reads!Hear
  <1>2. /\ ours => /\ values' = [c \in DOMAIN values \cup cells |->
                        IF c \in cells
                          THEN [of |-> <<r.block.kind, r.block.first + c[2] - asked.block.first>>,
                                by |-> r.number]
                          ELSE values[c]]
                   /\ todo' = Tail(todo) /\ asked' = Nothing /\ UNCHANGED unavailable
        /\ ~ours => Reads!ReadFails(Reads!Matches(r) /\ r.result = "absent")
    BY Zenon DEF Reads!Hear
  <1>3. asked' = Nothing
    BY <1>2 DEF Reads!ReadFails
  <1>4. /\ UnderWay' /\ buffer' \in Seq(Answers) /\ unheard \subseteq unheard'
        /\ r \in Answers /\ OwnOrLate(r, transport, asked, sends, unheard)
    BY <1>1, <1>3, HeardLeaves
  <1>5. ReadsTyped'
    BY <1>1, <1>3, <1>4 DEF ReadsInvariant, ReadsTyped
  <1>6. Reads!Addresses' = Reads!Addresses
    BY <1>1, SameAddresses
  <1> HIDE DEF Shares, ours, r
  <1>7. CASE ~ours
    <2>1. /\ Shares(Reads!Addresses, todo', DOMAIN values', unavailable')
          /\ client = "poll" => unavailable' = {}
          /\ values' = values \/ values' = <<>>
      BY <1>1, <1>2, <1>7, FailureKeeps
    <2>2. Shares(Reads!Addresses, todo, DOMAIN values, unavailable)'
      BY <1>6, <2>1 DEF Shares
    <2>3. (\A c \in DOMAIN values :
             values[c].of # c => transport = "serial" /\ values[c].by \in unheard)'
      BY <1>1, <1>4, <2>1, WordsStay
    <2>4. client' = "poll" => unavailable' = {}
      BY <1>1, <2>1
    <2> QED BY <1>3, <1>4, <1>5, <2>2, <2>3, <2>4 DEF ReadsInvariant
  <1>8. CASE ours
    <2>1. /\ todo # <<>> /\ asked.block = Head(todo)
          /\ Shares(Reads!Addresses, todo, DOMAIN values, unavailable)
          /\ client = "poll" => unavailable = {}
      BY <1>1 DEF ReadsInvariant
    <2>2. Shares(Reads!Addresses, Tail(todo), DOMAIN values \cup cells, unavailable)
      BY <2>1, FirstRead, Zenon
    <2>3. /\ DOMAIN values' = DOMAIN values \cup cells /\ todo' = Tail(todo)
          /\ unavailable' = unavailable
          /\ \A c \in cells :
               /\ values'[c].of = <<r.block.kind, r.block.first + c[2] - asked.block.first>>
               /\ values'[c].by = r.number
          /\ \A c \in DOMAIN values : c \notin cells => values'[c] = values[c]
      BY <1>2, <1>8
    <2>4. Shares(Reads!Addresses, todo, DOMAIN values, unavailable)'
      <3>1. Shares(Reads!Addresses, todo', DOMAIN values', unavailable')
        BY <2>2, <2>3
      <3> QED BY <1>6, <3>1 DEF Shares
    <2>5. ASSUME NEW c \in cells, values'[c].of # c
          PROVE  transport' = "serial" /\ values'[c].by \in unheard'
      <3>1. r.block # asked.block
        <4>1. SUFFICES ASSUME r.block = asked.block PROVE values'[c].of = c
          BY <2>5
        <4>2. asked.block \in Block
          BY <1>1 DEF ReadsInvariant, ReadsTyped, Asked
        <4>3. PICK a \in asked.block.first..(asked.block.first + asked.block.count - 1) :
                c = <<asked.block.kind, a>>
          BY <4>2, CellOf
        <4>4. asked.block.first \in Nat /\ a \in Int /\ c[2] = a
          BY <4>2, <4>3 DEF Block
        <4>5. asked.block.first + a - asked.block.first = a
          BY <4>4
        <4> QED BY <2>3, <4>1, <4>3, <4>4, <4>5
      <3>2. r.number \in unheard /\ transport = "serial"
        BY <1>1, <1>4, <3>1 DEF OwnOrLate
      <3> QED BY <1>1, <1>4, <2>3, <3>2
    <2>6. ASSUME NEW c \in DOMAIN values, c \notin cells, values'[c].of # c
          PROVE  transport' = "serial" /\ values'[c].by \in unheard'
      BY <1>1, <1>4, <2>3, <2>6 DEF ReadsInvariant
    <2>7. (\A c \in DOMAIN values :
             values[c].of # c => transport = "serial" /\ values[c].by \in unheard)'
      BY <2>3, <2>5, <2>6
    <2>8. client' = "poll" => unavailable' = {}
      BY <1>1, <2>1, <2>3
    <2> QED BY <1>3, <1>4, <1>5, <2>4, <2>7, <2>8 DEF ReadsInvariant
  <1> QED BY <1>7, <1>8

LEMMA ReadsKeep ==
  ASSUME ReadsNames, ReadsInvariant, [Reads!Next]_Reads!vars
  PROVE  ReadsInvariant'
  <1>1. CASE UNCHANGED Reads!vars
    BY <1>1, LossKeeps DEF Reads!vars
  <1>2. CASE Reads!Send
    BY <1>2, RequestSentKeeps
  <1>3. CASE Reads!OutOfRequests
    <2>1. /\ client = "scan" /\ asked = Nothing /\ asked' = asked /\ todo # <<>>
          /\ todo' = Tail(todo) /\ unavailable' = unavailable \cup {Head(todo)}
          /\ UNCHANGED <<transport, client, sends, unanswered, buffer, values, unheard>>
      BY <1>3 DEF Reads!OutOfRequests
    <2>2. Shares(Reads!Addresses, Tail(todo), DOMAIN values, unavailable \cup {Head(todo)})
      <3> HIDE DEF Shares
      <3> QED BY <2>1, FirstMissing, Zenon DEF ReadsInvariant
    <2>3. Reads!Addresses' = Reads!Addresses
      BY <2>1, SameAddresses
    <2>4. Shares(Reads!Addresses, todo, DOMAIN values, unavailable)'
      BY <2>1, <2>2, <2>3 DEF Shares
    <2>5. ReadsTyped' /\ UnderWay'
      BY <2>1 DEF ReadsInvariant, ReadsTyped, UnderWay, Once, Different
    <2>6. (\A c \in DOMAIN values :
             values[c].of # c => transport = "serial" /\ values[c].by \in unheard)'
      BY <2>1, WordsStay
    <2> HIDE DEF Shares
    <2> QED BY <2>1, <2>4, <2>5, <2>6 DEF ReadsInvariant
  <1>4. CASE Reads!Lost
    BY <1>4, LossKeeps DEF Reads!Lost
  <1>5. CASE Reads!Hear
    BY <1>5, HearKeeps
  <1>6. ASSUME asked # Nothing, Reads!ReadFails(FALSE), Reads!Unheard({}),
               UNCHANGED <<transport, client, sends, unanswered, buffer>>
        PROVE  ReadsInvariant'
    <2>1. unheard' = unheard \cup {asked.number}
      BY <1>6 DEF Reads!Unheard
    <2> QED BY <1>6, <2>1, Unanswered
  <1>7. CASE Reads!TimeOut
    BY <1>6, <1>7 DEF Reads!TimeOut
  <1>8. CASE Reads!Cancel
    BY <1>6, <1>8 DEF Reads!Cancel
  <1>9. CASE Reads!ThreadEnds
    BY <1>9, LossKeeps DEF Reads!ThreadEnds
  <1>10. CASE Reads!PollAgain
    <2>1. /\ client = "poll" /\ asked = Nothing /\ asked' = asked
          /\ todo' = Reads!Blocks /\ values' = <<>>
          /\ UNCHANGED <<transport, client, sends, unanswered, buffer, unavailable, unheard>>
      BY <1>10 DEF Reads!PollAgain
    <2>2. DOMAIN values' = {} /\ unavailable' = {}
      BY <2>1 DEF ReadsInvariant
    <2>3. Shares(Reads!Addresses, Reads!Blocks, {}, {})
      <3> HIDE DEF Shares
      <3> QED BY <2>1, SharesAtFirst DEF ReadsNames
    <2>4. Reads!Addresses' = Reads!Addresses
      BY <2>1, SameAddresses
    <2>5. Shares(Reads!Addresses, todo, DOMAIN values, unavailable)'
      <3>1. Shares(Reads!Addresses, todo', DOMAIN values', unavailable')
        <4> HIDE DEF Shares
        <4> QED BY <2>1, <2>2, <2>3
      <3> QED BY <2>4, <3>1 DEF Shares
    <2>6. ReadsTyped' /\ UnderWay'
      BY <2>1 DEF ReadsInvariant, ReadsTyped, UnderWay, Once, Different
    <2>7. (\A c \in DOMAIN values :
             values[c].of # c => transport = "serial" /\ values[c].by \in unheard)'
      BY <2>1, WordsStay
    <2> HIDE DEF Shares
    <2> QED BY <2>1, <2>2, <2>5, <2>6, <2>7 DEF ReadsInvariant
  <1>11. ASSUME NEW error \in BOOLEAN, Reads!Reply(error)
         PROVE  ReadsInvariant'
    BY <1>11, ReplyMoves
  <1> QED
    BY <1>1, <1>2, <1>3, <1>4, <1>5, <1>7, <1>8, <1>9, <1>10, <1>11, Zenon DEF Reads!Next

LEMMA ReadsAreShared == ReadsInvariant => Reads!WordsAreAccountedFor
  <1> SUFFICES ASSUME ReadsInvariant PROVE Reads!WordsAreAccountedFor
    OBVIOUS
  <1>1. Shares(Reads!Addresses, todo, DOMAIN values, unavailable)
    BY DEF ReadsInvariant
  <1>2. Reads!Covered(unavailable \cup Reads!ToSet(todo)) =
          Reads!Covered(unavailable) \cup Reads!Covered(Reads!ToSet(todo))
    BY DEF Reads!Covered
  <1>3. Reads!ToSet(todo) = {todo[i] : i \in 1..Len(todo)}
    BY <1>1 DEF Shares, Reads!ToSet
  <1>4. ASSUME NEW b \in unavailable \cup Reads!ToSet(todo),
               NEW c \in unavailable \cup Reads!ToSet(todo), b # c
        PROVE  Reads!Cells(b) \cap Reads!Cells(c) = {}
    <2>1. CASE b \in unavailable /\ c \in unavailable
      BY <1>1, <1>4, <2>1 DEF Shares, Apart
    <2>2. CASE b \in Reads!ToSet(todo) /\ c \in Reads!ToSet(todo)
      <3>1. PICK i \in 1..Len(todo), j \in 1..Len(todo) : b = todo[i] /\ c = todo[j]
        BY <1>3, <2>2
      <3>2. i < j \/ j < i
        BY <1>4, <3>1
      <3>3. <<b, c>> \in Apart \/ <<c, b>> \in Apart
        BY <1>1, <3>1, <3>2 DEF Shares, Spread
      <3> QED BY <3>3 DEF Apart
    <2>3. ASSUME NEW u \in unavailable, NEW t \in Reads!ToSet(todo)
          PROVE  Reads!Cells(u) \cap Reads!Cells(t) = {}
      <3>1. /\ Reads!Cells(u) \subseteq Reads!Covered(unavailable)
            /\ Reads!Cells(t) \subseteq Reads!Covered(Reads!ToSet(todo))
        BY DEF Reads!Covered
      <3> QED BY <1>1, <3>1 DEF Shares
    <2> QED BY <2>1, <2>2, <2>3
  <1> QED BY <1>1, <1>2, <1>4 DEF Reads!WordsAreAccountedFor, Shares, ReadsInvariant

\* Every word asked for is read, unavailable or still to be read, and of its address, for
\* any blocks and any order of requests, replies and losses: modbus_scan.py:132-160,
\* modbus_transport.py:173.
THEOREM WordsAreShared == ReadsNames /\ Reads!Spec => []Reads!WordsAreAccountedFor
  <1> DEFINE Inv == ReadsNames /\ ReadsInvariant
  <1>1. ReadsNames /\ Reads!Init => Inv
    BY ReadsStart
  <1>2. Inv /\ [Reads!Next]_Reads!vars => Inv'
    BY ReadsKeep DEF ReadsNames, ReadsApart
  <1>3. Inv => Reads!WordsAreAccountedFor
    BY ReadsAreShared
  <1> QED BY <1>1, <1>2, <1>3, PTL DEF Reads!Spec

-----------------------------------------------------------------------------
(* Polling over Modbus.                                                    *)

\* A request, and one that asks for what lies behind.
Chunk == [block : Nat \X Nat, first : Nat, count : Nat]
Behind == {p \in Chunk \X Chunk : p[1].first + p[1].count <= p[2].first}

Items(s) == {s[i] : i \in 1..Len(s)}
Blocks(p) == Items(Modbus!PROFILES[p] \o Modbus!OPTIONAL_BLOCKS[p])
Counters(p) == {Modbus!TodayAt(p), Modbus!TodayAt(p) + 1, Modbus!TotalAt(p), Modbus!TotalAt(p) + 1}

\* Some of a block.
Within(r) ==
  /\ r.count > 0 /\ r.block[1] <= r.first
  /\ r.first + r.count <= r.block[1] + r.block[2]

\* The requests still to send, each behind the former, end every block that is not
\* covered yet and ask for every counter of the blocks that is not read yet.
Remaining(B) ==
  /\ todo \in Seq(Chunk) /\ Spread(todo, Behind) /\ covered \subseteq B
  /\ \A i \in 1..Len(todo) :
       /\ todo[i].block \in B \ covered /\ Within(todo[i])
       /\ \A a \in DOMAIN words : a < todo[i].first
  /\ \A b \in B \ covered : \E i \in 1..Len(todo) :
       todo[i].block = b /\ todo[i].first + todo[i].count = b[1] + b[2]
  /\ \A b \in B : \A a \in Modbus!Addresses(b) \cap Counters(profile) :
       \/ a \in DOMAIN words
       \/ \E i \in 1..Len(todo) :
            todo[i].block = b /\ a \in todo[i].first..(todo[i].first + todo[i].count - 1)

\* The blocks needed are covered, and of a block that is, the counters are read.
Complete(needed, B) ==
  /\ needed \subseteq covered /\ covered \subseteq B
  /\ \A b \in covered : Modbus!Addresses(b) \cap Counters(profile) \subseteq DOMAIN words

\* What was read is no more than the inverter counted; and just that, while it stood still.
WordsFit ==
  /\ words \in [DOMAIN words -> Nat] /\ DOMAIN words \subseteq Counters(profile)
  /\ still => \A a \in DOMAIN words : words[a] = Modbus!Register(a)
  /\ Modbus!TotalAt(profile) \in DOMAIN words =>
       words[Modbus!TotalAt(profile)] <= total \div WordBase
  /\ {Modbus!TotalAt(profile), Modbus!TotalAt(profile) + 1} \subseteq DOMAIN words =>
       Modbus!Value(Modbus!TotalAt(profile)) <= total

Counted(reading) == reading # None => reading.total \in Nat /\ reading.total <= total

ModbusInvariant ==
  /\ cfg.profile \in DOMAIN Modbus!PROFILES \cup {Modbus!Auto} /\ cfg.words \in 4..32
  /\ detected \in DOMAIN Modbus!PROFILES \cup {None}
  /\ today \in Nat /\ total \in Nat /\ today <= total
  /\ Counted(snapshot) /\ Counted(disk) /\ Counted(straggler)
  /\ pc \in {"full", "fast", "decode", "fastDecode"} => profile \in DOMAIN Modbus!PROFILES /\ WordsFit
  /\ pc = "full" => Remaining(Blocks(profile))
  /\ pc = "decode" => Complete(Items(Modbus!PROFILES[profile]), Blocks(profile))
  /\ pc = "fast" => Remaining(Items(Modbus!POWER_BLOCKS[profile]))
  /\ pc = "fastDecode" =>
       Complete(Items(Modbus!POWER_BLOCKS[profile]), Items(Modbus!POWER_BLOCKS[profile]))

\* The two modules take one operator of the community.
LEMMA BlocksFlattened ==
  ASSUME NEW S, NEW D, NEW seqs \in Seq(Seq(S)),
         \A k \in 1..Len(seqs) : Spread(seqs[k], D),
         \A k, l \in 1..Len(seqs) : k < l =>
           \A i \in 1..Len(seqs[k]), j \in 1..Len(seqs[l]) : <<seqs[k][i], seqs[l][j]>> \in D
  PROVE  Joined(Modbus!Community!FlattenSeq(seqs), seqs, Len(seqs), S, D)
  <1>1. Modbus!Community!FlattenSeq(seqs) = Reads!FlattenSeq(seqs)
    BY Zenon DEF Modbus!Community!FlattenSeq, Reads!FlattenSeq
  <1>2. Joined(Reads!FlattenSeq(seqs), seqs, Len(seqs), S, D)
    BY Flattened, Zenon
  <1> QED BY <1>1, <1>2, Zenon

\* A count cut by a size: where the pieces begin, and that they leave nothing out.
LEMMA Pieces ==
  ASSUME NEW M \in Nat \ {0}, NEW c \in Nat
  PROVE  LET N == (c + M - 1) \div M
         IN /\ N \in Nat
            /\ \A k \in 1..N : (k - 1) * M \in Nat /\ (k - 1) * M < c
            /\ \A k, l \in 1..N : k < l => (k - 1) * M + M <= (l - 1) * M
            /\ \A x \in Nat : x < c => \E k \in 1..N : (k - 1) * M <= x /\ x < (k - 1) * M + M
  <1>2. PICK N \in Nat : N = (c + M - 1) \div M
    <2>1. c + M - 1 \in Nat
      OBVIOUS
    <2> QED BY <2>1, Division
  <1>3. PICK rest \in 0..(M - 1) : c + M - 1 = M * N + rest
    <2>1. c + M - 1 \in Nat
      OBVIOUS
    <2> QED BY <1>2, <2>1, Division
  <1> DEFINE Offset(k) == (k - 1) * M
  <1>5. ASSUME NEW k \in 1..N
        PROVE  Offset(k) \in Nat /\ Offset(k) < c
    <2>1. Offset(k) \in Nat
      <3>1. k - 1 \in Nat
        OBVIOUS
      <3> QED BY <3>1, Z3
    <2>2. M * N - M * (k - 1) >= M
      BY Turns
    <2>3. M * (k - 1) = Offset(k)
      BY Z3
    <2>4. M * N \in Nat
      BY Z3
    <2> HIDE DEF Offset
    <2>5. PICK p \in Nat : p = M * N
      BY <2>4
    <2> QED BY <1>3, <2>1, <2>2, <2>3, <2>5
  <1>6. ASSUME NEW k \in 1..N, NEW l \in 1..N, k < l
        PROVE  Offset(k) + M <= Offset(l)
    <2>1. M * (l - 1) - M * (k - 1) >= M
      <3>1. k - 1 \in Int /\ l - 1 \in Int /\ k - 1 < l - 1
        BY <1>6
      <3> QED BY <3>1, Turns
    <2>2. M * (k - 1) = Offset(k) /\ M * (l - 1) = Offset(l)
      BY Z3
    <2>3. Offset(k) \in Nat /\ Offset(l) \in Nat
      BY <1>5
    <2> HIDE DEF Offset
    <2> QED BY <2>1, <2>2, <2>3
  <1>7. ASSUME NEW x \in Nat, x < c
        PROVE  \E k \in 1..N : Offset(k) <= x /\ x < Offset(k) + M
    <2>1. PICK q \in Nat, r \in 0..(M - 1) : x = M * q + r
      BY Division
    <2>2. PICK A \in Nat : A = M * q
      BY Z3
    <2>3. PICK B \in Nat : B = M * N
      BY Z3
    <2>4. q < N
      <3>1. SUFFICES ASSUME N <= q PROVE FALSE
        OBVIOUS
      <3>2. N = q \/ A - B >= M
        BY <2>2, <2>3, <3>1, Turns
      <3>3. A >= B
        BY <2>2, <2>3, <3>2
      <3> QED BY <1>3, <1>7, <2>1, <2>2, <2>3, <3>3
    <2>5. q + 1 \in 1..N
      BY <2>4
    <2>6. Offset(q + 1) = A
      BY <2>2, Z3
    <2> HIDE DEF Offset
    <2>7. Offset(q + 1) <= x /\ x < Offset(q + 1) + M
      BY <2>1, <2>2, <2>6
    <2> QED BY <2>5, <2>7
  <1> QED BY <1>2, <1>5, <1>6, <1>7

\* A block is asked for from its beginning to its end.
LEMMA BlockInChunks ==
  ASSUME cfg.words \in Nat \ {0}, NEW f \in Nat, NEW c \in Nat
  PROVE  LET s == Modbus!RequestsOf(<<f, c>>)
         IN /\ s \in Seq(Chunk) /\ Spread(s, Behind)
            /\ \A k \in 1..Len(s) : s[k].block = <<f, c>> /\ Within(s[k])
            /\ \A a \in f..(f + c - 1) :
                 \E k \in 1..Len(s) : a \in s[k].first..(s[k].first + s[k].count - 1)
  <1>1. PICK M \in Nat \ {0} : M = cfg.words
    OBVIOUS
  <1>2. PICK N \in Nat :
          /\ N = (c + M - 1) \div M
          /\ \A k \in 1..N : (k - 1) * M \in Nat /\ (k - 1) * M < c
          /\ \A k, l \in 1..N : k < l => (k - 1) * M + M <= (l - 1) * M
          /\ \A x \in Nat : x < c => \E k \in 1..N : (k - 1) * M <= x /\ x < (k - 1) * M + M
    BY Pieces
  <1> DEFINE Offset(k) == (k - 1) * M
             Element(k) == [block |-> <<f, c>>, first |-> f + Offset(k),
                            count |-> IF c - Offset(k) < M THEN c - Offset(k) ELSE M]
             s == [k \in 1..N |-> Element(k)]
  <1>3. Modbus!RequestsOf(<<f, c>>) = s
    BY <1>1, <1>2, Zenon DEF Modbus!RequestsOf
  <1>4. /\ \A k \in 1..N : Offset(k) \in Nat /\ Offset(k) < c
        /\ \A k, l \in 1..N : k < l => Offset(k) + M <= Offset(l)
        /\ \A x \in Nat : x < c => \E k \in 1..N : Offset(k) <= x /\ x < Offset(k) + M
    BY <1>2
  <1> HIDE DEF Offset
  <1>5. ASSUME NEW k \in 1..N
        PROVE  /\ Element(k) \in Chunk /\ Element(k).block = <<f, c>> /\ Within(Element(k))
               /\ Element(k).first = f + Offset(k) /\ Element(k).first + Element(k).count <= f + Offset(k) + M
               /\ \A a \in f..(f + c - 1) : Offset(k) <= a - f /\ a - f < Offset(k) + M =>
                    a \in Element(k).first..(Element(k).first + Element(k).count - 1)
    BY <1>4 DEF Chunk, Within
  <1> HIDE DEF Element
  <1>6. s \in Seq(Chunk) /\ Len(s) = N /\ \A k \in 1..N : s[k] = Element(k)
    BY <1>5
  <1> HIDE DEF s
  <1>7. ASSUME NEW k \in 1..N, NEW l \in 1..N, k < l
        PROVE  <<Element(k), Element(l)>> \in Behind
    <2>1. Element(k).first + Element(k).count <= Element(l).first
      <3>1. Element(k).first \in Nat /\ Element(k).count \in Nat
        BY <1>5 DEF Chunk
      <3>2. Offset(k) \in Nat /\ Offset(l) \in Nat /\ Offset(k) + M <= Offset(l)
        BY <1>4, <1>7
      <3> QED BY <1>5, <3>1, <3>2
    <2> QED BY <1>5, <2>1 DEF Behind
  <1>8. Spread(s, Behind)
    BY <1>6, <1>7 DEF Spread
  <1>9. ASSUME NEW a \in f..(f + c - 1)
        PROVE  \E k \in 1..N : a \in Element(k).first..(Element(k).first + Element(k).count - 1)
    <2>1. a - f \in Nat /\ a - f < c
      OBVIOUS
    <2>2. PICK k \in 1..N : Offset(k) <= a - f /\ a - f < Offset(k) + M
      BY <1>4, <2>1
    <2> QED BY <1>5, <2>2
  <1> QED BY <1>3, <1>5, <1>6, <1>8, <1>9

\* Blocks one behind the other, none of them empty.
IsMap(blocks) ==
  /\ blocks \in Seq(Nat \X Nat)
  /\ \A k \in 1..Len(blocks) : blocks[k][2] > 0
  /\ \A k, l \in 1..Len(blocks) : k < l => blocks[k][1] + blocks[k][2] <= blocks[l][1]

LEMMA BlocksOfMap ==
  ASSUME NEW blocks, IsMap(blocks)
  PROVE  /\ DOMAIN blocks = 1..Len(blocks) /\ Len(blocks) \in Nat
         /\ \A k \in 1..Len(blocks) :
              /\ blocks[k][1] \in Nat /\ blocks[k][2] \in Nat /\ blocks[k][2] > 0
              /\ blocks[k] = <<blocks[k][1], blocks[k][2]>>
         /\ \A k, l \in 1..Len(blocks) : k < l => blocks[k][1] + blocks[k][2] <= blocks[l][1]
  <1>1. ASSUME NEW p \in Nat \X Nat
        PROVE  p[1] \in Nat /\ p[2] \in Nat /\ p = <<p[1], p[2]>>
    OBVIOUS
  <1>2. \A k \in 1..Len(blocks) : blocks[k] \in Nat \X Nat
    BY DEF IsMap
  <1> QED BY <1>1, <1>2 DEF IsMap

\* They are asked for in that order.
LEMMA AskedInTurn ==
  ASSUME cfg.words \in Nat \ {0}, NEW blocks, IsMap(blocks)
  PROVE  LET s == Modbus!RequestsFor(blocks)
         IN /\ s \in Seq(Chunk) /\ Spread(s, Behind)
            /\ \A i \in 1..Len(s) : s[i].block \in Items(blocks) /\ Within(s[i])
            /\ \A b \in Items(blocks) : \A a \in Modbus!Addresses(b) :
                 \E i \in 1..Len(s) :
                   s[i].block = b /\ a \in s[i].first..(s[i].first + s[i].count - 1)
  <1> DEFINE Part(k) == Modbus!RequestsOf(blocks[k])
             seqs == [k \in DOMAIN blocks |-> Part(k)]
             s == Modbus!RequestsFor(blocks)
  <1>1. ASSUME NEW k \in 1..Len(blocks)
        PROVE  /\ Part(k) \in Seq(Chunk) /\ Spread(Part(k), Behind)
               /\ \A i \in 1..Len(Part(k)) : Part(k)[i].block = blocks[k] /\ Within(Part(k)[i])
               /\ \A a \in Modbus!Addresses(blocks[k]) :
                    \E i \in 1..Len(Part(k)) :
                      a \in Part(k)[i].first..(Part(k)[i].first + Part(k)[i].count - 1)
    <2>1. PICK f \in Nat, c \in Nat : blocks[k] = <<f, c>>
      <3>1. blocks[k][1] \in Nat /\ blocks[k][2] \in Nat /\ blocks[k] = <<blocks[k][1], blocks[k][2]>>
        BY BlocksOfMap
      <3> QED BY <3>1, Zenon
    <2>2. Modbus!Addresses(blocks[k]) = f..(f + c - 1)
      BY <2>1 DEF Modbus!Addresses
    <2> QED BY <2>1, <2>2, BlockInChunks, Zenon
  <1> HIDE DEF Part
  <1>2. DOMAIN blocks = 1..Len(blocks) /\ Len(blocks) \in Nat
    BY BlocksOfMap
  <1>3. seqs \in Seq(Seq(Chunk)) /\ Len(seqs) = Len(blocks)
        /\ \A k \in 1..Len(blocks) : seqs[k] = Part(k)
    BY <1>1, <1>2
  <1>4. s = Modbus!Community!FlattenSeq(seqs)
    BY Zenon DEF Modbus!RequestsFor, Part
  <1> HIDE DEF seqs, s
  <1>5. \A k \in 1..Len(seqs) : Spread(seqs[k], Behind)
    BY <1>1, <1>3
  <1>6. ASSUME NEW k \in 1..Len(seqs), NEW l \in 1..Len(seqs), k < l,
               NEW i \in 1..Len(seqs[k]), NEW j \in 1..Len(seqs[l])
        PROVE  <<seqs[k][i], seqs[l][j]>> \in Behind
    <2>1. blocks[k][1] + blocks[k][2] <= blocks[l][1]
      BY <1>3, <1>6, BlocksOfMap
    <2>2. /\ seqs[k][i].block = blocks[k] /\ Within(seqs[k][i])
          /\ seqs[l][j].block = blocks[l] /\ Within(seqs[l][j])
      BY <1>1, <1>3
    <2>3. seqs[k][i] \in Chunk /\ seqs[l][j] \in Chunk
      <3>1. seqs[k] \in Seq(Chunk) /\ seqs[l] \in Seq(Chunk)
        BY <1>3
      <3> QED BY <3>1
    <2>4. seqs[k][i].first + seqs[k][i].count <= seqs[l][j].first
      <3>2. blocks[k][1] \in Nat /\ blocks[k][2] \in Nat /\ blocks[l][1] \in Nat
        BY <1>3, BlocksOfMap
      <3>3. /\ seqs[k][i].first + seqs[k][i].count <= blocks[k][1] + blocks[k][2]
            /\ blocks[l][1] <= seqs[l][j].first
        BY <2>2 DEF Within
      <3>4. /\ seqs[k][i].first \in Nat /\ seqs[k][i].count \in Nat /\ seqs[l][j].first \in Nat
        BY <2>3 DEF Chunk
      <3>5. PICK x \in Nat, y \in Nat, z \in Nat :
              x = blocks[k][1] /\ y = blocks[k][2] /\ z = blocks[l][1]
        BY <3>2
      <3>6. PICK d \in Nat, e \in Nat, g \in Nat :
              d = seqs[k][i].first /\ e = seqs[k][i].count /\ g = seqs[l][j].first
        BY <3>4
      <3>7. x + y <= z /\ d + e <= x + y /\ z <= g
        BY <2>1, <3>3, <3>5, <3>6, Zenon
      <3>8. d + e <= g
        BY <3>7
      <3> QED BY <3>6, <3>8, Zenon
    <2> QED BY <2>3, <2>4 DEF Behind
  <1>7. Joined(s, seqs, Len(seqs), Chunk, Behind)
    <2> HIDE DEF Joined
    <2> QED BY <1>3, <1>4, <1>5, <1>6, BlocksFlattened
  <1>8. s \in Seq(Chunk) /\ Spread(s, Behind)
    BY <1>7 DEF Joined
  <1>9. ASSUME NEW i \in 1..Len(s)
        PROVE  s[i].block \in Items(blocks) /\ Within(s[i])
    <2>1. PICK k \in 1..Len(seqs) : \E j \in 1..Len(seqs[k]) : s[i] = seqs[k][j]
      BY <1>7 DEF Joined
    <2>2. PICK j \in 1..Len(seqs[k]) : s[i] = seqs[k][j]
      BY <2>1
    <2>3. k \in 1..Len(blocks) /\ seqs[k] = Part(k)
      BY <1>3
    <2>4. s[i].block = blocks[k] /\ Within(s[i])
      BY <1>1, <2>2, <2>3
    <2> QED BY <2>3, <2>4 DEF Items
  <1>10. ASSUME NEW b \in Items(blocks), NEW a \in Modbus!Addresses(b)
         PROVE  \E i \in 1..Len(s) :
                   s[i].block = b /\ a \in s[i].first..(s[i].first + s[i].count - 1)
    <2>1. PICK k \in 1..Len(blocks) : b = blocks[k]
      BY DEF Items
    <2>2. PICK j \in 1..Len(Part(k)) :
            /\ Part(k)[j].block = b
            /\ a \in Part(k)[j].first..(Part(k)[j].first + Part(k)[j].count - 1)
      <3>1. a \in Modbus!Addresses(blocks[k])
        BY <2>1
      <3>2. PICK j \in 1..Len(Part(k)) :
              a \in Part(k)[j].first..(Part(k)[j].first + Part(k)[j].count - 1)
        BY <1>1, <3>1, Zenon
      <3>3. Part(k)[j].block = b
        BY <1>1, <2>1
      <3> QED BY <3>2, <3>3, Zenon
    <2>3. k \in 1..Len(seqs) /\ j \in 1..Len(seqs[k]) /\ seqs[k][j] = Part(k)[j]
      BY <1>3
    <2>4. PICK i \in 1..Len(s) : s[i] = seqs[k][j]
      BY <1>7, <2>3 DEF Joined
    <2> QED BY <2>2, <2>3, <2>4
  <1> QED BY <1>8, <1>9, <1>10 DEF s

\* Any one, two or three blocks.
LEMMA ItemsOf ==
  ASSUME NEW a, NEW b, NEW c
  PROVE  Items(<<a>>) = {a} /\ Items(<<a, b>>) = {a, b} /\ Items(<<a, b, c>>) = {a, b, c}
  <1>1. Len(<<a>>) = 1 /\ Len(<<a, b>>) = 2 /\ Len(<<a, b, c>>) = 3
    OBVIOUS
  <1>2. 1..1 = {1} /\ 1..2 = {1, 2} /\ 1..3 = {1, 2, 3}
    OBVIOUS
  <1>3. Items(<<a>>) = {a}
    BY <1>1, <1>2 DEF Items
  <1>4. Items(<<a, b>>) = {a, b}
    BY <1>1, <1>2 DEF Items
  <1>5. Items(<<a, b, c>>) = {a, b, c}
    BY <1>1, <1>2 DEF Items
  <1> QED BY <1>3, <1>4, <1>5

\* A map continued by one that lies behind it.
LEMMA MapContinued ==
  ASSUME NEW s, NEW t, IsMap(s), IsMap(t),
         \A b \in Items(s) : \A c \in Items(t) : b[1] + b[2] <= c[1]
  PROVE  IsMap(s \o t) /\ Items(s \o t) = Items(s) \cup Items(t)
  <1>1. s \in Seq(Nat \X Nat) /\ t \in Seq(Nat \X Nat)
    BY DEF IsMap
  <1>2. PICK q : q = s \o t
    OBVIOUS
  <1>0. q \in Seq(Nat \X Nat)
    BY <1>1, <1>2
  <1>3. /\ Len(q) = Len(s) + Len(t) /\ Len(s) \in Nat /\ Len(t) \in Nat
        /\ \A i \in 1..Len(q) : i <= Len(s) => i \in 1..Len(s) /\ q[i] = s[i]
        /\ \A i \in 1..Len(q) : ~(i <= Len(s)) => i - Len(s) \in 1..Len(t) /\ q[i] = t[i - Len(s)]
        /\ \A i \in 1..Len(s) : i \in 1..Len(q) /\ q[i] = s[i]
        /\ \A i \in 1..Len(t) : Len(s) + i \in 1..Len(q) /\ q[Len(s) + i] = t[i]
    <2>1. Placed(q, s, t)
      BY <1>1, <1>2, PlacesJoined, Zenon
    <2> QED BY <2>1, Zenon DEF Placed
  <1>4. Items(q) = Items(s) \cup Items(t)
    <2>1. ASSUME NEW i \in 1..Len(q)
          PROVE  q[i] \in Items(s) \cup Items(t)
      <3>1. CASE i <= Len(s)
        BY <1>3, <3>1 DEF Items
      <3>2. CASE ~(i <= Len(s))
        BY <1>3, <3>2 DEF Items
      <3> QED BY <3>1, <3>2
    <2>2. \A i \in 1..Len(s) : s[i] \in Items(q)
      BY <1>3 DEF Items
    <2>3. \A i \in 1..Len(t) : t[i] \in Items(q)
      BY <1>3 DEF Items
    <2> QED BY <2>1, <2>2, <2>3 DEF Items
  <1>5. ASSUME NEW k \in 1..Len(q), NEW l \in 1..Len(q), k < l
        PROVE  q[k][1] + q[k][2] <= q[l][1]
    <2>1. CASE l <= Len(s)
      <3>1. k \in 1..Len(s) /\ l \in 1..Len(s) /\ q[k] = s[k] /\ q[l] = s[l]
        BY <1>3, <1>5, <2>1
      <3> QED BY <1>5, <3>1 DEF IsMap
    <2>2. CASE k <= Len(s) /\ ~(l <= Len(s))
      <3>1. q[k] \in Items(s) /\ q[l] \in Items(t)
        BY <1>3, <2>2 DEF Items
      <3> QED BY <3>1
    <2>3. CASE ~(k <= Len(s)) /\ ~(l <= Len(s))
      <3>1. /\ k - Len(s) \in 1..Len(t) /\ q[k] = t[k - Len(s)]
            /\ l - Len(s) \in 1..Len(t) /\ q[l] = t[l - Len(s)]
            /\ k - Len(s) < l - Len(s)
        BY <1>3, <1>5, <2>3
      <3> QED BY <3>1 DEF IsMap
    <2> QED BY <1>3, <1>5, <2>1, <2>2, <2>3
  <1>6. ASSUME NEW k \in 1..Len(q)
        PROVE  q[k][2] > 0
    <2>1. (k <= Len(s) /\ k \in 1..Len(s) /\ q[k] = s[k])
          \/ (k - Len(s) \in 1..Len(t) /\ q[k] = t[k - Len(s)])
      BY <1>3
    <2> QED BY <2>1 DEF IsMap
  <1> QED BY <1>0, <1>2, <1>4, <1>5, <1>6 DEF IsMap

LEMMA MapOfOne ==
  ASSUME NEW a1 \in Nat, NEW a2 \in Nat \ {0}
  PROVE  IsMap(<<<<a1, a2>>>>) /\ Items(<<<<a1, a2>>>>) = {<<a1, a2>>}
  <1> DEFINE m == <<<<a1, a2>>>>
  <1>1. m \in Seq(Nat \X Nat) /\ Len(m) = 1
    OBVIOUS
  <1>2. (\A k, l \in 1..1 : ~(k < l)) /\ \A k \in 1..1 : m[k][2] > 0
    OBVIOUS
  <1>3. Items(m) = {<<a1, a2>>}
    BY ItemsOf, Zenon
  <1> QED BY <1>1, <1>2, <1>3 DEF IsMap

LEMMA EmptyMap == IsMap(<<>>) /\ Items(<<>>) = {}
  BY DEF IsMap, Items

LEMMA MapOfTwo ==
  ASSUME NEW a1 \in Nat, NEW a2 \in Nat \ {0}, NEW b1 \in Nat, NEW b2 \in Nat \ {0}, a1 + a2 <= b1
  PROVE  IsMap(<<<<a1, a2>>, <<b1, b2>>>>) /\ Items(<<<<a1, a2>>, <<b1, b2>>>>) = {<<a1, a2>>, <<b1, b2>>}
  <1> DEFINE m == <<<<a1, a2>>, <<b1, b2>>>>
  <1>1. m \in Seq(Nat \X Nat) /\ Len(m) = 2
    OBVIOUS
  <1>0. ASSUME NEW k \in 1..2
        PROVE  m[k][2] > 0
    <2>1. k = 1 \/ k = 2
      OBVIOUS
    <2> QED BY <2>1
  <1>2. ASSUME NEW k \in 1..2, NEW l \in 1..2, k < l
        PROVE  m[k][1] + m[k][2] <= m[l][1]
    <2>1. k = 1 /\ l = 2
      BY <1>2
    <2> QED BY <2>1
  <1>3. Items(m) = {<<a1, a2>>, <<b1, b2>>}
    BY ItemsOf, Zenon
  <1> QED BY <1>0, <1>1, <1>2, <1>3 DEF IsMap

Registers(S) == UNION {Modbus!Addresses(b) : b \in S}

\* What of the tables the polls rest on. Every block behind the others; the optional one behind
\* all that are needed; both counters in one block that is needed; and every register a decoder
\* looks up, in a block read.
MapFits(p) ==
  /\ IsMap(Modbus!PROFILES[p] \o Modbus!OPTIONAL_BLOCKS[p]) /\ IsMap(Modbus!POWER_BLOCKS[p])
  /\ Items(Modbus!PROFILES[p]) \subseteq Blocks(p)
  /\ \A b \in Items(Modbus!PROFILES[p]) : \A o \in Items(Modbus!OPTIONAL_BLOCKS[p]) : b[1] + b[2] <= o[1]
  /\ \E b \in Items(Modbus!PROFILES[p]) : Counters(p) \subseteq Modbus!Addresses(b)
  /\ \A S : Items(Modbus!PROFILES[p]) \subseteq S /\ S \subseteq Blocks(p) =>
       Modbus!Uses(p, Registers(S)) \subseteq Registers(S)
  /\ Modbus!PowerUses(p) \subseteq Registers(Items(Modbus!POWER_BLOCKS[p]))

LEMMA PairsWithin ==
  ASSUME NEW S, NEW R, \A a \in S : a \in R /\ a + 1 \in R
  PROVE  Modbus!Pairs(S) \subseteq R
  BY DEF Modbus!Pairs, Modbus!Pair

LEMMA RegistersOf ==
  ASSUME NEW S, NEW b \in S
  PROVE  Modbus!Addresses(b) \subseteq Registers(S)
  BY DEF Registers

LEMMA EveryWithin ==
  ASSUME NEW m \in Int, NEW n \in Int, NEW k
  PROVE  Modbus!Every(m, n, k) \subseteq m..n
  BY DEF Modbus!Every

\* The sequences of a profile's tables may be named.
LEMMA Fitting ==
  ASSUME NEW p, NEW full, NEW opt, NEW power,
         Modbus!PROFILES[p] = full, Modbus!OPTIONAL_BLOCKS[p] = opt, Modbus!POWER_BLOCKS[p] = power,
         IsMap(full), IsMap(opt), IsMap(power),
         \A b \in Items(full) : \A o \in Items(opt) : b[1] + b[2] <= o[1],
         \E b \in Items(full) : Counters(p) \subseteq Modbus!Addresses(b),
         \A S : Items(full) \subseteq S /\ S \subseteq Items(full) \cup Items(opt) =>
           Modbus!Uses(p, Registers(S)) \subseteq Registers(S),
         Modbus!PowerUses(p) \subseteq Registers(Items(power))
  PROVE  MapFits(p)
  <1>1. IsMap(full \o opt) /\ Items(full \o opt) = Items(full) \cup Items(opt)
    BY MapContinued, Zenon
  <1>2. Blocks(p) = Items(full) \cup Items(opt)
    BY <1>1, Zenon DEF Blocks
  <1>3. Items(full) \subseteq Blocks(p)
    BY <1>2
  <1> QED BY <1>1, <1>2, <1>3, Zenon DEF MapFits

LEMMA MapsOf ==
  /\ DOMAIN Modbus!PROFILES = {Modbus!Min, Modbus!Min3, Modbus!Tl3, Modbus!Mic, Modbus!Legacy}
  /\ \A p \in {Modbus!Min, Modbus!Min3} :
       Modbus!PROFILES[p] = <<<<3000, 30>>, <<3047, 32>>>>
  /\ Modbus!PROFILES[Modbus!Tl3] = <<<<3000, 30>>, <<3030, 11>>, <<3047, 32>>>>
  /\ Modbus!PROFILES[Modbus!Mic] = <<<<0, 32>>, <<32, 26>>>>
  /\ Modbus!PROFILES[Modbus!Legacy] = <<<<0, 11>>, <<35, 32>>>>
  /\ \A p \in {Modbus!Min3, Modbus!Tl3} :
       /\ Modbus!OPTIONAL_BLOCKS[p] = <<<<3086, 23>>>>
       /\ Modbus!POWER_BLOCKS[p] = <<<<3001, 14>>, <<3023, 2>>>>
  /\ \A p \in {Modbus!Min, Modbus!Mic, Modbus!Legacy} : Modbus!OPTIONAL_BLOCKS[p] = <<>>
  /\ Modbus!POWER_BLOCKS[Modbus!Min] = <<<<3001, 10>>, <<3023, 2>>>>
  /\ Modbus!POWER_BLOCKS[Modbus!Mic] = <<<<1, 6>>, <<11, 2>>>>
  /\ Modbus!POWER_BLOCKS[Modbus!Legacy] = <<<<1, 10>>, <<35, 2>>>>
  <1> USE DEF Modbus!Min, Modbus!Min3, Modbus!Tl3, Modbus!Mic, Modbus!Legacy
  <1>1. DOMAIN Modbus!PROFILES = {Modbus!Min, Modbus!Min3, Modbus!Tl3, Modbus!Mic, Modbus!Legacy}
    BY DEF Modbus!PROFILES
  <1>2. \A p \in {Modbus!Min, Modbus!Min3} : Modbus!PROFILES[p] = <<<<3000, 30>>, <<3047, 32>>>>
    BY DEF Modbus!PROFILES
  <1>3. Modbus!PROFILES[Modbus!Tl3] = <<<<3000, 30>>, <<3030, 11>>, <<3047, 32>>>>
    BY DEF Modbus!PROFILES
  <1>4. Modbus!PROFILES[Modbus!Mic] = <<<<0, 32>>, <<32, 26>>>>
    BY DEF Modbus!PROFILES
  <1>5. Modbus!PROFILES[Modbus!Legacy] = <<<<0, 11>>, <<35, 32>>>>
    BY DEF Modbus!PROFILES
  <1>6. /\ \A p \in {Modbus!Min3, Modbus!Tl3} : Modbus!OPTIONAL_BLOCKS[p] = <<<<3086, 23>>>>
        /\ \A p \in {Modbus!Min, Modbus!Mic, Modbus!Legacy} : Modbus!OPTIONAL_BLOCKS[p] = <<>>
    BY <1>1 DEF Modbus!OPTIONAL_BLOCKS
  <1>7. \A p \in {Modbus!Min3, Modbus!Tl3} : Modbus!POWER_BLOCKS[p] = <<<<3001, 14>>, <<3023, 2>>>>
    BY <1>1 DEF Modbus!POWER_BLOCKS
  <1>8. /\ Modbus!POWER_BLOCKS[Modbus!Min] = <<<<3001, 10>>, <<3023, 2>>>>
        /\ Modbus!POWER_BLOCKS[Modbus!Mic] = <<<<1, 6>>, <<11, 2>>>>
        /\ Modbus!POWER_BLOCKS[Modbus!Legacy] = <<<<1, 10>>, <<35, 2>>>>
    BY <1>1 DEF Modbus!POWER_BLOCKS
  <1> QED BY <1>1, <1>2, <1>3, <1>4, <1>5, <1>6, <1>7, <1>8

LEMMA AddressesOrdered ==
  /\ Modbus!Addresses(<<0, 11>>) = 0..10
  /\ Modbus!Addresses(<<0, 32>>) = 0..31
  /\ Modbus!Addresses(<<1, 6>>) = 1..6
  /\ Modbus!Addresses(<<1, 10>>) = 1..10
  /\ Modbus!Addresses(<<11, 2>>) = 11..12
  /\ Modbus!Addresses(<<32, 26>>) = 32..57
  /\ Modbus!Addresses(<<35, 2>>) = 35..36
  /\ Modbus!Addresses(<<35, 32>>) = 35..66
  /\ Modbus!Addresses(<<3000, 30>>) = 3000..3029
  /\ Modbus!Addresses(<<3001, 10>>) = 3001..3010
  /\ Modbus!Addresses(<<3001, 14>>) = 3001..3014
  /\ Modbus!Addresses(<<3023, 2>>) = 3023..3024
  /\ Modbus!Addresses(<<3030, 11>>) = 3030..3040
  /\ Modbus!Addresses(<<3047, 32>>) = 3047..3078
  /\ Modbus!Addresses(<<3086, 23>>) = 3086..3108
  <1>1. Modbus!Addresses(<<0, 11>>) = 0..10
    <2>1. 0..(0 + 11 - 1) = 0..10
      OBVIOUS
    <2> QED BY <2>1 DEF Modbus!Addresses
  <1>2. Modbus!Addresses(<<0, 32>>) = 0..31
    <2>1. 0..(0 + 32 - 1) = 0..31
      OBVIOUS
    <2> QED BY <2>1 DEF Modbus!Addresses
  <1>3. Modbus!Addresses(<<1, 6>>) = 1..6
    <2>1. 1..(1 + 6 - 1) = 1..6
      OBVIOUS
    <2> QED BY <2>1 DEF Modbus!Addresses
  <1>4. Modbus!Addresses(<<1, 10>>) = 1..10
    <2>1. 1..(1 + 10 - 1) = 1..10
      OBVIOUS
    <2> QED BY <2>1 DEF Modbus!Addresses
  <1>5. Modbus!Addresses(<<11, 2>>) = 11..12
    <2>1. 11..(11 + 2 - 1) = 11..12
      OBVIOUS
    <2> QED BY <2>1 DEF Modbus!Addresses
  <1>6. Modbus!Addresses(<<32, 26>>) = 32..57
    <2>1. 32..(32 + 26 - 1) = 32..57
      OBVIOUS
    <2> QED BY <2>1 DEF Modbus!Addresses
  <1>7. Modbus!Addresses(<<35, 2>>) = 35..36
    <2>1. 35..(35 + 2 - 1) = 35..36
      OBVIOUS
    <2> QED BY <2>1 DEF Modbus!Addresses
  <1>8. Modbus!Addresses(<<35, 32>>) = 35..66
    <2>1. 35..(35 + 32 - 1) = 35..66
      OBVIOUS
    <2> QED BY <2>1 DEF Modbus!Addresses
  <1>9. Modbus!Addresses(<<3000, 30>>) = 3000..3029
    <2>1. 3000..(3000 + 30 - 1) = 3000..3029
      OBVIOUS
    <2> QED BY <2>1 DEF Modbus!Addresses
  <1>10. Modbus!Addresses(<<3001, 10>>) = 3001..3010
    <2>1. 3001..(3001 + 10 - 1) = 3001..3010
      OBVIOUS
    <2> QED BY <2>1 DEF Modbus!Addresses
  <1>11. Modbus!Addresses(<<3001, 14>>) = 3001..3014
    <2>1. 3001..(3001 + 14 - 1) = 3001..3014
      OBVIOUS
    <2> QED BY <2>1 DEF Modbus!Addresses
  <1>12. Modbus!Addresses(<<3023, 2>>) = 3023..3024
    <2>1. 3023..(3023 + 2 - 1) = 3023..3024
      OBVIOUS
    <2> QED BY <2>1 DEF Modbus!Addresses
  <1>13. Modbus!Addresses(<<3030, 11>>) = 3030..3040
    <2>1. 3030..(3030 + 11 - 1) = 3030..3040
      OBVIOUS
    <2> QED BY <2>1 DEF Modbus!Addresses
  <1>14. Modbus!Addresses(<<3047, 32>>) = 3047..3078
    <2>1. 3047..(3047 + 32 - 1) = 3047..3078
      OBVIOUS
    <2> QED BY <2>1 DEF Modbus!Addresses
  <1>15. Modbus!Addresses(<<3086, 23>>) = 3086..3108
    <2>1. 3086..(3086 + 23 - 1) = 3086..3108
      OBVIOUS
    <2> QED BY <2>1 DEF Modbus!Addresses
  <1> QED BY <1>1, <1>2, <1>3, <1>4, <1>5, <1>6, <1>7, <1>8, <1>9, <1>10, <1>11, <1>12, <1>13, <1>14, <1>15

LEMMA MinFits == MapFits(Modbus!Min)
  <1> DEFINE p == Modbus!Min
             full == <<<<3000, 30>>, <<3047, 32>>>>
             opt == <<>>
             power == <<<<3001, 10>>, <<3023, 2>>>>
  <1>1. Modbus!PROFILES[p] = full /\ Modbus!OPTIONAL_BLOCKS[p] = opt /\ Modbus!POWER_BLOCKS[p] = power
    BY MapsOf
  <1>2. IsMap(full) /\ Items(full) = {<<3000, 30>>, <<3047, 32>>}
    BY MapOfTwo
  <1>3. IsMap(opt) /\ Items(opt) = {}
    BY EmptyMap
  <1>4. IsMap(power) /\ Items(power) = {<<3001, 10>>, <<3023, 2>>}
    BY MapOfTwo
  <1> HIDE DEF full, opt, power
  <1>7. \A b \in Items(full) : \A o \in Items(opt) : b[1] + b[2] <= o[1]
    BY <1>2, <1>3
  <1>8. \E b \in Items(full) : Counters(p) \subseteq Modbus!Addresses(b)
    <2>1. Counters(p) \subseteq 3047..3078
      <3>1. Modbus!TodayAt(p) = 3049
        BY DEF Modbus!TodayAt, Modbus!Min, Modbus!Min3, Modbus!Tl3, Modbus!Mic, Modbus!Legacy
      <3> QED BY <3>1 DEF Counters, Modbus!TotalAt
    <2>2. <<3047, 32>> \in Items(full)
      BY <1>2
    <2> QED BY <2>1, <2>2, AddressesOrdered
  <1>9. ASSUME NEW S, Items(full) \subseteq S, S \subseteq Items(full) \cup Items(opt)
        PROVE  Modbus!Uses(p, Registers(S)) \subseteq Registers(S)
    <2> DEFINE read == Registers(S)
    <2>1. 3000..3029 \subseteq read /\ 3047..3078 \subseteq read
      <3>1. <<3000, 30>> \in S /\ <<3047, 32>> \in S
        BY <1>2, <1>9
      <3> QED BY <3>1, RegistersOf, AddressesOrdered
    <2> HIDE DEF read
    <2>3. {3000, 3003, 3004, 3007, 3008, 3025, 3026, 3027} \subseteq read
      BY <2>1
    <2>4. Modbus!Pairs({3001, 3005, 3009, 3023} \cup Modbus!Every(3047, 3061, 2)) \subseteq read
      <3> DEFINE T == {3001, 3005, 3009, 3023} \cup Modbus!Every(3047, 3061, 2)
      <3>1. ASSUME NEW a \in T
            PROVE  a \in read /\ a + 1 \in read
        <4>1. a \in {3001, 3005, 3009, 3023} \/ a \in 3047..3061
          BY EveryWithin
        <4> QED BY <2>1, <4>1
      <3> HIDE DEF T
      <3>2. Modbus!Pairs(T) \subseteq read
        BY <3>1, PairsWithin
      <3> QED BY <3>2 DEF T
    <2>5. ASSUME NEW x \in Modbus!Uses(p, read)
          PROVE  \/ x \in {3000, 3003, 3004, 3007, 3008, 3025, 3026, 3027}
                 \/ x \in Modbus!Pairs({3001, 3005, 3009, 3023} \cup Modbus!Every(3047, 3061, 2))
      BY <2>5 DEF Modbus!Uses, Modbus!Min, Modbus!Min3, Modbus!Tl3, Modbus!Mic, Modbus!Legacy
    <2> QED BY <2>3, <2>4, <2>5 DEF read
  <1>10. Modbus!PowerUses(p) \subseteq Registers(Items(power))
    <2> DEFINE read == Registers(Items(power))
    <2>1. 3001..3010 \subseteq read /\ 3023..3024 \subseteq read
      <3>1. <<3001, 10>> \in Items(power) /\ <<3023, 2>> \in Items(power)
        BY <1>4
      <3> QED BY <3>1, RegistersOf, AddressesOrdered
    <2> HIDE DEF read
    <2>2. ASSUME NEW a \in {3001, 3005, 3023, 3009}
          PROVE  a \in read /\ a + 1 \in read
      BY <2>1
    <2>3. Modbus!PowerUses(p) = Modbus!Pairs({3001, 3005, 3023, 3009})
      BY DEF Modbus!PowerUses, Modbus!Min, Modbus!Min3, Modbus!Tl3, Modbus!Mic, Modbus!Legacy
    <2>4. Modbus!Pairs({3001, 3005, 3023, 3009}) \subseteq read
      BY <2>2, PairsWithin
    <2> QED BY <2>3, <2>4 DEF read
  <1> QED
    <2>2. IsMap(full) /\ IsMap(opt) /\ IsMap(power)
      BY <1>2, <1>3, <1>4
    <2> HIDE DEF p
    <2>1. MapFits(p)
      BY <1>1, <2>2, <1>7, <1>8, <1>9, <1>10, Fitting, Zenon
    <2> QED BY <2>1 DEF p

LEMMA Min3Fits == MapFits(Modbus!Min3)
  <1> DEFINE p == Modbus!Min3
             full == <<<<3000, 30>>, <<3047, 32>>>>
             opt == <<<<3086, 23>>>>
             power == <<<<3001, 14>>, <<3023, 2>>>>
  <1>1. Modbus!PROFILES[p] = full /\ Modbus!OPTIONAL_BLOCKS[p] = opt /\ Modbus!POWER_BLOCKS[p] = power
    BY MapsOf
  <1>2. IsMap(full) /\ Items(full) = {<<3000, 30>>, <<3047, 32>>}
    BY MapOfTwo
  <1>3. IsMap(opt) /\ Items(opt) = {<<3086, 23>>}
    BY MapOfOne
  <1>4. IsMap(power) /\ Items(power) = {<<3001, 14>>, <<3023, 2>>}
    BY MapOfTwo
  <1> HIDE DEF full, opt, power
  <1>7. \A b \in Items(full) : \A o \in Items(opt) : b[1] + b[2] <= o[1]
    BY <1>2, <1>3
  <1>8. \E b \in Items(full) : Counters(p) \subseteq Modbus!Addresses(b)
    <2>1. Counters(p) \subseteq 3047..3078
      <3>1. Modbus!TodayAt(p) = 3049
        BY DEF Modbus!TodayAt, Modbus!Min, Modbus!Min3, Modbus!Tl3, Modbus!Mic, Modbus!Legacy
      <3> QED BY <3>1 DEF Counters, Modbus!TotalAt
    <2>2. <<3047, 32>> \in Items(full)
      BY <1>2
    <2> QED BY <2>1, <2>2, AddressesOrdered
  <1>9. ASSUME NEW S, Items(full) \subseteq S, S \subseteq Items(full) \cup Items(opt)
        PROVE  Modbus!Uses(p, Registers(S)) \subseteq Registers(S)
    <2> DEFINE read == Registers(S)
    <2>1. 3000..3029 \subseteq read /\ 3047..3078 \subseteq read
      <3>1. <<3000, 30>> \in S /\ <<3047, 32>> \in S
        BY <1>2, <1>9
      <3> QED BY <3>1, RegistersOf, AddressesOrdered
    <2>2. 3086 \in read => 3086..3108 \subseteq read
      <3>1. ASSUME NEW b \in S, 3086 \in Modbus!Addresses(b)
            PROVE  b = <<3086, 23>>
        BY <1>2, <1>3, <1>9, <3>1, AddressesOrdered
      <3>2. SUFFICES ASSUME 3086 \in read PROVE 3086..3108 \subseteq read
        OBVIOUS
      <3>3. <<3086, 23>> \in S
        BY <3>1, <3>2 DEF Registers
      <3> QED BY <3>3, RegistersOf, AddressesOrdered
    <2> HIDE DEF read
    <2>3. {3000, 3003, 3004, 3007, 3008, 3025, 3026, 3027} \subseteq read
      BY <2>1
    <2>4. {3011, 3012} \subseteq read
      BY <2>1
    <2>5. 3086 \in read => {3086, 3093, 3094, 3095, 3105, 3106} \subseteq read
      BY <2>1, <2>2
    <2>6. Modbus!Pairs({3001, 3005, 3009, 3023} \cup Modbus!Every(3047, 3061, 2)) \subseteq read
      <3> DEFINE T == {3001, 3005, 3009, 3023} \cup Modbus!Every(3047, 3061, 2)
      <3>1. ASSUME NEW a \in T
            PROVE  a \in read /\ a + 1 \in read
        <4>1. a \in {3001, 3005, 3009, 3023} \/ a \in 3047..3061
          BY EveryWithin
        <4> QED BY <2>1, <4>1
      <3> HIDE DEF T
      <3>2. Modbus!Pairs(T) \subseteq read
        BY <3>1, PairsWithin
      <3> QED BY <3>2 DEF T
    <2>7. Modbus!Pairs({3013, 3063, 3065}) \subseteq read
      <3>1. ASSUME NEW a \in {3013, 3063, 3065}
            PROVE  a \in read /\ a + 1 \in read
        BY <2>1
      <3> QED BY <3>1, PairsWithin
    <2>8. ASSUME NEW x \in Modbus!Uses(p, read)
          PROVE  \/ x \in {3000, 3003, 3004, 3007, 3008, 3025, 3026, 3027}
                 \/ x \in {3011, 3012}
                 \/ 3086 \in read /\ x \in {3086, 3093, 3094, 3095, 3105, 3106}
                 \/ x \in Modbus!Pairs({3001, 3005, 3009, 3023} \cup Modbus!Every(3047, 3061, 2))
                 \/ x \in Modbus!Pairs({3013, 3063, 3065})
      BY <2>8 DEF Modbus!Uses, Modbus!Min, Modbus!Min3, Modbus!Tl3, Modbus!Mic, Modbus!Legacy
    <2> QED BY <2>3, <2>4, <2>5, <2>6, <2>7, <2>8 DEF read
  <1>10. Modbus!PowerUses(p) \subseteq Registers(Items(power))
    <2> DEFINE read == Registers(Items(power))
    <2>1. 3001..3014 \subseteq read /\ 3023..3024 \subseteq read
      <3>1. <<3001, 14>> \in Items(power) /\ <<3023, 2>> \in Items(power)
        BY <1>4
      <3> QED BY <3>1, RegistersOf, AddressesOrdered
    <2> HIDE DEF read
    <2>2. ASSUME NEW a \in {3001, 3005, 3023, 3009, 3013}
          PROVE  a \in read /\ a + 1 \in read
      BY <2>1
    <2>3. Modbus!PowerUses(p) = Modbus!Pairs({3001, 3005, 3023, 3009, 3013})
      BY DEF Modbus!PowerUses, Modbus!Min, Modbus!Min3, Modbus!Tl3, Modbus!Mic, Modbus!Legacy
    <2>4. Modbus!Pairs({3001, 3005, 3023, 3009, 3013}) \subseteq read
      BY <2>2, PairsWithin
    <2> QED BY <2>3, <2>4 DEF read
  <1> QED
    <2>2. IsMap(full) /\ IsMap(opt) /\ IsMap(power)
      BY <1>2, <1>3, <1>4
    <2> HIDE DEF p
    <2>1. MapFits(p)
      BY <1>1, <2>2, <1>7, <1>8, <1>9, <1>10, Fitting, Zenon
    <2> QED BY <2>1 DEF p

LEMMA Tl3Fits == MapFits(Modbus!Tl3)
  <1> DEFINE p == Modbus!Tl3
             full == <<<<3000, 30>>, <<3030, 11>>, <<3047, 32>>>>
             opt == <<<<3086, 23>>>>
             power == <<<<3001, 14>>, <<3023, 2>>>>
  <1>1. Modbus!PROFILES[p] = full /\ Modbus!OPTIONAL_BLOCKS[p] = opt /\ Modbus!POWER_BLOCKS[p] = power
    BY MapsOf
  <1>2. IsMap(full) /\ Items(full) = {<<3000, 30>>, <<3030, 11>>, <<3047, 32>>}
    <2>1. /\ full \in Seq(Nat \X Nat) /\ Len(full) = 3
          /\ full[1] = <<3000, 30>> /\ full[2] = <<3030, 11>> /\ full[3] = <<3047, 32>>
      OBVIOUS
    <2> HIDE DEF full
    <2>2. 1..Len(full) = {1, 2, 3}
      BY <2>1
    <2>3. Items(full) = {full[1], full[2], full[3]}
      BY <2>2 DEF Items
    <2>4. ASSUME NEW k \in {1, 2, 3}, NEW l \in {1, 2, 3}, k < l
          PROVE  full[k][1] + full[k][2] <= full[l][1]
      <3>1. (k = 1 /\ l = 2) \/ (k = 1 /\ l = 3) \/ (k = 2 /\ l = 3)
        BY <2>4
      <3> QED BY <2>1, <3>1
    <2>5. ASSUME NEW k \in {1, 2, 3}
          PROVE  full[k][2] > 0
      BY <2>1
    <2>6. IsMap(full)
      BY <2>1, <2>2, <2>4, <2>5 DEF IsMap
    <2> QED BY <2>1, <2>3, <2>6
  <1>3. IsMap(opt) /\ Items(opt) = {<<3086, 23>>}
    BY MapOfOne
  <1>4. IsMap(power) /\ Items(power) = {<<3001, 14>>, <<3023, 2>>}
    BY MapOfTwo
  <1> HIDE DEF full, opt, power
  <1>7. \A b \in Items(full) : \A o \in Items(opt) : b[1] + b[2] <= o[1]
    BY <1>2, <1>3
  <1>8. \E b \in Items(full) : Counters(p) \subseteq Modbus!Addresses(b)
    <2>1. Counters(p) \subseteq 3047..3078
      <3>1. Modbus!TodayAt(p) = 3049
        BY DEF Modbus!TodayAt, Modbus!Min, Modbus!Min3, Modbus!Tl3, Modbus!Mic, Modbus!Legacy
      <3> QED BY <3>1 DEF Counters, Modbus!TotalAt
    <2>2. <<3047, 32>> \in Items(full)
      BY <1>2
    <2> QED BY <2>1, <2>2, AddressesOrdered
  <1>9. ASSUME NEW S, Items(full) \subseteq S, S \subseteq Items(full) \cup Items(opt)
        PROVE  Modbus!Uses(p, Registers(S)) \subseteq Registers(S)
    <2> DEFINE read == Registers(S)
    <2>1. 3000..3029 \subseteq read /\ 3030..3040 \subseteq read /\ 3047..3078 \subseteq read
      <3>1. <<3000, 30>> \in S /\ <<3030, 11>> \in S /\ <<3047, 32>> \in S
        BY <1>2, <1>9
      <3> QED BY <3>1, RegistersOf, AddressesOrdered
    <2>2. 3086 \in read => 3086..3108 \subseteq read
      <3>1. ASSUME NEW b \in S, 3086 \in Modbus!Addresses(b)
            PROVE  b = <<3086, 23>>
        BY <1>2, <1>3, <1>9, <3>1, AddressesOrdered
      <3>2. SUFFICES ASSUME 3086 \in read PROVE 3086..3108 \subseteq read
        OBVIOUS
      <3>3. <<3086, 23>> \in S
        BY <3>1, <3>2 DEF Registers
      <3> QED BY <3>3, RegistersOf, AddressesOrdered
    <2> HIDE DEF read
    <2>3. {3000, 3003, 3004, 3007, 3008, 3025, 3026, 3027} \subseteq read
      BY <2>1
    <2>4. {3011, 3012} \subseteq read
      BY <2>1
    <2>5. 3086 \in read => {3086, 3093, 3094, 3095, 3105, 3106} \subseteq read
      BY <2>1, <2>2
    <2>6. (3030..3040) \subseteq read
      BY <2>1
    <2>7. Modbus!Pairs({3001, 3005, 3009, 3023} \cup Modbus!Every(3047, 3061, 2)) \subseteq read
      <3> DEFINE T == {3001, 3005, 3009, 3023} \cup Modbus!Every(3047, 3061, 2)
      <3>1. ASSUME NEW a \in T
            PROVE  a \in read /\ a + 1 \in read
        <4>1. a \in {3001, 3005, 3009, 3023} \/ a \in 3047..3061
          BY EveryWithin
        <4> QED BY <2>1, <4>1
      <3> HIDE DEF T
      <3>2. Modbus!Pairs(T) \subseteq read
        BY <3>1, PairsWithin
      <3> QED BY <3>2 DEF T
    <2>8. Modbus!Pairs({3013, 3063, 3065}) \subseteq read
      <3>1. ASSUME NEW a \in {3013, 3063, 3065}
            PROVE  a \in read /\ a + 1 \in read
        BY <2>1
      <3> QED BY <3>1, PairsWithin
    <2>9. Modbus!Pairs({3028}) \subseteq read
      <3>1. ASSUME NEW a \in {3028}
            PROVE  a \in read /\ a + 1 \in read
        BY <2>1
      <3> QED BY <3>1, PairsWithin
    <2>10. ASSUME NEW x \in Modbus!Uses(p, read)
          PROVE  \/ x \in {3000, 3003, 3004, 3007, 3008, 3025, 3026, 3027}
                 \/ x \in {3011, 3012}
                 \/ 3086 \in read /\ x \in {3086, 3093, 3094, 3095, 3105, 3106}
                 \/ x \in (3030..3040)
                 \/ x \in Modbus!Pairs({3001, 3005, 3009, 3023} \cup Modbus!Every(3047, 3061, 2))
                 \/ x \in Modbus!Pairs({3013, 3063, 3065})
                 \/ x \in Modbus!Pairs({3028})
      BY <2>10 DEF Modbus!Uses, Modbus!Min, Modbus!Min3, Modbus!Tl3, Modbus!Mic, Modbus!Legacy
    <2> QED BY <2>3, <2>4, <2>5, <2>6, <2>7, <2>8, <2>9, <2>10 DEF read
  <1>10. Modbus!PowerUses(p) \subseteq Registers(Items(power))
    <2> DEFINE read == Registers(Items(power))
    <2>1. 3001..3014 \subseteq read /\ 3023..3024 \subseteq read
      <3>1. <<3001, 14>> \in Items(power) /\ <<3023, 2>> \in Items(power)
        BY <1>4
      <3> QED BY <3>1, RegistersOf, AddressesOrdered
    <2> HIDE DEF read
    <2>2. ASSUME NEW a \in {3001, 3005, 3023, 3009, 3013}
          PROVE  a \in read /\ a + 1 \in read
      BY <2>1
    <2>3. Modbus!PowerUses(p) = Modbus!Pairs({3001, 3005, 3023, 3009, 3013})
      BY DEF Modbus!PowerUses, Modbus!Min, Modbus!Min3, Modbus!Tl3, Modbus!Mic, Modbus!Legacy
    <2>4. Modbus!Pairs({3001, 3005, 3023, 3009, 3013}) \subseteq read
      BY <2>2, PairsWithin
    <2> QED BY <2>3, <2>4 DEF read
  <1> QED
    <2>2. IsMap(full) /\ IsMap(opt) /\ IsMap(power)
      BY <1>2, <1>3, <1>4
    <2> HIDE DEF p
    <2>1. MapFits(p)
      BY <1>1, <2>2, <1>7, <1>8, <1>9, <1>10, Fitting, Zenon
    <2> QED BY <2>1 DEF p

LEMMA MicFits == MapFits(Modbus!Mic)
  <1> DEFINE p == Modbus!Mic
             full == <<<<0, 32>>, <<32, 26>>>>
             opt == <<>>
             power == <<<<1, 6>>, <<11, 2>>>>
  <1>1. Modbus!PROFILES[p] = full /\ Modbus!OPTIONAL_BLOCKS[p] = opt /\ Modbus!POWER_BLOCKS[p] = power
    BY MapsOf
  <1>2. IsMap(full) /\ Items(full) = {<<0, 32>>, <<32, 26>>}
    BY MapOfTwo
  <1>3. IsMap(opt) /\ Items(opt) = {}
    BY EmptyMap
  <1>4. IsMap(power) /\ Items(power) = {<<1, 6>>, <<11, 2>>}
    BY MapOfTwo
  <1> HIDE DEF full, opt, power
  <1>7. \A b \in Items(full) : \A o \in Items(opt) : b[1] + b[2] <= o[1]
    BY <1>2, <1>3
  <1>8. \E b \in Items(full) : Counters(p) \subseteq Modbus!Addresses(b)
    <2>1. Counters(p) \subseteq 0..31
      <3>1. Modbus!TodayAt(p) = 26
        BY DEF Modbus!TodayAt, Modbus!Min, Modbus!Min3, Modbus!Tl3, Modbus!Mic, Modbus!Legacy
      <3> QED BY <3>1 DEF Counters, Modbus!TotalAt
    <2>2. <<0, 32>> \in Items(full)
      BY <1>2
    <2> QED BY <2>1, <2>2, AddressesOrdered
  <1>9. ASSUME NEW S, Items(full) \subseteq S, S \subseteq Items(full) \cup Items(opt)
        PROVE  Modbus!Uses(p, Registers(S)) \subseteq Registers(S)
    <2> DEFINE read == Registers(S)
    <2>1. 0..31 \subseteq read /\ 32..57 \subseteq read
      <3>1. <<0, 32>> \in S /\ <<32, 26>> \in S
        BY <1>2, <1>9
      <3> QED BY <3>1, RegistersOf, AddressesOrdered
    <2> HIDE DEF read
    <2>3. {0, 3, 4, 13, 14, 15, 32, 40, 41, 47} \subseteq read
      BY <2>1
    <2>4. Modbus!Pairs({1, 5, 11, 26, 28, 30, 48, 50, 56}) \subseteq read
      <3>1. ASSUME NEW a \in {1, 5, 11, 26, 28, 30, 48, 50, 56}
            PROVE  a \in read /\ a + 1 \in read
        BY <2>1
      <3> QED BY <3>1, PairsWithin
    <2>5. ASSUME NEW x \in Modbus!Uses(p, read)
          PROVE  \/ x \in {0, 3, 4, 13, 14, 15, 32, 40, 41, 47}
                 \/ x \in Modbus!Pairs({1, 5, 11, 26, 28, 30, 48, 50, 56})
      BY <2>5 DEF Modbus!Uses, Modbus!Min, Modbus!Min3, Modbus!Tl3, Modbus!Mic, Modbus!Legacy
    <2> QED BY <2>3, <2>4, <2>5 DEF read
  <1>10. Modbus!PowerUses(p) \subseteq Registers(Items(power))
    <2> DEFINE read == Registers(Items(power))
    <2>1. 1..6 \subseteq read /\ 11..12 \subseteq read
      <3>1. <<1, 6>> \in Items(power) /\ <<11, 2>> \in Items(power)
        BY <1>4
      <3> QED BY <3>1, RegistersOf, AddressesOrdered
    <2> HIDE DEF read
    <2>2. ASSUME NEW a \in {1, 5, 11}
          PROVE  a \in read /\ a + 1 \in read
      BY <2>1
    <2>3. Modbus!PowerUses(p) = Modbus!Pairs({1, 5, 11})
      BY DEF Modbus!PowerUses, Modbus!Min, Modbus!Min3, Modbus!Tl3, Modbus!Mic, Modbus!Legacy
    <2>4. Modbus!Pairs({1, 5, 11}) \subseteq read
      BY <2>2, PairsWithin
    <2> QED BY <2>3, <2>4 DEF read
  <1> QED
    <2>2. IsMap(full) /\ IsMap(opt) /\ IsMap(power)
      BY <1>2, <1>3, <1>4
    <2> HIDE DEF p
    <2>1. MapFits(p)
      BY <1>1, <2>2, <1>7, <1>8, <1>9, <1>10, Fitting, Zenon
    <2> QED BY <2>1 DEF p

LEMMA LegacyFits == MapFits(Modbus!Legacy)
  <1> DEFINE p == Modbus!Legacy
             full == <<<<0, 11>>, <<35, 32>>>>
             opt == <<>>
             power == <<<<1, 10>>, <<35, 2>>>>
  <1>1. Modbus!PROFILES[p] = full /\ Modbus!OPTIONAL_BLOCKS[p] = opt /\ Modbus!POWER_BLOCKS[p] = power
    BY MapsOf
  <1>2. IsMap(full) /\ Items(full) = {<<0, 11>>, <<35, 32>>}
    BY MapOfTwo
  <1>3. IsMap(opt) /\ Items(opt) = {}
    BY EmptyMap
  <1>4. IsMap(power) /\ Items(power) = {<<1, 10>>, <<35, 2>>}
    BY MapOfTwo
  <1> HIDE DEF full, opt, power
  <1>7. \A b \in Items(full) : \A o \in Items(opt) : b[1] + b[2] <= o[1]
    BY <1>2, <1>3
  <1>8. \E b \in Items(full) : Counters(p) \subseteq Modbus!Addresses(b)
    <2>1. Counters(p) \subseteq 35..66
      <3>1. Modbus!TodayAt(p) = 53
        BY DEF Modbus!TodayAt, Modbus!Min, Modbus!Min3, Modbus!Tl3, Modbus!Mic, Modbus!Legacy
      <3> QED BY <3>1 DEF Counters, Modbus!TotalAt
    <2>2. <<35, 32>> \in Items(full)
      BY <1>2
    <2> QED BY <2>1, <2>2, AddressesOrdered
  <1>9. ASSUME NEW S, Items(full) \subseteq S, S \subseteq Items(full) \cup Items(opt)
        PROVE  Modbus!Uses(p, Registers(S)) \subseteq Registers(S)
    <2> DEFINE read == Registers(S)
    <2>1. 0..10 \subseteq read /\ 35..66 \subseteq read
      <3>1. <<0, 11>> \in S /\ <<35, 32>> \in S
        BY <1>2, <1>9
      <3> QED BY <3>1, RegistersOf, AddressesOrdered
    <2> HIDE DEF read
    <2>3. {0, 3, 4, 7, 8, 37, 38, 39} \subseteq read
      BY <2>1
    <2>4. Modbus!Pairs({1, 5, 9, 35} \cup Modbus!Every(53, 65, 2)) \subseteq read
      <3> DEFINE T == {1, 5, 9, 35} \cup Modbus!Every(53, 65, 2)
      <3>1. ASSUME NEW a \in T
            PROVE  a \in read /\ a + 1 \in read
        <4>1. a \in {1, 5, 9, 35} \/ a \in 53..65
          BY EveryWithin
        <4> QED BY <2>1, <4>1
      <3> HIDE DEF T
      <3>2. Modbus!Pairs(T) \subseteq read
        BY <3>1, PairsWithin
      <3> QED BY <3>2 DEF T
    <2>5. ASSUME NEW x \in Modbus!Uses(p, read)
          PROVE  \/ x \in {0, 3, 4, 7, 8, 37, 38, 39}
                 \/ x \in Modbus!Pairs({1, 5, 9, 35} \cup Modbus!Every(53, 65, 2))
      BY <2>5 DEF Modbus!Uses, Modbus!Min, Modbus!Min3, Modbus!Tl3, Modbus!Mic, Modbus!Legacy
    <2> QED BY <2>3, <2>4, <2>5 DEF read
  <1>10. Modbus!PowerUses(p) \subseteq Registers(Items(power))
    <2> DEFINE read == Registers(Items(power))
    <2>1. 1..10 \subseteq read /\ 35..36 \subseteq read
      <3>1. <<1, 10>> \in Items(power) /\ <<35, 2>> \in Items(power)
        BY <1>4
      <3> QED BY <3>1, RegistersOf, AddressesOrdered
    <2> HIDE DEF read
    <2>2. ASSUME NEW a \in {1, 5, 35, 9}
          PROVE  a \in read /\ a + 1 \in read
      BY <2>1
    <2>3. Modbus!PowerUses(p) = Modbus!Pairs({1, 5, 35, 9})
      BY DEF Modbus!PowerUses, Modbus!Min, Modbus!Min3, Modbus!Tl3, Modbus!Mic, Modbus!Legacy
    <2>4. Modbus!Pairs({1, 5, 35, 9}) \subseteq read
      BY <2>2, PairsWithin
    <2> QED BY <2>3, <2>4 DEF read
  <1> QED
    <2>2. IsMap(full) /\ IsMap(opt) /\ IsMap(power)
      BY <1>2, <1>3, <1>4
    <2> HIDE DEF p
    <2>1. MapFits(p)
      BY <1>1, <2>2, <1>7, <1>8, <1>9, <1>10, Fitting, Zenon
    <2> QED BY <2>1 DEF p

LEMMA AllFit == \A p \in DOMAIN Modbus!PROFILES : MapFits(p)
  BY MapsOf, MinFits, Min3Fits, Tl3Fits, MicFits, LegacyFits

LEMMA PollStarts ==
  ASSUME cfg.words \in Nat \ {0}, NEW blocks, IsMap(blocks),
         todo' = Modbus!RequestsFor(blocks), words' = <<>>, covered' = {}
  PROVE  Remaining(Items(blocks))'
  <1> DEFINE B == Items(blocks)
             s == Modbus!RequestsFor(blocks)
  <1>2. /\ s \in Seq(Chunk) /\ Spread(s, Behind)
        /\ \A i \in 1..Len(s) : s[i].block \in B /\ Within(s[i])
        /\ \A b \in B : \A a \in Modbus!Addresses(b) :
             \E i \in 1..Len(s) : s[i].block = b /\ a \in s[i].first..(s[i].first + s[i].count - 1)
    BY AskedInTurn
  <1>3. todo' = s /\ DOMAIN words' = {} /\ covered' = {}
    OBVIOUS
  <1> HIDE DEF s
  <1>4. ASSUME NEW b \in B
        PROVE  \E i \in 1..Len(s) : s[i].block = b /\ s[i].first + s[i].count = b[1] + b[2]
    <2>1. b[1] \in Nat /\ b[2] \in Nat /\ b[2] > 0
      BY BlocksOfMap DEF Items
    <2>2. PICK x \in Nat, y \in Nat \ {0} : x = b[1] /\ y = b[2]
      BY <2>1
    <2>3. x + y - 1 \in Modbus!Addresses(b)
      <3>1. Modbus!Addresses(b) = x..(x + y - 1)
        BY <2>2 DEF Modbus!Addresses
      <3> QED BY <3>1
    <2>4. PICK i \in 1..Len(s) :
            s[i].block = b /\ x + y - 1 \in s[i].first..(s[i].first + s[i].count - 1)
      BY <1>2, <2>3
    <2>5. s[i] \in Chunk
      BY <1>2
    <2>6. PICK f \in Nat, c \in Nat : f = s[i].first /\ c = s[i].count
      BY <2>5 DEF Chunk
    <2>7. f + c <= x + y
      BY <1>2, <2>2, <2>4, <2>6 DEF Within
    <2>8. x + y - 1 <= f + c - 1
      BY <2>4, <2>6
    <2>9. f + c = x + y
      BY <2>7, <2>8
    <2> QED BY <2>2, <2>4, <2>6, <2>9
  <1> HIDE DEF B
  <1>5. /\ \A i \in 1..Len(s) : s[i].block \in B \ {} /\ Within(s[i]) /\ \A a \in {} : a < s[i].first
        /\ \A b \in B \ {} : \E i \in 1..Len(s) :
             s[i].block = b /\ s[i].first + s[i].count = b[1] + b[2]
    BY <1>2, <1>4
  <1>6. Remaining(B)'
    BY <1>2, <1>3, <1>5 DEF Remaining, Within
  <1> QED BY <1>6 DEF B

LEMMA CoveredIsRead ==
  ASSUME NEW B, Remaining(B), NEW b \in covered
  PROVE  Modbus!Addresses(b) \cap Counters(profile) \subseteq DOMAIN words
  <1>1. b \in B /\ \A i \in 1..Len(todo) : todo[i].block # b
    BY DEF Remaining
  <1> QED BY <1>1 DEF Remaining

\* An optional block is left out: it lies behind all that are needed.
LEMMA RestIsOptional ==
  ASSUME NEW B, Remaining(B), todo # <<>>, NEW needed, needed \subseteq B, B \subseteq Nat \X Nat,
         \A b \in needed : b[1] + b[2] <= Head(todo).block[1]
  PROVE  Complete(needed, B)
  <1>1. /\ todo \in Seq(Chunk) /\ Spread(todo, Behind) /\ covered \subseteq B
        /\ \A i \in 1..Len(todo) : todo[i].block \in B \ covered /\ Within(todo[i])
        /\ \A b \in B \ covered : \E i \in 1..Len(todo) : todo[i].block = b
    BY DEF Remaining
  <1>2. Head(todo) = todo[1] /\ 1 \in 1..Len(todo) /\ Len(todo) \in Nat
    BY <1>1, FirstOf, Zenon
  <1>3. ASSUME NEW b \in needed, b \notin covered
        PROVE  FALSE
    <2>1. PICK i \in 1..Len(todo) : todo[i].block = b
      BY <1>1, <1>3
    <2>2. b[1] \in Nat /\ b[2] \in Nat /\ todo[1].block[1] \in Nat
      <3>1. b \in Nat \X Nat /\ todo[1].block \in Nat \X Nat
        BY <1>1, <1>2
      <3> QED BY <3>1
    <2>3. todo[i] \in Chunk /\ todo[1] \in Chunk
      BY <1>1, <1>2
    <2>4. PICK x \in Nat, y \in Nat, z \in Nat : x = b[1] /\ y = b[2] /\ z = todo[1].block[1]
      BY <2>2
    <2>5. PICK f \in Nat, c \in Nat, g \in Nat, d \in Nat :
            f = todo[1].first /\ c = todo[1].count /\ g = todo[i].first /\ d = todo[i].count
      BY <2>3 DEF Chunk
    <2>6. x + y <= z /\ z <= f /\ d > 0 /\ g + d <= x + y
      BY <1>1, <1>2, <1>3, <2>1, <2>4, <2>5 DEF Within
    <2>7. f <= g
      <3>1. CASE i = 1
        BY <2>5, <3>1
      <3>2. CASE i # 1
        <4>1. 1 < i
          BY <3>2
        <4>2. <<todo[1], todo[i]>> \in Behind
          BY <1>1, <1>2, <4>1 DEF Spread
        <4>3. f + c <= g
          BY <2>5, <4>2 DEF Behind
        <4> QED BY <2>5, <4>3
      <3> QED BY <3>1, <3>2
    <2> QED BY <2>6, <2>7
  <1> QED BY <1>1, <1>3, CoveredIsRead DEF Complete

\* Where the counters are.
LEMMA CountersOf ==
  ASSUME NEW p \in DOMAIN Modbus!PROFILES
  PROVE  /\ Modbus!TodayAt(p) \in Nat /\ Modbus!TotalAt(p) = Modbus!TodayAt(p) + 2
         /\ Counters(p) = Modbus!Pair(Modbus!TodayAt(p)) \cup Modbus!Pair(Modbus!TotalAt(p))
  <1>1. Modbus!TodayAt(p) \in Nat
    BY DEF Modbus!TodayAt
  <1> QED BY <1>1 DEF Modbus!TotalAt, Counters, Modbus!Pair

\* What the registers of a counter hold.
LEMMA RegistersHold ==
  ASSUME profile \in DOMAIN Modbus!PROFILES, today \in Nat, total \in Nat, WordBase \in Nat \ {0}
  PROVE  /\ \A a \in Counters(profile) : Modbus!Register(a) \in Nat
         /\ Modbus!Register(Modbus!TodayAt(profile)) = today \div WordBase
         /\ Modbus!Register(Modbus!TodayAt(profile) + 1) = today % WordBase
         /\ Modbus!Register(Modbus!TotalAt(profile)) = total \div WordBase
         /\ Modbus!Register(Modbus!TotalAt(profile) + 1) = total % WordBase
         /\ today = Modbus!Register(Modbus!TodayAt(profile)) * WordBase
                    + Modbus!Register(Modbus!TodayAt(profile) + 1)
         /\ total = Modbus!Register(Modbus!TotalAt(profile)) * WordBase
                    + Modbus!Register(Modbus!TotalAt(profile) + 1)
  <1>1. PICK t \in Nat : t = Modbus!TodayAt(profile) /\ Modbus!TotalAt(profile) = t + 2
    BY CountersOf
  <1>0. ASSUME NEW x \in Nat
        PROVE  \E q \in Nat, r \in Nat : q = x \div WordBase /\ r = x % WordBase /\ x = WordBase * q + r
    <2>1. PICK q : q = x \div WordBase
      OBVIOUS
    <2>2. PICK r : r = x % WordBase
      OBVIOUS
    <2>3. r \in 0..(WordBase - 1) /\ q \in Nat /\ x = WordBase * q + r
      BY <2>1, <2>2, Division
    <2>4. r \in Nat
      BY <2>3
    <2> QED BY <2>1, <2>2, <2>3, <2>4
  <1>2. PICK h \in Nat, l \in Nat : h = today \div WordBase /\ l = today % WordBase /\ today = WordBase * h + l
    BY <1>0
  <1>3. PICK H \in Nat, L \in Nat : H = total \div WordBase /\ L = total % WordBase /\ total = WordBase * H + L
    BY <1>0
  <1>4. Modbus!HighLow(today) = <<h, l>> /\ Modbus!HighLow(total) = <<H, L>>
    BY <1>2, <1>3 DEF Modbus!HighLow
  <1>5. ASSUME NEW a
        PROVE  Modbus!Register(a) = CASE a \in {t, t + 1} -> <<h, l>>[a - t + 1]
                                      [] a \in {t + 2, t + 3} -> <<H, L>>[a - (t + 2) + 1]
    <2>1. t + 2 + 1 = t + 3
      BY <1>1
    <2> QED BY <1>1, <1>4, <2>1 DEF Modbus!Register, Modbus!Pair
  <1>6. /\ Modbus!Register(t) = h /\ Modbus!Register(t + 1) = l
        /\ Modbus!Register(t + 2) = H /\ Modbus!Register(t + 3) = L
    BY <1>5
  <1>7. Counters(profile) = {t, t + 1, t + 2, t + 3}
    BY <1>1 DEF Counters
  <1>8. WordBase * h = h * WordBase /\ WordBase * H = H * WordBase
    BY Z3
  <1>9. today = h * WordBase + l /\ total = H * WordBase + L
    BY <1>2, <1>3, <1>8
  <1>10. t + 2 + 1 = t + 3
    OBVIOUS
  <1>11. \A a \in Counters(profile) : Modbus!Register(a) \in Nat
    BY <1>6, <1>7
  <1>12. /\ Modbus!Register(Modbus!TodayAt(profile)) = h /\ Modbus!Register(Modbus!TodayAt(profile) + 1) = l
         /\ Modbus!Register(Modbus!TotalAt(profile)) = H /\ Modbus!Register(Modbus!TotalAt(profile) + 1) = L
    BY <1>1, <1>6, <1>10
  <1>14. /\ Modbus!Register(Modbus!TodayAt(profile)) = today \div WordBase
         /\ Modbus!Register(Modbus!TodayAt(profile) + 1) = today % WordBase
         /\ Modbus!Register(Modbus!TotalAt(profile)) = total \div WordBase
         /\ Modbus!Register(Modbus!TotalAt(profile) + 1) = total % WordBase
    BY <1>2, <1>3, <1>12
  <1>13. /\ today = Modbus!Register(Modbus!TodayAt(profile)) * WordBase
                    + Modbus!Register(Modbus!TodayAt(profile) + 1)
         /\ total = Modbus!Register(Modbus!TotalAt(profile)) * WordBase
                    + Modbus!Register(Modbus!TotalAt(profile) + 1)
    BY <1>9, <1>12, Zenon
  <1> QED BY <1>11, <1>13, <1>14, Zenon

LEMMA RequestMoves ==
  ASSUME NEW B, Remaining(B), Modbus!Request, profile \in DOMAIN Modbus!PROFILES
  PROVE  Remaining(B)'
  <1>1. /\ todo \in Seq(Chunk) /\ Spread(todo, Behind) /\ covered \subseteq B
        /\ \A i \in 1..Len(todo) : todo[i].block \in B \ covered /\ Within(todo[i])
        /\ \A i \in 1..Len(todo) : \A a \in DOMAIN words : a < todo[i].first
        /\ \A b \in B \ covered : \E i \in 1..Len(todo) :
             todo[i].block = b /\ todo[i].first + todo[i].count = b[1] + b[2]
        /\ \A b \in B : \A a \in Modbus!Addresses(b) \cap Counters(profile) :
             \/ a \in DOMAIN words
             \/ \E i \in 1..Len(todo) :
                  todo[i].block = b /\ a \in todo[i].first..(todo[i].first + todo[i].count - 1)
    BY DEF Remaining
  <1> DEFINE r == todo[1]
             new == (r.first..(r.first + r.count - 1)) \cap Counters(profile)
             rest == Tail(todo)
  <1>2. todo # <<>> /\ profile' = profile
    BY DEF Modbus!Request
  <1>3. /\ Head(todo) = r /\ 1 \in 1..Len(todo) /\ Len(todo) \in Nat
        /\ rest \in Seq(Chunk)
        /\ \A i \in 1..Len(rest) : i + 1 \in 1..Len(todo) /\ i + 1 # 1 /\ rest[i] = todo[i + 1]
        /\ \A i \in 1..Len(todo) : i # 1 => i - 1 \in 1..Len(rest) /\ rest[i - 1] = todo[i]
    BY <1>1, <1>2, FirstOf, Zenon
  <1>4. /\ todo' = rest
        /\ DOMAIN words' = DOMAIN words \cup new
        /\ covered' = IF r.first + r.count = r.block[1] + r.block[2] THEN covered \cup {r.block} ELSE covered
    <2>1. Counters(profile) = Modbus!Pair(Modbus!TodayAt(profile)) \cup Modbus!Pair(Modbus!TotalAt(profile))
      BY CountersOf
    <2> QED BY <1>3, <2>1, Zenon DEF Modbus!Request
  <1>5. r \in Chunk /\ r.block \in B
    BY <1>1, <1>3
  <1>6. PICK f \in Nat, c \in Nat : f = r.first /\ c = r.count
    BY <1>5 DEF Chunk
  <1>7. PICK x \in Nat, y \in Nat : x = r.block[1] /\ y = r.block[2]
    BY <1>5 DEF Chunk
  <1> HIDE DEF r, rest
  <1>8. ASSUME NEW i \in 1..Len(rest)
        PROVE  \E g \in Nat, d \in Nat : g = rest[i].first /\ d = rest[i].count /\ f + c <= g /\ d > 0
    <2>1. <<r, rest[i]>> \in Behind /\ Within(rest[i])
      <3>1. i + 1 \in 1..Len(todo) /\ 1 < i + 1 /\ rest[i] = todo[i + 1]
        BY <1>3
      <3> QED BY <1>1, <1>3, <3>1 DEF Spread, r
    <2>2. r.first + r.count <= rest[i].first /\ rest[i] \in Chunk
      BY <2>1 DEF Behind
    <2>3. PICK g \in Nat, d \in Nat : g = rest[i].first /\ d = rest[i].count
      BY <2>2 DEF Chunk
    <2> QED BY <1>6, <2>1, <2>2, <2>3 DEF Within
  <1>9. Spread(rest, Behind)
    <2>1. ASSUME NEW i \in 1..Len(rest), NEW j \in 1..Len(rest), i < j
          PROVE  <<rest[i], rest[j]>> \in Behind
      <3>1. /\ i + 1 \in 1..Len(todo) /\ j + 1 \in 1..Len(todo) /\ i + 1 < j + 1
            /\ rest[i] = todo[i + 1] /\ rest[j] = todo[j + 1]
        BY <1>3, <2>1
      <3> QED BY <1>1, <3>1 DEF Spread
    <2> QED BY <2>1 DEF Spread
  <1>10. ASSUME NEW i \in 1..Len(rest)
         PROVE  rest[i].block \in B \ covered' /\ Within(rest[i])
                /\ \A a \in DOMAIN words' : a < rest[i].first
    <2>1. PICK g \in Nat, d \in Nat : g = rest[i].first /\ d = rest[i].count /\ f + c <= g /\ d > 0
      BY <1>8
    <2>2. PICK n \in 1..Len(todo) : rest[i] = todo[n]
      BY <1>3
    <2>3. rest[i].block \in B \ covered /\ Within(rest[i]) /\ \A a \in DOMAIN words : a < rest[i].first
      BY <1>1, <2>2
    <2>4. ASSUME rest[i].block = r.block, f + c = x + y
          PROVE  FALSE
      <3>1. g + d <= x + y
        BY <1>7, <2>1, <2>3, <2>4 DEF Within
      <3> QED BY <2>1, <2>4, <3>1
    <2>5. rest[i].block \notin covered'
      BY <1>4, <1>6, <1>7, <2>3, <2>4
    <2>6. ASSUME NEW a \in new
          PROVE  a < rest[i].first
      <3>1. a \in f..(f + c - 1)
        BY <1>6, <2>6
      <3> QED BY <2>1, <3>1
    <2> QED BY <1>4, <2>3, <2>5, <2>6
  <1>11. ASSUME NEW b \in B, b \notin covered'
         PROVE  \E i \in 1..Len(rest) : rest[i].block = b /\ rest[i].first + rest[i].count = b[1] + b[2]
    <2>1. b \notin covered
      BY <1>4, <1>11
    <2>2. PICK i \in 1..Len(todo) : todo[i].block = b /\ todo[i].first + todo[i].count = b[1] + b[2]
      BY <1>1, <2>1
    <2>3. i # 1
      BY <1>4, <1>11, <2>2 DEF r
    <2> QED BY <1>3, <2>2, <2>3
  <1>12. ASSUME NEW b \in B, NEW a \in Modbus!Addresses(b) \cap Counters(profile), a \notin DOMAIN words'
         PROVE  \E i \in 1..Len(rest) :
                  rest[i].block = b /\ a \in rest[i].first..(rest[i].first + rest[i].count - 1)
    <2>1. a \notin DOMAIN words /\ a \notin new
      BY <1>4, <1>12
    <2>2. PICK i \in 1..Len(todo) :
            todo[i].block = b /\ a \in todo[i].first..(todo[i].first + todo[i].count - 1)
      BY <1>1, <2>1
    <2>3. i # 1
      BY <1>12, <2>1, <2>2 DEF r
    <2> QED BY <1>3, <2>2, <2>3
  <1>13. covered' \subseteq B
    BY <1>1, <1>4, <1>5
  <1> HIDE DEF new
  <1> QED BY <1>2, <1>3, <1>4, <1>9, <1>10, <1>11, <1>12, <1>13 DEF Remaining, Within

\* A division does not grow less with what is divided.
LEMMA Growing ==
  ASSUME NEW N \in Nat \ {0}, NEW m \in Nat, NEW n \in Nat, m <= n
  PROVE  m \div N <= n \div N
  <1>1. PICK p \in Nat, r \in 0..(N - 1) : p = m \div N /\ m = N * p + r
    <2>1. PICK p : p = m \div N
      OBVIOUS
    <2>2. PICK r : r = m % N
      OBVIOUS
    <2> QED BY <2>1, <2>2, Division
  <1>2. PICK q \in Nat, s \in 0..(N - 1) : q = n \div N /\ n = N * q + s
    <2>1. PICK q : q = n \div N
      OBVIOUS
    <2>2. PICK s : s = n % N
      OBVIOUS
    <2> QED BY <2>1, <2>2, Division
  <1>3. PICK A \in Nat, B \in Nat : A = N * p /\ B = N * q
    BY Z3
  <1>4. ASSUME q < p
        PROVE  FALSE
    <2>1. A - B >= N
      BY <1>3, <1>4, Turns
    <2> QED BY <1>1, <1>2, <1>3, <2>1
  <1> QED BY <1>1, <1>2, <1>4

LEMMA WordsGrow ==
  ASSUME WordsFit, UNCHANGED <<words, profile>>, still' => still /\ UNCHANGED <<today, total>>,
         total \in Nat, total' \in Nat, total <= total', WordBase \in Nat \ {0}
  PROVE  WordsFit'
  <1>1. total \div WordBase <= total' \div WordBase
    BY Growing
  <1>2. total \div WordBase \in Nat /\ total' \div WordBase \in Nat
    BY Division
  <1>3. still' => \A a \in DOMAIN words : words[a] = (Modbus!Register(a))'
    <2>1. SUFFICES ASSUME still'
                   PROVE  \A a \in DOMAIN words : words[a] = (Modbus!Register(a))'
      OBVIOUS
    <2>2. still /\ UNCHANGED <<today, total, profile>>
      BY <2>1
    <2>3. \A a : (Modbus!Register(a))' = Modbus!Register(a)
      BY <2>2 DEF Modbus!Register, Modbus!TodayAt, Modbus!TotalAt, Modbus!HighLow
    <2>4. \A a \in DOMAIN words : words[a] = Modbus!Register(a)
      BY <2>2 DEF WordsFit
    <2> QED BY <2>3, <2>4, Zenon
  <1>4. Modbus!TotalAt(profile) \in DOMAIN words =>
          words[Modbus!TotalAt(profile)] <= total' \div WordBase
    <2>1. SUFFICES ASSUME Modbus!TotalAt(profile) \in DOMAIN words
                   PROVE  words[Modbus!TotalAt(profile)] <= total' \div WordBase
      OBVIOUS
    <2>2. words[Modbus!TotalAt(profile)] \in Nat /\ words[Modbus!TotalAt(profile)] <= total \div WordBase
      BY <2>1 DEF WordsFit
    <2> QED BY <1>1, <1>2, <2>2
  <1>5. {Modbus!TotalAt(profile), Modbus!TotalAt(profile) + 1} \subseteq DOMAIN words =>
          Modbus!Value(Modbus!TotalAt(profile)) <= total'
    <2>1. SUFFICES ASSUME {Modbus!TotalAt(profile), Modbus!TotalAt(profile) + 1} \subseteq DOMAIN words
                   PROVE  Modbus!Value(Modbus!TotalAt(profile)) <= total'
      OBVIOUS
    <2>2. PICK v : v = Modbus!Value(Modbus!TotalAt(profile))
      OBVIOUS
    <2>3. v \in Nat
      <3>1. PICK h \in Nat, l \in Nat :
              h = words[Modbus!TotalAt(profile)] /\ l = words[Modbus!TotalAt(profile) + 1]
        BY <2>1 DEF WordsFit
      <3>2. h * WordBase \in Nat
        BY Z3
      <3> QED BY <2>2, <3>1, <3>2 DEF Modbus!Value
    <2>4. v <= total
      BY <2>1, <2>2 DEF WordsFit
    <2> QED BY <2>2, <2>3, <2>4
  <1>6. (Modbus!Value(Modbus!TotalAt(profile)))' = Modbus!Value(Modbus!TotalAt(profile))
    BY DEF Modbus!Value, Modbus!TotalAt, Modbus!TodayAt
  <1>7. (Modbus!TotalAt(profile))' = Modbus!TotalAt(profile) /\ Counters(profile)' = Counters(profile)
    BY DEF Modbus!TotalAt, Modbus!TodayAt, Counters
  <1> QED BY <1>3, <1>4, <1>5, <1>6, <1>7 DEF WordsFit

LEMMA RequestFits ==
  ASSUME NEW B, Remaining(B), Modbus!Request, WordsFit, profile \in DOMAIN Modbus!PROFILES,
         today \in Nat, total \in Nat, WordBase \in Nat \ {0}
  PROVE  WordsFit'
  <1>1. todo \in Seq(Chunk) /\ \A i \in 1..Len(todo) : \A a \in DOMAIN words : a < todo[i].first
    BY DEF Remaining
  <1>2. todo # <<>> /\ UNCHANGED <<profile, still, today, total>>
    BY DEF Modbus!Request, Modbus!inverter
  <1>3. Head(todo) = todo[1] /\ 1 \in 1..Len(todo) /\ Head(todo) \in Chunk
    BY <1>1, <1>2, FirstOf, Zenon
  <1>4. PICK f \in Nat, c \in Nat : f = Head(todo).first /\ c = Head(todo).count
    BY <1>3 DEF Chunk
  <1>5. PICK t \in Nat : t = Modbus!TodayAt(profile)
    BY CountersOf
  <1> DEFINE T == t + 2
             new == (f..(f + c - 1)) \cap Counters(profile)
  <1>6. Modbus!TotalAt(profile) = T /\ Counters(profile) = {t, t + 1, T, T + 1}
    BY <1>5, CountersOf DEF Counters
  <1>7. words' = [a \in DOMAIN words \cup new |-> IF a \in new THEN Modbus!Register(a) ELSE words[a]]
    <2>1. Counters(profile) = Modbus!Pair(Modbus!TodayAt(profile)) \cup Modbus!Pair(Modbus!TotalAt(profile))
      BY CountersOf
    <2> QED BY <1>4, <2>1, Zenon DEF Modbus!Request
  <1>8. ASSUME NEW a \in new, NEW b \in DOMAIN words
        PROVE  b < a
    <2>1. b < f /\ f <= a /\ a \in Int
      BY <1>1, <1>3, <1>4
    <2>2. b \in Int
      BY <1>6 DEF WordsFit
    <2> QED BY <2>1, <2>2
  <1>9. /\ DOMAIN words' = DOMAIN words \cup new
        /\ \A a \in new : words'[a] = Modbus!Register(a)
        /\ \A a \in DOMAIN words : a \notin new /\ words'[a] = words[a]
    <2>1. \A a \in DOMAIN words : a \notin new
      <3>1. ASSUME NEW a \in DOMAIN words, a \in new
            PROVE  FALSE
        <4>1. a < a /\ a \in Int
          BY <1>6, <1>8, <3>1
        <4> QED BY <4>1
      <3> QED BY <3>1
    <2> QED BY <1>7, <2>1
  <1>10. /\ \A a \in Counters(profile) : Modbus!Register(a) \in Nat
         /\ Modbus!Register(T) = total \div WordBase
         /\ Modbus!Register(T + 1) = total % WordBase
         /\ total = Modbus!Register(T) * WordBase + Modbus!Register(T + 1)
    BY <1>6, RegistersHold
  <1>11. /\ words \in [DOMAIN words -> Nat] /\ DOMAIN words \subseteq Counters(profile)
         /\ still => \A a \in DOMAIN words : words[a] = Modbus!Register(a)
         /\ T \in DOMAIN words => words[T] <= total \div WordBase
         /\ {T, T + 1} \subseteq DOMAIN words => words[T] * WordBase + words[T + 1] <= total
    BY <1>6 DEF WordsFit, Modbus!Value
  <1>12. \A a : (Modbus!Register(a))' = Modbus!Register(a)
    BY <1>2 DEF Modbus!Register, Modbus!TodayAt, Modbus!TotalAt, Modbus!HighLow
  <1>13. PICK H \in Nat, L \in Nat : H = total \div WordBase /\ L = total % WordBase /\ total = H * WordBase + L
    <2>1. T \in Counters(profile) /\ T + 1 \in Counters(profile)
      BY <1>6
    <2> QED BY <1>10, <2>1
  <1> HIDE DEF T
  <1>14. DOMAIN words' \subseteq Counters(profile) /\ words' \in [DOMAIN words' -> Nat]
    BY <1>7, <1>9, <1>10, <1>11
  <1> HIDE DEF new
  <1>15. still' => \A a \in DOMAIN words' : words'[a] = (Modbus!Register(a))'
    BY <1>2, <1>9, <1>11, <1>12
  <1>16. ASSUME T \in DOMAIN words'
         PROVE  words'[T] <= H
    BY <1>9, <1>10, <1>11, <1>13, <1>16
  <1>17. ASSUME T \in DOMAIN words', T + 1 \in DOMAIN words'
         PROVE  words'[T] * WordBase + words'[T + 1] <= total
    <2>1. CASE T \in DOMAIN words /\ T + 1 \in DOMAIN words
      BY <1>9, <1>11, <2>1
    <2>2. CASE T + 1 \in new
      <3>1. PICK h \in Nat : h = words'[T]
        BY <1>14, <1>17
      <3>2. h <= H /\ words'[T + 1] = L
        BY <1>9, <1>10, <1>13, <1>16, <1>17, <2>2, <3>1
      <3>3. PICK A \in Nat, C \in Nat : A = h * WordBase /\ C = H * WordBase
        BY Z3
      <3>4. A <= C
        BY <3>2, <3>3, Z3
      <3>5. total = C + L
        BY <1>13, <3>3
      <3>6. words'[T] * WordBase + words'[T + 1] = A + L
        BY <3>1, <3>2, <3>3
      <3> QED BY <1>13, <3>3, <3>4, <3>5, <3>6
    <2>3. CASE T \in new /\ T + 1 \in DOMAIN words
      <3>1. T + 1 < T /\ T \in Nat
        BY <1>8, <2>3 DEF T
      <3> QED BY <3>1
    <2> QED BY <1>9, <1>17, <2>1, <2>2, <2>3
  <1>18. (Modbus!TotalAt(profile))' = T /\ Counters(profile)' = Counters(profile)
    BY <1>2, <1>6 DEF Modbus!TotalAt, Modbus!TodayAt, Counters
  <1>19. (total \div WordBase)' = H
    BY <1>2, <1>13
  <1>20. T \in DOMAIN words' => words'[T] <= (total \div WordBase)'
    BY <1>16, <1>19
  <1>21. {T, T + 1} \subseteq DOMAIN words' => words'[T] * WordBase + words'[T + 1] <= total'
    BY <1>2, <1>17
  <1> QED BY <1>14, <1>15, <1>18, <1>20, <1>21 DEF WordsFit, Modbus!Value

\* Every map is of places and sizes.
LEMMA BlocksArePlaces ==
  ASSUME NEW s, IsMap(s)
  PROVE  Items(s) \subseteq Nat \X Nat
  BY DEF IsMap, Items

LEMMA FitOf ==
  ASSUME NEW p \in DOMAIN Modbus!PROFILES
  PROVE  /\ IsMap(Modbus!PROFILES[p] \o Modbus!OPTIONAL_BLOCKS[p]) /\ IsMap(Modbus!POWER_BLOCKS[p])
         /\ Items(Modbus!PROFILES[p]) \subseteq Blocks(p) /\ Blocks(p) \subseteq Nat \X Nat
         /\ \A b \in Items(Modbus!PROFILES[p]) : \A k \in DOMAIN Modbus!OPTIONAL_BLOCKS[p] :
              b[1] + b[2] <= Modbus!OPTIONAL_BLOCKS[p][k][1]
         /\ \E b \in Items(Modbus!PROFILES[p]) : Counters(p) \subseteq Modbus!Addresses(b)
         /\ \A S : Items(Modbus!PROFILES[p]) \subseteq S /\ S \subseteq Blocks(p) =>
              Modbus!Uses(p, Registers(S)) \subseteq Registers(S)
         /\ Modbus!PowerUses(p) \subseteq Registers(Items(Modbus!POWER_BLOCKS[p]))
  <1>1. MapFits(p)
    BY AllFit
  <1>2. Blocks(p) \subseteq Nat \X Nat
    BY <1>1, BlocksArePlaces, Zenon DEF MapFits, Blocks
  <1>3. \A k \in DOMAIN Modbus!OPTIONAL_BLOCKS[p] :
          Modbus!OPTIONAL_BLOCKS[p][k] \in Items(Modbus!OPTIONAL_BLOCKS[p])
    <2>1. Modbus!OPTIONAL_BLOCKS[p] = <<>> \/ Modbus!OPTIONAL_BLOCKS[p] = <<<<3086, 23>>>>
      BY MapsOf
    <2>2. DOMAIN Modbus!OPTIONAL_BLOCKS[p] = 1..Len(Modbus!OPTIONAL_BLOCKS[p])
      BY <2>1
    <2> QED BY <2>2 DEF Items
  <1> QED BY <1>1, <1>2, <1>3, Zenon DEF MapFits

\* A poll that read all that is needed, and the counters with it.
LEMMA CountersRead ==
  ASSUME NEW p \in DOMAIN Modbus!PROFILES, profile = p,
         Complete(Items(Modbus!PROFILES[p]), Blocks(p)), WordsFit
  PROVE  DOMAIN words = Counters(p)
  <1>1. PICK b \in Items(Modbus!PROFILES[p]) : Counters(p) \subseteq Modbus!Addresses(b)
    BY FitOf
  <1>2. Modbus!Addresses(b) \cap Counters(p) \subseteq DOMAIN words
    BY <1>1 DEF Complete
  <1> QED BY <1>1, <1>2 DEF WordsFit

LEMMA EnergyOf ==
  ASSUME profile \in DOMAIN Modbus!PROFILES, WordsFit, DOMAIN words = Counters(profile),
         today \in Nat, total \in Nat, WordBase \in Nat \ {0}
  PROVE  /\ Modbus!Energy.total \in Nat /\ Modbus!Energy.total <= total
         /\ still => Modbus!Energy.today = today /\ Modbus!Energy.total = total
  <1>1. PICK t, T : t = Modbus!TodayAt(profile) /\ T = Modbus!TotalAt(profile)
    OBVIOUS
  <1>2. {t, t + 1, T, T + 1} = DOMAIN words
    BY <1>1 DEF Counters
  <1>3. PICK h \in Nat, l \in Nat : h = words[T] /\ l = words[T + 1]
    BY <1>2 DEF WordsFit
  <1>4. h * WordBase \in Nat
    BY Z3
  <1>5. Modbus!Energy.total = words[T] * WordBase + words[T + 1]
        /\ Modbus!Energy.today = words[t] * WordBase + words[t + 1]
    BY <1>1 DEF Modbus!Energy, Modbus!Value
  <1>6. Modbus!Energy.total \in Nat
    BY <1>3, <1>4, <1>5
  <1>7. Modbus!Energy.total <= total
    BY <1>1, <1>2, <1>5 DEF WordsFit, Modbus!Value
  <1>8. ASSUME still
        PROVE  Modbus!Energy.today = today /\ Modbus!Energy.total = total
    <2>1. \A a \in DOMAIN words : words[a] = Modbus!Register(a)
      BY <1>8 DEF WordsFit
    <2>2. /\ words[t] = Modbus!Register(t) /\ words[t + 1] = Modbus!Register(t + 1)
          /\ words[T] = Modbus!Register(T) /\ words[T + 1] = Modbus!Register(T + 1)
      BY <1>2, <2>1
    <2>3. /\ today = Modbus!Register(t) * WordBase + Modbus!Register(t + 1)
          /\ total = Modbus!Register(T) * WordBase + Modbus!Register(T + 1)
      BY <1>1, RegistersHold, Zenon
    <2> QED BY <1>5, <2>2, <2>3, Zenon
  <1> QED BY <1>6, <1>7, <1>8

\* The invariant holds of the first state and of every later one.
LEMMA ModbusBegins ==
  ASSUME Modbus!Init
  PROVE  ModbusInvariant
  <1> USE DEF Modbus!Init
  <1>1. cfg.profile \in DOMAIN Modbus!PROFILES \cup {Modbus!Auto} /\ cfg.words \in 4..32
    BY DEF Modbus!Valid
  <1> QED BY <1>1 DEF ModbusInvariant, Counted

\* What a step that leaves the poll alone keeps.
LEMMA PollKept ==
  ASSUME UNCHANGED <<todo, words, covered, profile>>
  PROVE  /\ \A B : Remaining(B)' = Remaining(B)
         /\ \A needed, B : Complete(needed, B)' = Complete(needed, B)
  <1>1. UNCHANGED <<todo, words, covered, profile>>
    OBVIOUS
  <1>2. \A p : Counters(p)' = Counters(p)
    BY DEF Counters, Modbus!TodayAt, Modbus!TotalAt
  <1>3. \A b : Modbus!Addresses(b)' = Modbus!Addresses(b)
    BY DEF Modbus!Addresses
  <1>4. ASSUME NEW B
        PROVE  Remaining(B)' = Remaining(B)
    BY <1>1, <1>2, <1>3 DEF Remaining, Within
  <1>5. ASSUME NEW needed, NEW B
        PROVE  Complete(needed, B)' = Complete(needed, B)
    BY <1>1, <1>2, <1>3 DEF Complete
  <1> QED BY <1>4, <1>5

\* A poll that begins.
LEMMA NothingRead ==
  ASSUME words' = <<>>
  PROVE  WordsFit'
  <1>1. words' = <<>> /\ DOMAIN words' = {}
    OBVIOUS
  <1>2. words' \in [DOMAIN words' -> Nat] /\ DOMAIN words' \subseteq Counters(profile)'
        /\ \A a \in DOMAIN words' : words'[a] = (Modbus!Register(a))'
    BY <1>1
  <1>3. (Modbus!TotalAt(profile))' \notin DOMAIN words'
    BY <1>1
  <1> QED BY <1>2, <1>3 DEF WordsFit

\* The part of the invariant about the poll under way.
Polling ==
  /\ pc \in {"full", "fast", "decode", "fastDecode"} => profile \in DOMAIN Modbus!PROFILES /\ WordsFit
  /\ pc = "full" => Remaining(Blocks(profile))
  /\ pc = "decode" => Complete(Items(Modbus!PROFILES[profile]), Blocks(profile))
  /\ pc = "fast" => Remaining(Items(Modbus!POWER_BLOCKS[profile]))
  /\ pc = "fastDecode" =>
       Complete(Items(Modbus!POWER_BLOCKS[profile]), Items(Modbus!POWER_BLOCKS[profile]))

\* Of the counters it needs only that they never fall.
LEMMA PollGoesOn ==
  ASSUME Polling, UNCHANGED <<pc, todo, words, covered, profile>>,
         still' => still /\ UNCHANGED <<today, total>>,
         total \in Nat, total' \in Nat, total <= total', WordBase \in Nat \ {0}
  PROVE  Polling'
  <1>1. UNCHANGED <<pc, profile>>
    OBVIOUS
  <1>2. WordsFit => WordsFit'
    BY WordsGrow
  <1>3. /\ \A B : Remaining(B)' = Remaining(B)
        /\ \A needed, B : Complete(needed, B)' = Complete(needed, B)
    BY PollKept
  <1> HIDE DEF Remaining, Complete, WordsFit
  <1>4. ASSUME NEW p
        PROVE  UNCHANGED <<Blocks(p), Items(Modbus!PROFILES[p]), Items(Modbus!POWER_BLOCKS[p])>>
    BY DEF Blocks, Items, Modbus!PROFILES, Modbus!OPTIONAL_BLOCKS, Modbus!POWER_BLOCKS
  <1>5. CASE pc = "full"
    BY <1>1, <1>2, <1>3, <1>5 DEF Polling
  <1>6. CASE pc = "decode"
    BY <1>1, <1>2, <1>3, <1>6 DEF Polling
  <1>7. CASE pc = "fast"
    BY <1>1, <1>2, <1>3, <1>7 DEF Polling
  <1>8. CASE pc = "fastDecode"
    BY <1>1, <1>2, <1>3, <1>8 DEF Polling
  <1>9. CASE pc \notin {"full", "fast", "decode", "fastDecode"}
    BY <1>1, <1>9 DEF Polling
  <1> QED BY <1>5, <1>6, <1>7, <1>8, <1>9

LEMMA PollIsOver ==
  ASSUME pc' \notin {"full", "fast", "decode", "fastDecode"}
  PROVE  Polling'
  BY DEF Polling

LEMMA FullPollBegins ==
  ASSUME cfg.words \in 4..32, NEW p \in DOMAIN Modbus!PROFILES,
         Modbus!Poll("full", p, Modbus!RequestsFor(Modbus!PROFILES[p] \o Modbus!OPTIONAL_BLOCKS[p]))
  PROVE  Polling'
  <1>1. /\ pc' = "full" /\ profile' = p /\ words' = <<>> /\ covered' = {}
        /\ todo' = Modbus!RequestsFor(Modbus!PROFILES[p] \o Modbus!OPTIONAL_BLOCKS[p])
    BY DEF Modbus!Poll
  <1>2. cfg.words \in Nat \ {0}
    OBVIOUS
  <1>3. Remaining(Items(Modbus!PROFILES[p] \o Modbus!OPTIONAL_BLOCKS[p]))'
    BY <1>1, <1>2, FitOf, PollStarts
  <1>4. Remaining(Blocks(p))'
    BY <1>3 DEF Blocks
  <1>5. WordsFit'
    BY <1>1, NothingRead
  <1> QED BY <1>1, <1>4, <1>5 DEF Polling

LEMMA FastPollBegins ==
  ASSUME cfg.words \in 4..32, NEW p \in DOMAIN Modbus!PROFILES,
         Modbus!Poll("fast", p, Modbus!RequestsFor(Modbus!POWER_BLOCKS[p]))
  PROVE  Polling'
  <1>1. /\ pc' = "fast" /\ profile' = p /\ words' = <<>> /\ covered' = {}
        /\ todo' = Modbus!RequestsFor(Modbus!POWER_BLOCKS[p])
    BY DEF Modbus!Poll
  <1>2. cfg.words \in Nat \ {0}
    OBVIOUS
  <1>3. Remaining(Items(Modbus!POWER_BLOCKS[p]))'
    BY <1>1, <1>2, FitOf, PollStarts
  <1>5. WordsFit'
    BY <1>1, NothingRead
  <1> QED BY <1>1, <1>3, <1>5 DEF Polling

LEMMA PollAnswered ==
  ASSUME Polling, Modbus!Request, today \in Nat, total \in Nat, WordBase \in Nat \ {0}
  PROVE  Polling'
  <1>1. /\ pc \in {"full", "fast"} /\ todo # <<>> /\ todo' = Tail(todo) /\ UNCHANGED profile
        /\ pc' = IF Len(todo) > 1 THEN pc ELSE IF pc = "full" THEN "decode" ELSE "fastDecode"
    BY DEF Modbus!Request
  <1>2. profile \in DOMAIN Modbus!PROFILES /\ WordsFit
    BY <1>1 DEF Polling
  <1>3. PICK p \in DOMAIN Modbus!PROFILES : p = profile
    BY <1>2
  <1>4. ASSUME NEW B, Remaining(B)
        PROVE  /\ Remaining(B)' /\ WordsFit'
               /\ ~(Len(todo) > 1) => todo' = <<>>
    <2>1. Remaining(B)' /\ WordsFit'
      BY <1>2, <1>4, RequestMoves, RequestFits
    <2>2. todo \in Seq(Chunk)
      BY <1>4 DEF Remaining
    <2>3. ~(Len(todo) > 1) => Tail(todo) = <<>>
      BY <1>1, <2>2
    <2> QED BY <1>1, <2>1, <2>3
  <1>5. ASSUME NEW B, Remaining(B)', todo' = <<>>, NEW needed, needed \subseteq B
        PROVE  Complete(needed, B)'
    <2>1. \A b \in B : b \in covered'
      BY <1>5 DEF Remaining
    <2>2. covered' \subseteq B
      BY <1>5 DEF Remaining
    <2>3. \A b \in covered' : (Modbus!Addresses(b))' \cap Counters(profile)' \subseteq DOMAIN words'
      BY <1>5, <2>2 DEF Remaining
    <2> QED BY <1>5, <2>1, <2>2, <2>3 DEF Complete
  <1>6. CASE pc = "full"
    <2>1. Remaining(Blocks(p))
      BY <1>3, <1>6 DEF Polling
    <2>2. Items(Modbus!PROFILES[p]) \subseteq Blocks(p)
      BY FitOf
    <2>3. PICK B, needed : B = Blocks(p) /\ needed = Items(Modbus!PROFILES[p])
      OBVIOUS
    <2>4. Remaining(B)' /\ WordsFit' /\ (~(Len(todo) > 1) => Complete(needed, B)')
      BY <1>4, <1>5, <2>1, <2>2, <2>3
    <2>5. pc' = IF Len(todo) > 1 THEN "full" ELSE "decode"
      BY <1>1, <1>6
    <2>6. profile' = p /\ B = Blocks(profile') /\ needed = Items(Modbus!PROFILES[profile'])
      BY <1>1, <1>3, <2>3
    <2> QED BY <1>3, <2>4, <2>5, <2>6 DEF Polling
  <1>7. CASE pc = "fast"
    <2>1. Remaining(Items(Modbus!POWER_BLOCKS[p]))
      BY <1>3, <1>7 DEF Polling
    <2>3. PICK B : B = Items(Modbus!POWER_BLOCKS[p])
      OBVIOUS
    <2>4. Remaining(B)' /\ WordsFit' /\ (~(Len(todo) > 1) => Complete(B, B)')
      BY <1>4, <1>5, <2>1, <2>3
    <2>5. pc' = IF Len(todo) > 1 THEN "fast" ELSE "fastDecode"
      BY <1>1, <1>7
    <2>6. profile' = p /\ B = Items(Modbus!POWER_BLOCKS[profile'])
      BY <1>1, <1>3, <2>3
    <2> QED BY <1>3, <2>4, <2>5, <2>6 DEF Polling
  <1> QED BY <1>1, <1>6, <1>7

LEMMA OptionalSkipped ==
  ASSUME Polling, Modbus!SkipOptional, total \in Nat, WordBase \in Nat \ {0}
  PROVE  Polling'
  <1>1. /\ pc = "full" /\ pc' = "decode" /\ todo # <<>> /\ Modbus!Optional(Head(todo))
        /\ UNCHANGED <<words, covered, profile, still, today, total>>
    BY DEF Modbus!SkipOptional, Modbus!inverter
  <1>2. PICK p \in DOMAIN Modbus!PROFILES : p = profile
    BY <1>1 DEF Polling
  <1>3. Remaining(Blocks(p)) /\ WordsFit
    BY <1>1, <1>2 DEF Polling
  <1>4. \A b \in Items(Modbus!PROFILES[p]) : b[1] + b[2] <= Head(todo).block[1]
    BY <1>1, <1>2, FitOf DEF Modbus!Optional
  <1>5. Complete(Items(Modbus!PROFILES[p]), Blocks(p))
    BY <1>1, <1>3, <1>4, FitOf, RestIsOptional
  <1>6. Complete(Items(Modbus!PROFILES[p]), Blocks(p))'
    <2>1. UNCHANGED <<words, covered, profile>>
      BY <1>1
    <2>2. Counters(profile)' = Counters(profile)
      BY <2>1 DEF Counters, Modbus!TodayAt, Modbus!TotalAt
    <2> QED BY <1>5, <2>1, <2>2 DEF Complete, Modbus!Addresses
  <1>7. WordsFit'
    <2>1. still' => still /\ UNCHANGED <<today, total>>
      BY <1>1
    <2>2. total' \in Nat /\ total <= total'
      BY <1>1
    <2> QED BY <1>1, <1>3, <2>1, <2>2, WordsGrow
  <1>8. profile' = p
    BY <1>1, <1>2
  <1> QED BY <1>1, <1>6, <1>7, <1>8 DEF Polling

\* A complete reading is no more than the inverter counted.
LEMMA ReadingIsCounted ==
  ASSUME ModbusInvariant, pc = "decode", WordBase \in Nat \ {0}
  PROVE  /\ Modbus!Energy.total \in Nat /\ Modbus!Energy.total <= total
         /\ still => Modbus!Energy.today = today /\ Modbus!Energy.total = total
  <1>1. profile \in DOMAIN Modbus!PROFILES /\ WordsFit /\ today \in Nat /\ total \in Nat
        /\ Complete(Items(Modbus!PROFILES[profile]), Blocks(profile))
    BY DEF ModbusInvariant
  <1>2. DOMAIN words = Counters(profile)
    BY <1>1, CountersRead
  <1> QED BY <1>1, <1>2, EnergyOf

LEMMA ModbusStep ==
  ASSUME ModbusInvariant, [Modbus!Next]_(Modbus!vars), WordBase \in Nat \ {0}
  PROVE  ModbusInvariant'
  <1>1. /\ cfg.profile \in DOMAIN Modbus!PROFILES \cup {Modbus!Auto} /\ cfg.words \in 4..32
        /\ detected \in DOMAIN Modbus!PROFILES \cup {None}
        /\ today \in Nat /\ total \in Nat /\ today <= total
        /\ Counted(snapshot) /\ Counted(disk) /\ Counted(straggler) /\ Polling
    BY DEF ModbusInvariant, Polling
  <1> DEFINE Rest ==
        /\ detected' \in DOMAIN Modbus!PROFILES \cup {None}
        /\ today' \in Nat /\ total' \in Nat /\ today' <= total'
        /\ Counted(snapshot)' /\ Counted(disk)' /\ Counted(straggler)'
  <1>2. SUFFICES cfg' = cfg /\ Rest /\ Polling'
    <2>1. UNCHANGED <<DOMAIN Modbus!PROFILES, Modbus!Auto>>
      BY DEF Modbus!PROFILES, Modbus!Auto, Modbus!Min, Modbus!Min3, Modbus!Tl3, Modbus!Mic, Modbus!Legacy
    <2> HIDE DEF Rest
    <2>2. SUFFICES ASSUME cfg' = cfg, Rest, Polling' PROVE ModbusInvariant'
      OBVIOUS
    <2> USE DEF Rest
    <2> QED BY <1>1, <2>1, <2>2 DEF ModbusInvariant, Polling
  <1>3. ASSUME UNCHANGED <<detected, today, total, snapshot, disk, straggler>>
        PROVE  Rest
    BY <1>1, <1>3 DEF Counted
  <1>4. ASSUME UNCHANGED <<pc, todo, words, covered, profile, still, today, total>>
        PROVE  Polling'
    <2>1. still' => still /\ UNCHANGED <<today, total>>
      BY <1>4
    <2>2. total' \in Nat /\ total <= total'
      BY <1>1, <1>4
    <2> QED BY <1>1, <1>4, <2>1, <2>2, PollGoesOn
  <1>5. CASE UNCHANGED Modbus!vars
    BY <1>3, <1>4, <1>5 DEF Modbus!vars, Modbus!inverter
  <1>6. CASE Modbus!Produce \/ Modbus!Midnight
    <2>1. /\ UNCHANGED <<cfg, detected, snapshot, disk, straggler, pc, todo, words, covered, profile>>
          /\ ~still' /\ today' \in Nat /\ total' \in Nat /\ total <= total' /\ today' <= total'
      BY <1>1, <1>6 DEF Modbus!Produce, Modbus!Midnight
    <2>2. ASSUME NEW reading, Counted(reading)
          PROVE  reading # None => reading.total \in Nat /\ reading.total <= total'
      BY <1>1, <2>1, <2>2 DEF Counted
    <2>3. Rest
      BY <1>1, <2>1, <2>2 DEF Counted
    <2>4. Polling'
      BY <1>1, <2>1, PollGoesOn
    <2> QED BY <2>1, <2>3, <2>4
  <1>7. CASE Modbus!Start
    <2>1. Rest /\ cfg' = cfg
      BY <1>1, <1>7 DEF Modbus!Start, Modbus!inverter, Counted
    <2>2. pc' = "idle"
      BY <1>7 DEF Modbus!Start
    <2> QED BY <2>1, <2>2, PollIsOver
  <1>8. CASE Modbus!PollOnce
    <2>1. PICK p : p # None /\ ((p = cfg.profile /\ p # Modbus!Auto) \/ p \in {detected, Modbus!Identified})
                   /\ Modbus!Poll("full", p, Modbus!RequestsFor(Modbus!PROFILES[p] \o Modbus!OPTIONAL_BLOCKS[p]))
      BY <1>8 DEF Modbus!PollOnce
    <2>2. Modbus!Identified \in DOMAIN Modbus!PROFILES \cup {None}
      BY MapsOf DEF Modbus!Identified
    <2>3. p \in DOMAIN Modbus!PROFILES
      BY <1>1, <2>1, <2>2
    <2>4. Polling'
      BY <1>1, <2>1, <2>3, FullPollBegins
    <2>5. Rest /\ cfg' = cfg
      BY <1>3, <2>1 DEF Modbus!Poll, Modbus!inverter
    <2> QED BY <2>4, <2>5
  <1>9. CASE Modbus!PollPowerOnce
    <2>1. PICK p \in DOMAIN Modbus!POWER_BLOCKS :
            Modbus!Poll("fast", p, Modbus!RequestsFor(Modbus!POWER_BLOCKS[p]))
      BY <1>9 DEF Modbus!PollPowerOnce
    <2>2. p \in DOMAIN Modbus!PROFILES
      BY DEF Modbus!POWER_BLOCKS
    <2>3. Polling'
      BY <1>1, <2>1, <2>2, FastPollBegins
    <2>4. Rest /\ cfg' = cfg
      BY <1>3, <2>1 DEF Modbus!Poll, Modbus!inverter
    <2> QED BY <2>3, <2>4
  <1>10. CASE Modbus!Request
    <2>1. Rest /\ cfg' = cfg
      BY <1>3, <1>10 DEF Modbus!Request, Modbus!inverter
    <2> QED BY <1>1, <1>10, <2>1, PollAnswered
  <1>11. CASE Modbus!SkipOptional
    <2>1. Rest /\ cfg' = cfg
      BY <1>3, <1>11 DEF Modbus!SkipOptional, Modbus!inverter
    <2> QED BY <1>1, <1>11, <2>1, OptionalSkipped
  <1>12. CASE Modbus!PollFails \/ Modbus!Refuse
    <2>1. Modbus!Fail
      BY <1>12 DEF Modbus!PollFails, Modbus!Refuse
    <2>2. Rest /\ cfg' = cfg /\ pc' = "idle"
      BY <1>3, <2>1 DEF Modbus!Fail, Modbus!inverter
    <2> QED BY <2>2, PollIsOver
  <1>13. CASE Modbus!Accept
    <2>1. /\ pc = "decode" /\ pc' = "saving" /\ UNCHANGED <<cfg, today, total, disk, straggler>>
          /\ snapshot' = [total |-> Modbus!Energy.total, profile |-> profile]
          /\ detected' \in {profile, None}
      BY <1>13 DEF Modbus!Accept, Modbus!inverter
    <2>2. Modbus!Energy.total \in Nat /\ Modbus!Energy.total <= total
      BY <2>1, ReadingIsCounted
    <2>3. profile \in DOMAIN Modbus!PROFILES
      BY <1>1, <2>1 DEF Polling
    <2>4. Rest
      BY <1>1, <2>1, <2>2, <2>3 DEF Counted
    <2> QED BY <2>1, <2>4, PollIsOver
  <1>14. CASE Modbus!Publish
    <2>1. Rest /\ cfg' = cfg /\ pc' = "idle"
      BY <1>1, <1>14 DEF Modbus!Publish, Modbus!inverter, Counted
    <2> QED BY <2>1, PollIsOver
  <1>15. CASE Modbus!PublishPower
    <2>1. Rest /\ cfg' = cfg /\ pc' = "idle"
      BY <1>3, <1>15 DEF Modbus!PublishPower, Modbus!inverter
    <2> QED BY <2>1, PollIsOver
  <1>16. CASE Modbus!Close
    <2>1. Rest /\ cfg' = cfg /\ pc' = "off"
      BY <1>1, <1>16 DEF Modbus!Close, Modbus!inverter, Counted
    <2> QED BY <2>1, PollIsOver
  <1>17. CASE Modbus!StragglerSaves
    <2>1. Rest /\ cfg' = cfg
      BY <1>1, <1>17 DEF Modbus!StragglerSaves, Modbus!inverter, Counted
    <2>2. UNCHANGED <<pc, todo, words, covered, profile, still, today, total>>
      BY <1>17 DEF Modbus!StragglerSaves, Modbus!inverter
    <2> QED BY <1>4, <2>1, <2>2
  <1> QED BY <1>5, <1>6, <1>7, <1>8, <1>9, <1>10, <1>11, <1>12, <1>13, <1>14, <1>15, <1>16, <1>17
          DEF Modbus!Next

LEMMA ModbusAccepts ==
  ASSUME ModbusInvariant, WordBase \in Nat \ {0}
  PROVE  Modbus!CompletePollIsAccepted
  <1>1. ASSUME NEW S
        PROVE  S = covered => Registers(S) = Modbus!Read
    BY <1>1 DEF Registers, Modbus!Read
  <1>2. ASSUME pc = "decode", still
        PROVE  Modbus!Decodable /\ Modbus!Forward
    <2>1. PICK p \in DOMAIN Modbus!PROFILES : p = profile
      BY <1>2 DEF ModbusInvariant
    <2>2. Items(Modbus!PROFILES[p]) \subseteq covered /\ covered \subseteq Blocks(p)
      BY <1>2, <2>1 DEF ModbusInvariant, Complete
    <2>3. PICK S : S = covered
      OBVIOUS
    <2>4. Modbus!Uses(p, Registers(S)) \subseteq Registers(S)
      BY <2>2, <2>3, FitOf
    <2>5. Modbus!Uses(profile, Modbus!Read) \subseteq Modbus!Read
      BY <1>1, <2>1, <2>3, <2>4
    <2>6. Modbus!Energy.today = today /\ Modbus!Energy.total = total
      BY <1>2, ReadingIsCounted
    <2>7. today \in Nat /\ total \in Nat /\ today <= total /\ Counted(snapshot)
      BY DEF ModbusInvariant
    <2> QED BY <2>5, <2>6, <2>7 DEF Modbus!Decodable, Modbus!Forward, Counted
  <1>3. ASSUME pc = "fastDecode"
        PROVE  Modbus!PowerUses(profile) \subseteq Modbus!Read
    <2>1. PICK p \in DOMAIN Modbus!PROFILES : p = profile
      BY <1>3 DEF ModbusInvariant
    <2>2. Items(Modbus!POWER_BLOCKS[p]) \subseteq covered
      BY <1>3, <2>1 DEF ModbusInvariant, Complete
    <2>3. Registers(Items(Modbus!POWER_BLOCKS[p])) \subseteq Modbus!Read
      BY <2>2 DEF Registers, Modbus!Read
    <2> QED BY <2>1, <2>3, FitOf
  <1> QED BY <1>2, <1>3 DEF Modbus!CompletePollIsAccepted

\* Whatever the size of the requests, the numbers the counters reach and the moments they move
\* at: a poll that read every block while they stood still is accepted, and a fast poll has all
\* the registers it looks up.
THEOREM PollsAreAccepted ==
  (WordBase \in Nat \ {0}) /\ Modbus!Spec => []Modbus!CompletePollIsAccepted
  <1> SUFFICES ASSUME WordBase \in Nat \ {0}
               PROVE  Modbus!Spec => []Modbus!CompletePollIsAccepted
    OBVIOUS
  <1>1. Modbus!Init => ModbusInvariant
    BY ModbusBegins
  <1>2. ModbusInvariant /\ [Modbus!Next]_(Modbus!vars) => ModbusInvariant'
    BY ModbusStep
  <1>3. ModbusInvariant => Modbus!CompletePollIsAccepted
    BY ModbusAccepts
  <1> QED BY <1>1, <1>2, <1>3, PTL DEF Modbus!Spec
=============================================================================
