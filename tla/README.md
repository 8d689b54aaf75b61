# HA-Growatt: specifications

TLA+ modules, TLC configurations and TLAPS proofs for the HA-Growatt integration. Paths
are relative to the repository: `R/` stands for `src/ha_growatt/`, `C/` for
`custom_components/ha_growatt/`. `PROJECT.json` lists components, runs, the mutants that
show each property can fail, the source lines of every definition, findings, hazards and
theorems.

    tlc -workers 2 -config RelaySession.cfg RelaySession   # any run of the table below
    tlapm RelaySessionProofs.tla                           # any module named *Proofs

## 1. The system

A Growatt datalogger keeps a TCP connection to the manufacturer's cloud, sends records and
carries out commands. HA-Growatt sits in between as a proxy, decodes the records, shows
them in Home Assistant and writes settings. It runs on one asyncio event loop: tasks
interleave only where they await, and a few blocking jobs run in threads.

| Component | State | Operations | Interacts with |
|---|---|---|---|
| **Relay session**, `R/relay.py` | open flow, `cloud`, `fell_back`, `awaiting_cloud`, `clock_needed`, `send_lock` | receive and forward a record, answer locally, relay the cloud's frames, fall back, watch the oldest record | datalogger, cloud, observers |
| **Relay commands**, `R/relay.py` | transaction numbers taken locally and by the cloud, translations, pending futures, `command_lock` | `command`, translate and forward the cloud's commands, set the clock, recover the cloud connection | sessions, controls, diagnosis |
| **Relay registry**, `R/relay.py` | `_sessions`, `_devices`, `_closing` | accept, identify, take an inverter over, end, `close` | commands look the session up here |
| **Publisher**, `R/publisher.py`, `R/recovery.py` | last readings, announced generation, discovery topics and those still to clear, cache file | publish, restore, forget, connect, disconnect | MQTT broker, Home Assistant |
| **Pipeline and outputs**, `R/pipeline.py`, `R/native_outputs.py`, `R/outputs.py`, `R/extensions.py` | observation queue, a queue and worker per output, counters, extension process and pipes | observe, deliver, drop, close | relay, publisher, third parties |
| **Setting changes**, `R/ha_features.py`, `R/controls.py`, `R/schedules.py`, `R/capabilities.py`, `R/support.py` | command queue, per device: lock, values and schedules shown, profile, model, firmware | set, edit a period, refresh, read and write from the schedule page, save firmware, model or profile | relay commands, MQTT, web pages |
| Stand-alone server, `R/server.py` | sessions, registry, register cache, two pending tables, sequence | answer records, HTTP register API, `command` | datalogger, HTTP clients, controls |
| Evidence of writes, `R/write_audit.py`, `R/dataloggers.py` | pending writes, registers, cloud numbers | sent, reply, status | relay, diagnostics |
| Register reads for diagnosis, `R/register_diagnostics.py`, `C/register_tools.py` | request queue, seen ids, snapshots, pending service calls | admit, run, reply, stop | MQTT, relay commands |
| Receiver inside Home Assistant, `R/native_receiver.py`, `C/direct.py` | snapshots, live set, listeners, cache | receive, save, restore, close | relay or server, entities |
| Controls without MQTT, `C/direct_controls.py` | a state object per inverter with lock, values, periods | observe, refresh, set, `check_sessions`, close | receiver, relay commands |
| Modbus, `R/modbus_receiver.py`, `R/modbus_transport.py`, `R/modbus_scan.py` | snapshot, profile found, poll lock, tasks | full poll, power poll, close; framing of replies | inverter, entities |
| Passive capture, `R/sniffer.py`, `R/protocol.py` | TCP streams with waiting blocks, frame buffers | feed a segment, split and check frames | observers |
| App options, `R/supervisor.py`, `R/support.py`; migration, `R/migration.py`, `C/migration.py` | options held by the Supervisor, records of the former app | save a profile or firmware; repair, remove | setup and support pages |
| Entry options, `C/config_flow.py`, `C/__init__.py`, `C/output_config.py`, `R/modbus_identity.py` | options of an entry, forms in progress, reloads | forms, port check, set up, unload | Home Assistant, the receiver |
| Health, decoding, entities | counters; tables; views | | |

**What makes it hard.** Three tasks share a session, and each of them may fall back to
local answers in the middle of the others' writes. Replies arrive late, twice or never,
under 16-bit numbers shared by relay and cloud. A datalogger reconnects while its old
connection still has frames buffered. A command waits in a queue, for a lock, for a pause
and for another lock, and must still be meant when it is sent. A write may take effect
without an answer. The broker may lose its memory, the process may stop between saving and
sending, and a queue may overflow at any point.

**What makes each component correct.** *Session:* a record is answered once, by one owner;
the owner changes once and completely; no record is lost on the way. *Commands:* a reply
reaches the request it answers and nobody else; nobody waits for ever. *Registry:* an
inverter's commands go to the connection that announced it last and is still there;
shutdown leaves nothing open. *Publisher:* discovery records are complete and
never orphaned; what is shown never goes back in time and comes back after restarts.
*Outputs:* order, accounts, isolation of a bad output. *Setting changes:* a change is sent
once, while it is still meant; no change undoes another unseen; what is shown was read from
the inverter. *Server, diagnosis, direct controls:* the same questions as for commands and
setting changes under weaker bookkeeping. *Modbus:* no partial or backward reading.
*Capture:* the frames found are those of the stream. *Write audit:* a write is attributed
only where the evidence is unambiguous. *Options:* nobody's choice is undone by somebody else's
save, and what runs is what was saved.

## 2. Modules

| Module | Models | Correspondence |
|---|---|---|
| `AckOwnership` | what a connection promises about answers (abstract) | owner, receipts, debts, answers decided and written |
| `RelaySession` | one connection of the relay in detail | variables are the fields of `RelaySession`; an action is the code between two awaits; `work[t]` is what a task has still to send, `sending` the write being drained and so `send_lock` |
| `RelayCommands` | commands of local requests, cloud and clock; recovery | one action per await of `Relay.command`, `_cloud_frames`, `_recover_cloud`; numbers are `1..N` in place of `1..65535` |
| `RelayRegistry` | connections and `_devices` | the three steps of a session's end, `close` and its interrupted clean-ups |
| `Publisher` | publisher and reading cache | worker, restore loop and `forget` take turns on `_publish_lock`; `Deliver` is MQTT client, broker and Home Assistant |
| `Outputs` | observation queue, output queues, extension process | readings are numbers in the order of their arrival; the two pipes are sequences |
| `Controls` | setting changes of one inverter | `job[p]` is the coroutine of the command loop, the refresh loop or a schedule page; `wire[p]` its request and the reply; `link` what `session_key` returns; `details` the inverter's entries in `models` and `hardware`, `stored` those in the app's options, which saves for it and for other inverters bring into use |
| `StandaloneServer` | the server in place of the cloud | an action is the code between two awaits of `_device`, `command` or `api`; the pending tables are the callers whose `pc` is "sent" |
| `StreamCapture` | `Reassembler.feed` and `FrameBuffer.feed` | a byte is its position in the stream, its number that position modulo 2^w; one action per segment, in which `Turn` is a turn of the code's `while` and `Piece` one of the parser's |
| `ModbusReceiver` | full and fast polls, identification, lifetime energy, save | one action per request: the inverter counts on in between; the maps of registers are the code's |
| `ModbusReads` | one request and its replies over TCP, UDP and serial lines, and the scan | a word is the address it was read from; late replies wait in `unanswered` and `buffer` |
| `NativeReceiver` | receiving inside Home Assistant | `observe` in two halves around the save in a thread; `stragglers` are saves whose observer was cut off |
| `DirectControls` | settings without MQTT | `objects` are the `SettingState`s, also those replaced; a job keeps the number of the one it began with |
| `WriteAudit` | evidence of writes over one connection | `sent`, `reply` and `status`; a request is its index in `requests`, the code's sequence |
| `Diagnostics` | diagnostic reads, from service call or page to reply | companion, queue, loop and page with their time limits; MQTT may delay, drop and repeat |
| `EntryOptions` | options of an entry, forms, reload | a form that waits for the port check keeps the options it began with; `missed` is what others saved since |
| `AppOptions` | options of the app in the Supervisor | read, compare, replace; the app configuration may be saved in between |
| `MCRelayCommands`, `MCPublisher`, `MCControls`, `MCDirect`, `MCParts` | values for TLC | symmetry, profiles, wishes and pages; `MCParts` instantiates the ten modules above |
| `AckOwnershipProofs`, `RelaySessionProofs`, `RelayCommandsProofs`, `PublisherProofs`, `OutputsProofs`, `ControlsProofs` | theorems about the module of the name | section 5 |
| `ServersProofs` | theorems about `RelayRegistry`, `StandaloneServer`, `WriteAudit` and `StreamCapture` | section 5 |
| `PartsProofs` | theorems about seven more parts, each an instance whose constants and variables are the module's own | section 5 |

How they fit together: `RelaySession` implements `AckOwnership` under the mapping at its
end (an answer is *decided* when its record leaves `awaiting_cloud` or is received locally,
and *given* when it is written). `RelayCommands` and `RelaySession` describe the same
connection from two sides; `RelayCommands` keeps of the session only whether it is
connected, closing, or without cloud. `RelayRegistry` composes several sessions and keeps
of each the phases of its life. `Controls` uses of `RelayCommands` what is proved there: a
request is answered by its own reply or not at all, and the caller's check runs at the
moment of sending. `Outputs` begins where the session hands a frame to the observers.
`NativeReceiver` takes those frames inside Home Assistant, and `DirectControls` what it tells;
`Diagnostics` shares with `Controls` the context under which a command is admitted, and
`AppOptions` is the other half of `Controls`' saving of firmware and profile. `ModbusReads` is
the reader below `ModbusReceiver`, which is told what it reads or that the read failed.

Data are abstract throughout. A record is its reply key, a reading a number, a setting a
value of 0 or 1, a time limit something that may have passed whenever it is pending.
Decoding, text, and which register holds which setting are left out; only `ModbusReceiver` knows
the registers its maps name.

## 3. Runs

Run, module and configuration: `session`, `session_live`, `session_stalled` check `RelaySession`
with `RelaySession.cfg`, `RelaySessionLive.cfg`, `RelaySessionStalled.cfg`; `commands` and
`recovery` check `MCRelayCommands` with `RelayCommands.cfg` and `RelayRecovery.cfg`; `registry`
checks `RelayRegistry`, `publisher` `MCPublisher`, `outputs` `Outputs`, `controls` and
`controls_message` `MCControls`, the last with `ControlsMessage.cfg`; `direct_reconnect` checks
`MCDirect` and `parts` `MCParts`. The largest, `publisher` and `controls`, have about two
million distinct states and take one to three minutes.

| Run | Question | Bounds, and why they are enough |
|---|---|---|
| `session` | Do acknowledgements move once and completely; is no record lost or answered twice; does the session implement `AckOwnership`? | One ordinary record and one announcement, three receipts so that one is repeated, `awaiting_cloud` of two so that it fills, one failed write. `cloud_fallback` on and off. The answers of one record do not depend on a third one. |
| `session_live` | Is a record that the cloud leaves unanswered answered in the end; does a local session still owe the clock? | Two receipts and one clock of the cloud, which may fall silent anywhere. |
| `session_stalled` | *(violation)* Are all outstanding records answered locally, as documented? | As above, one failed write. |
| `commands` | Can a reply reach the wrong side? | Two requests, a command of the cloud and a clock on **three** numbers: they wrap and run out. Two replies allow a late, a repeated or an unmatched one. |
| `recovery` | Does recovery cut a request off, does anybody wait for ever? | Two requests, a command of the cloud, two numbers. |
| `registry` | Do entries lead to live, last-announcing sessions; does `close` complete? | Three connections against a limit of two, two inverters, two dataloggers, one inverter per session so that this limit is met. |
| `publisher` | Is discovery complete, do saved readings come back, does nothing go back in time? | Two inverters, two readings under two profiles that share one topic, any **two** troubles: lost connection or broker records, restart of Home Assistant or of the process, failed delivery or save, change of profile. Each known way to break it needs two. |
| `outputs` | Do the counters balance, is order kept, is a late answer taken for another's, does a hanging extension harm others? | Four readings through queues of two: both queues overflow. The extension may hang, fail, answer late or die; shutdown at any time. |
| `controls` | Is a change sent once and while it is meant, is one undone unseen, is what is shown true? | One control, one charging period of two fields, a queue of one, one page with an old view, the refresh loop, and one trouble: a foreign change, a connection lost or taken over, another profile, an edit of the app's options, or a save for this inverter or another one. Two session keys, so that a connection after a loss may have a new key or the former one (coming back is not counted as a trouble). The options hold another model than the one in use, the firmware is known, another one may be entered. The queue of one suffices because commands run one after the other; two writers of one period are the command and the page. |
| `controls_message` | *(violation)* Where a command ends with "nothing sent", was nothing sent? | As above. |
| `direct_reconnect` | *(violation)* Are settings offered only after a read in the current connection? | One setting, two connections whose keys may be the same. |
| `parts` | The questions of the table below, one part at a time. | There. |

The parts of `MCParts` share no state. `Init` chooses one of them, its variables are the first
ones of `x1` to `x16`, and the others stay unused: the states are the sum of the parts', not
their product (920 000 together, about a minute). Members of `A` and of `B` are
interchangeable in every part. Some modules appear twice, with different things kept small.

| Part of `parts` | Question | Bounds, and why they are enough |
|---|---|---|
| `takeover`, `answering` | Does a caller get its own answer; does the registry follow the connections? | Two connections of two loggers, one request and one clock at most; one logger with three numbers drawn from **two**: the third request has the first one's number, which a late reply can meet. |
| `capture` | Are the frames found those that were sent? | Frames of 3, 3 and 4 bytes and headers of 2; numbers modulo 16 that wrap inside the second frame; two waiting segments, so that a third is too many; inside a frame, bytes that look like a header. Modulus 16 and a reach of 6 keep the code's condition, segments within half the number space. |
| `modbus` | Is a complete poll accepted; do blocks, optional blocks and maps fit together? | Registers of **one bit**, so that a carry falls between two requests; a lifetime energy up to 2. Every profile, configured or found by identification, in requests that cut its blocks, for two of them between the halves of the lifetime energy. |
| `native` | Is the newest reading shown, and saved? | Three inverters for a limit of two, three readings, two saves that outlive their observers: the older one can end last. |
| `direct`, `shared` | Is what is offered read in this connection, and true? | Two connections, possibly with one key; one connection, two profiles and a change by the cloud. A refresh and a command; two objects, so that one is replaced while it is used. |
| `repetition`, `attribution` | Is the cloud named without proof? | One register of two values. Two writes of the cloud, of two numbers or of one used twice, so that the later one may replace the one a reading was explained by; two local writes and one of the cloud. One read, in any order. |
| `diagnosis`, `identification` | Does a call get its own read, under the conditions of its admission? | Two calls and a page for one queue place, one remembered id and one pending call, so that each limit is met; two comparison snapshots, the second compared with the first; one change of connection or details. An identification reads two ranges instead of four. |
| `options` | Does a saved choice stay; does the entry run what is saved? | Two windows, one inverter, one output, two ports and two values of all else, four saves: forms of both windows may wait for their ports at once, and be overtaken. |
| `app` | Does the app's save undo somebody's choice? | Two inverters, two edits, two saves: the least for a save across an edit of another inverter, followed by a repair. |
| `reads` | Is every address accounted for, and every word its own? | A block that must be halved, one at the end that is shorter, six requests for what needs more; polls of four requests over each transport. |

Deadlock is checked in the runs of `RelaySession`, `RelayCommands`, `RelayRegistry` and
`Controls`, where an explicit final step marks the states in which a session may stop or
the loops always have something to do. It is off for `Publisher` and `Outputs`, which end
when their bounded supply of readings and troubles is used up, for `session_stalled`, and for
`parts` and `direct_reconnect`, whose bounds on connections, requests and saves end their steps.
The parts are checked for safety only: they state no fairness.

Each property has a mutant, a plausible slip in the code such as a dropped check, an
off-by-one or an answer forgotten, under which TLC refutes it (`PROJECT.json`).

**Fairness**, where liveness is checked. *Session:* a connection attempt is limited by
`connection_seconds`, a write to the cloud or the datalogger by `write_seconds`, the
deadline task wakes by itself, and asyncio grants a lock in the order of the requests.
Nothing is assumed of the datalogger or the cloud. *Commands:* every await but a lock has a
deadline; for the steps a lock or a recurring poll can disable, strong fairness stands for
asyncio's first-in-first-out locks and for the recovery task's repeated attempts.
*Registry:* cancelled flows end and closing a socket is given up after two seconds.
*Outputs:* the workers of the outputs other than the extension run and their deliveries end
(each has a timeout); nothing is assumed of the extension, its process or its worker.

## 4. Findings

1. **Local replies dropped by a stalled write** (`session_stalled`). "Packets already
   forwarded but still awaiting acknowledgement receive a local reply"
   (`docs/home-assistant-features.md:270`). `_fallback` clears `awaiting_cloud` and then
   awaits the replies one by one (`R/relay.py:361-364`). In the deadline or the cloud task a
   write that does not drain in time ends that task: the remaining records are answered by
   nobody although the session goes on. `NoRecordForgotten` and `ClockSupplied` hold without
   such a stall and say so.
2. **"Nothing sent" after sending** (`controls_message`). `check_current` words every failure
   as "…; nothing sent" (`R/ha_features.py:685`), but `confirm_read` calls it again after the
   write has been sent and acknowledged (`R/controls.py:130-131`). If time runs out or the
   inverter changes there, *Last command result* denies a write the inverter took.
3. **Settings of a former connection offered** (`direct_reconnect`). "Offer settings only after a
   current-session read succeeds" (`C/direct_controls.py:28`). A connection is told from another
   by `id(session)` (`R/relay.py:573`, `R/server.py:222`), which CPython gives again once the
   object is gone. If a datalogger reconnects before `check_sessions` looks, and the new session
   gets that identity, `observe` (line 92) keeps the `SettingState` and its values are offered
   until the next read, up to five minutes later. `OfferedIsTrue` names this exception.

What else the properties had to except, each a behaviour of the code and none of them denied by
a document:

- *Server.* HTTP requests are matched by function and register (`R/server.py:320`). After one that
  timed out, each answer for that register may be the previous request's, for as long as the
  connection lasts. A session that changes its logger's name leaves its former entry behind.
- *Serial lines.* A reply that comes after its time limit may be taken for the next request of the
  same kind and size (`R/modbus_transport.py:173`). TCP and UDP reads open anew and are not affected.
- *App options.* The options may be edited between the second look and the replacement, as the
  comment at `R/supervisor.py:56` knows. Reading the firmware saves it with the profile the app
  *runs* with (`R/support.py:257`): a profile saved elsewhere but not yet active is put back.
- *Entry options.* The receiver's form, when it tries a port, saves over the options it began with
  (`C/config_flow.py:347-361`) and undoes forms saved meanwhile. `SavesAreKept` confines the loss to
  these: what no waiting form missed is never set back. Options saved after the hub was made and
  before the update listener is registered (`C/__init__.py:23-41, 47-59`) reach no listener, and the
  entry runs on with the former ones until its next reload; `RunsWhatWasSaved` calls them `unheard`.
- *Setting changes: connections.* Commands and schedule pages compare `session_key` as well, so a
  connection that got the former one's identity (finding 3) passes for it, and a change queued under
  the former one goes over it. `SentOnceWhileCurrent` speaks of the key; `Connect` gives keys again,
  except the present one and those of sessions a request still refers to, which are alive.
- *Setting changes: details.* Reading the firmware (`R/support.py:265-271`) and every save of the page
  (`R/support.py:331-333`) bring the app's options into use for **all** inverters, holding the lock of
  one and clearing at most its settings. An edited model, or another inverter's details, come into
  use that way beside values read under the former ones. `ShownIsCurrent` therefore promises only that
  what is shown was read after the last save *for this inverter* that found its model or known
  firmware to be others.
- *Recovery.* It asks for a reconnection only after the last command is 30 seconds old; commands closer
  together postpone it without end (`R/relay.py:442-450`). In `recovery` each caller calls once.
- *Cloud and inverter.* `CloudIsNamedWithProof` says that the reading came after both writes, not that
  its value is the cloud's. `AnsweredByItsOwnRead` tells connections apart by their session key.
- *Receiver.* A save that outlives the observer's time limit may replace a later one on disk, and
  the reading it belongs to is kept but told to no listener until the next one.
- *Capture and polls.* A shorter block that waits is kept when a longer one comes for the same byte
  (`setdefault`), which may hold the stream up until the bytes come again or the stream is dropped: `FramesAreTheStream` is
  about what is returned, not that something is. `CompletePollIsAccepted` takes each answer for its own
  request's; late ones on serial lines are the subject of `WordsAreAccountedFor`.

Seen beside the models, without a run: PVOutput keeps the saved key when another system id is given
without one (`C/config_flow.py:458-463`), while `docs/home-assistant-features.md:73-75` says "If you
change a destination address, port, TLS setting or account, enter its password or token again". The
other outputs do so (`C/output_config.py:8-10`); whether another system of one key's owner is another
account is for the authors to say.

## 5. Proofs

All theorems hold for every value of the constants under the named assumptions of the
modules (disjoint names, limits that are positive integers). None bounds the number of
records, requests, readings, sessions or outputs.

- `AckOwnershipProofs`: `OwnershipInvariant`, and from it `NeverAnsweredTwice`;
  `LocalStaysLocal`, `CloudStaysOut`. At-most-once is not inductive by itself: an answer
  decided but not yet written could become a second one. The invariant keeps, for each record,
  debts plus decided plus written answers within its receipts; every action moves one unit.
- `RelaySessionProofs`: `TypeCorrect`, `OutstandingBounded`, `HandOverCompletes`,
  `DisabledMeansSilent`, from `IInv`. `ConnectingIsFirst` says that nothing else has happened
  while the cloud connection is being opened (needed because `ConnectCloud` sets `cloud`), and
  `CloudKeepsSession` that with `cloud_fallback` off all work in progress comes from the cloud.
  `RecordsAreRemembered` and `ClockIsSupplied` rest on what each task can have to send
  (`WorkShape`: the frame being relayed, or local answers with one clock check, in that order),
  on who answers after a fallback (`FallbackShape`), and on `ClockOnItsWay`: a clock that is due
  is about to be sent, or stands behind an answer that is.
- *Refinement.* `SessionOwnsAnswers` proves `Spec => ImplementsAckOwnership`: the initial states
  map to initial states, and each of the session's actions is shown to be one step of
  `AckOwnership` or a stutter. The mapping counts answers in the tasks' work, so a writing
  step moves one unit from *decided* to *given*, and a hand-over moves all debts of the cloud.
  Needed for it: what is on its way from the cloud is covered by what the cloud received
  (`CloudIsAccountable`), and no task but the datalogger's has two answers to one record
  (`OnceAnswered`). `AnsweredOnce` then takes at-most-once from `AckOwnershipProofs` to the session.
- `RelayCommandsProofs`: `CommandsTypeCorrect`, `NumbersNeverCollide`,
  `CloudSeesItsOwnReplies`, `RequestsSeeTheirOwnReplies`, from `IInv`. Distinctness on the wire
  is strengthened to every command *issued*, also those waiting for `send_lock`: its number is
  taken, by the relay unless it is the cloud's own; no two share one; a translation belongs to
  its command. It holds for any size of the number space, so also when numbers run out.
  `RecoveryKeepsItsTurn` rests on `CommandLockHeld`: whoever is past its turn holds the lock.
- `ServersProofs`:
  - *Relay's registry:* `EntriesStayLive`, `OpenOwnerIsUnique`, `LastAnnouncerKeepsEntry`. The
    three are inductive together with the typing and with the fact that a session that does not
    serve yet has announced nothing.
  - *Stand-alone server:* `RegistryIsTrue`, and `AnswersAreTrue`. For the second, a caller has its
    connection's lock from its pause to its return, no request at the datalogger is younger than
    the one it sent, and each of them is expected by its caller or astray; two with one number
    are a whole round of numbers apart (`Division`, `NumbersGoRound`).
  - *Evidence of writes:* `CloudIsProved`. A pending request is the only one under its key, so the
    reply that pops it is its own; the invariant keeps with each row the writes and the reading
    its finding stands on.
  - *Passive capture:* `FramesStayTheStream`, under `CaptureNames`. There, of what the code fixes:
    an announced size is that of a header at least (`frame_size` refuses shorter ones) and frames
    follow one another; of TCP: a window and a segment each fit into half the number space. The
    stream may hold anything between two headers, its numbers may begin and wrap anywhere, and
    any number of segments may wait. The invariant says of
    the expected byte's position `p`: the parser was given the bytes up to `p` (`taken`); what waits
    begins behind `p`, within the window, under its own number (`Waits`); and what the parser keeps
    begins where a frame begins, is not whole yet, and all frames before it were returned
    (`Parsed`). Within a step it holds of every turn of the two loops. Two facts carry
    it: the distance of two numbers is that of their positions while these are close
    (`DistanceOf`, and `NearestIs` for the choice of the next block), and the parser's pieces end
    where the frames end (`PieceTaken`). That the loops' bounds are enough, a byte at least
    for each piece and a waiting block for each turn, is part of the proof (`SplitTaken`,
    `ConsumeTaken`).
- `PublisherProofs`, in three arguments on one `Base` (who has the lock, whose snapshot is being
  published, how readings are numbered). `ReadingsGoForward`, from `Sequel`: of each inverter,
  shown, on its way, saved and taken are in order. `AnnouncedRecordsExist` and
  `ClearingsAreRetried`, from `Records`, which follows an announcement and its clearing topic by
  topic through the outbox: the books hold what the broker has once the outbox is delivered.
  `QuietIsComplete`, from `NothingLeftOut`, which names for each inverter where its snapshot is
  as long as it is not shown: on its way, with the worker, or with the restore loop.
- `OutputsProofs`: `AccountsAlwaysBalance`, with the typing of the queues and the fact that the
  extension's worker waits for an answer only while it has a reading. `ReadingsArriveInOrder`: what
  is delivered precedes what is in hand, that what is queued, and that what is still to be queued;
  dropping the oldest of a full queue keeps this. `AnswersBelongToReadings`: while the thread
  waits, one pipe holds the request for the current reading or the other its answer, and when it
  does not wait, both are empty (`PipeHolds`).
- `ControlsProofs`: `PageIsTrue`, `ChangesAreSentOnce`, `ChangesStartFromTheInverter`. The
  invariant says of each job that it has the lock where it works, knows its command, and that
  what it has read or compared was the inverter's contents unless these were changed from
  outside since; and of each setting shown the same, unless it is being written. `WishesAssumption`
  names what the page offers: single values are set for settings, fields edited in periods.
- `PartsProofs`, with the hypotheses named in each theorem (that a name standing for "nobody" or
  "nothing" is none of the others, and that profiles offer settings that exist):
  - *App options:* `ChoicesStay`. What a save read is what is stored, but where an edit crossed it.
  - *Receiver:* `NewestIsShown`, `SavedGoesForward`. Readings are numbered as they arrive:
    none that is kept, saved or being saved is later than the last one, one observer at a time
    saves all the snapshots, and what the disk has, a receiver that read it has too.
  - *Entry:* `SavesStay`, `SavesAreRun`. What a form that waits for its port
    has read is what was saved last, but for what it missed since or what is put back already.
  - *Diagnosis:* `CallsGetTheirOwnRead`. A request admitted once is never admitted again, as
    its id is among those seen or expired; in the queue, in the loop and in its reply it keeps
    the details of its admission, and is run once.
  - *Controls without MQTT:* `OfferedStaysTrue`. Two jobs that use one object exclude each other by
    its lock, what an object knows was read in a connection of its session, and while a write for an
    object replaced is still under way, its successor has read nothing in this connection.
  - *Register reads:* `WordsAreShared`, for kinds asked once and ranges that do not overlap
    (`ReadsApart`; a user may ask for others, and then a word is read twice). What is read, what is
    unavailable and the blocks still to read share the addresses out (`Shares`): this is so of the
    blocks a range is cut into (`RangeInBlocks`), of the blocks of all ranges and kinds one after
    the other (`AllInBlocks`), and stays so when the first is read, given up or halved. Of the
    replies, no request is under way twice, and each is of the read under way, or of one that
    ended without it.
  - *Polling:* `PollsAreAccepted`, for every profile and any words from 4 to 32, which is what the
    settings admit (`Valid`). The requests still to send follow one another and
    leave no counter of a needed block out (`Remaining`, from `AskedInTurn`); after the last
    request all needed blocks are covered and their counters read (`Complete`). The registers the
    decoder looks up are all in needed blocks: a case for each of the code's maps (`AllFit`). And
    whatever the inverter counted between two requests, a value is never ahead of the inverter,
    as its upper half is read first (`WordsFit`): so no reading accepted, saved or restored is
    (`Counted`), and none refuses a later true one.

One property did not survive its proof. `CloudIsNamedWithProof` used to compare with the write of
the cloud the row *holds*. With two numbers of the cloud that is false: a later acknowledgement
replaces that write while the finding stays "cloud", which the code means (the finding is of the
last reading). The property now speaks of a write that was carried out, and `repetition` has two
numbers.

*Induction over data.* The prover has no induction over what a recursive definition computes, and
`AllInBlocks` needs one: the blocks are put one after the other by a function on the numbers of
their sequences. So do the requests of a poll (`BlocksFlattened`) and the two loops of the capture
(`SplitTurns`, `ConsumeTurns`). `FromEachToTheNext` gets it from the pigeonhole theorem about finite
sets: if a set of numbers has 0 and with each number the next, and not n, then 0..n fits into 1..n.
Applied to the set of those n for which a function with the recursion's equation exists, it gives
the function (`Flattening`), and applied to those n up to which it is right, its value (`Flattened`).

`CommandsTypeCorrect`, `TypeCorrect` and `OutstandingBounded` are proved and not also run: a
typing that holds for every constant needs no instance, and the inductive invariants contain it.

**Only model-checked.** Liveness (`OutstandingIsAnswered`, `EveryCommandEnds`,
`RecoveryFinishes`, `CloseCompletes`, `OthersKeepDelivering`): fairness and ENABLED are
outside the prover.

*Runs and theorems.* Every safety property of a passing run is stated by a theorem. Those of
`parts` are each the invariant of one module (`MCParts!ShownIsNewest` is that of `NativeReceiver` while
`part = "native"`, and so on). The theorems are about that module with all its constants free; the
values that `MCParts` gives them satisfy the theorems' hypotheses:

| Property of `parts` | Theorem | Property of `parts` | Theorem |
|---|---|---|---|
| `AnswersAreOwnOrLate` | `AnswersAreTrue` | `CloudIsNamedWithProof` | `CloudIsProved` |
| `RegistryFollowsSessions` | `RegistryIsTrue` | `AnsweredByItsOwnRead` | `CallsGetTheirOwnRead` |
| `FramesAreTheStream` | `FramesStayTheStream` | `SavesAreKept` | `SavesStay` |
| `CompletePollIsAccepted` | `PollsAreAccepted` | `RunsWhatWasSaved` | `SavesAreRun` |
| `ShownIsNewest` | `NewestIsShown` | `ChoicesAreKept` | `ChoicesStay` |
| `SavedNeverGoesBack` | `SavedGoesForward` | `WordsAreAccountedFor` | `WordsAreShared` |
| `OfferedIsTrue` | `OfferedStaysTrue` | | |

## 6. Not modelled

- *Liveness of setting changes and of the parts.* With fairness the state space of `Controls` is
  too large for the instance above. In the parts every wait has a time limit of its own.
- *Of modelled components:* the clock command, status messages and discovery of controls; what each
  output sends, PVOutput's interval, InfluxDB's start-up; two closes of the extension at once; the
  validation of the cache file; the cache behind the server's `regall` and its answers to records;
  which saved password stands for a blank one in the entry's output forms; the raw Modbus profile and
  the plausibility limits of values; the packet socket and its headers; the evidence capture and the
  repair issues of the integration. `PROJECT.json` names for each component what is left out.
- *Bytes.* Forwarding policy and parsing appear as outcomes ("blocked", "damaged"). Checksums and
  masking are pure arithmetic over bytes, tested against recorded frames.
- *Migration and the check of Home Assistant's entities:* run once on a user's request, step by step
  with nothing beside them that would change the records.
- *Health counters, selection, telemetry and decoding tables, the app's settings and the former
  configuration file, entities:* sequential functions, tables and views without behaviour of their
  own. A decoded record is an opaque reading everywhere.
- *A known partial failure:* an announcement that fails half way leaves topics the publisher does
  not know of (`R/publisher.py:245`), and a profile change forgets settings without the device lock
  (`R/ha_features.py:766`). Both are in the code, neither is denied by a document, and the
  properties are stated so that they hold beside them (hazards in `PROJECT.json`).

## 7. Plan

The modules are complete as far as section 6 says, and every safety property of a run has its
theorem. What a continuation could add:

1. Liveness of setting changes, on an instance small enough for fairness: one setting, one editor.
2. `Publisher`: what the books hold after an announcement that failed half way, once the code says
   what is meant.
3. `EntryOptions`: the forms that create an entry, of which only the options' forms are modelled.
