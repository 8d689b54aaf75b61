------------------------------ MODULE Controls ------------------------------
(***************************************************************************)
(* Changing settings of one inverter (ha_features.py, controls.py,         *)
(* schedules.py, support.py): a command from MQTT waits in a queue, the    *)
(* command loop, the refresh loop and the web page's schedule editor take  *)
(* turns on the lock of the device, and whoever holds it reads and writes  *)
(* registers through a datalogger whose answers may be lost.               *)
(*                                                                         *)
(* A setting holds a function of its parts: the single part of a control,  *)
(* or the fields of a charging period, which are written together. The     *)
(* transport is reduced to what RelayCommands shows of it: a request is    *)
(* answered by its own reply or not at all, and the caller's check runs at *)
(* the moment of sending. A write given up on may still arrive; it changes *)
(* the setting as the cloud would.                                         *)
(*                                                                         *)
(* A connection is known here as the code knows it, by its session_key:    *)
(* the identity of an object, which a later connection may get again.      *)
(***************************************************************************)
EXTENDS Naturals, Sequences, FiniteSets, SequencesExt

CONSTANTS
    Settings,      \* the control settings of one register
    Periods,       \* the charging periods
    Fields,        \* the fields of a period
    Profiles,      \* decoder profiles a measurement may be decoded with
    First,         \* the profile of the first measurement
    Selections, Models, Firmwares,  \* what may be recorded of the inverter
    Recorded,      \* what is recorded at first: in use, and in the app's options
    Entered,       \* what may be entered for the inverter
    Offers,        \* the settings and periods offered for a profile, selection and model
    Editors,       \* requests of the web page to read or write a period
    QueueSize,     \* commands waiting for the command loop
    SessionKeys,   \* what session_key may return
    FirstKey,      \* what it returns at first
    Wishes,        \* the commands users give: setting or period, part and value
    Pages,         \* what the schedule editor may ask: expected and new content of a period
    MaxTroubles,   \* bound: changes from outside, of profile and details, and connections
                   \* lost or taken over
    None, Pending, Loop, Refresher

ASSUME OffersAssumption ==
    Offers \in [Profiles \X Selections \X Models -> SUBSET (Settings \cup Periods)]
ASSUME RecordedAssumption ==
    LET Details == [controls : Selections, model : Models, firmware : Firmwares \cup {None}]
    IN  Entered \subseteq Details /\ Recorded \subseteq [active : Details, stored : Details]
ASSUME NamesAssumption ==
    /\ Settings \cap Periods = {}
    /\ None \notin Editors \cup {Loop, Refresher} \cup Firmwares \cup SessionKeys
    /\ Pending \notin Profiles /\ First \in Profiles /\ FirstKey \in SessionKeys
    /\ Loop # Refresher /\ {Loop, Refresher} \cap Editors = {}
ASSUME WishesAssumption == \A w \in Wishes :
    w.kind \in {"set", "edit", "refresh"} /\ (w.kind = "set" => w.key \in Settings)
ASSUME BoundsAssumption == QueueSize \in Nat \ {0} /\ MaxTroubles \in Nat

VARIABLES
    inverter,      \* what the registers hold
    foreign,       \* history: changes of each setting by the cloud, or by a late write
    shown,         \* device.values and device.schedules
    link,          \* transport.session_key of the inverter
    profile,       \* device.profile
    details,       \* the inverter's entries in models and hardware
    stored,        \* its entries in the app's options
    corrected,     \* history: saves for this inverter that corrected its model or firmware
    lock,          \* the holder of device.lock
    queue,         \* _commands
    job,           \* what the command loop, the refresh loop and each editor is doing
    wire,          \* its request to the datalogger and the reply
    troubles       \* bound: changes from outside so far

records == <<details, stored, corrected>>
device == <<link, profile, records, troubles>>
vars == <<inverter, foreign, shown, device, lock, queue, job, wire>>

-----------------------------------------------------------------------------
(* Settings and what is known of them *)

Keys == Settings \cup Periods
Parts(key) == IF key \in Settings THEN {"value"} ELSE Fields
Contents(key) == [Parts(key) -> 0..1]
Processes == Editors \cup {Loop, Refresher}

Unknown == [held |-> <<>>, seen |-> 0, under |-> 0]

Offered ==
    IF profile = Pending THEN {} ELSE Offers[profile, details.controls, details.model]
Context == <<profile, details>>

Outcomes == {"nothing sent", "done", "failed"}
NoOrigin == [link |-> None, context |-> <<>>]
Now == [link |-> link, context |-> Context]

NoJob == [pc |-> "idle", kind |-> "refresh", key |-> None, part |-> "value", val |-> 0,
          target |-> <<>>, expected |-> <<>>, seen |-> 0, origin |-> NoOrigin,
          checked |-> NoOrigin, by |-> None, tries |-> 0, sent |-> FALSE, todo |-> <<>>]
Quiet == [state |-> "quiet", key |-> None, held |-> <<>>, seen |-> 0, under |-> 0]

\* check_current of execute and of schedule_action, but for the deadline: that may have
\* passed at any call, and a job whose check fails ends.
Current(p) == job[p].checked.link # None /\ job[p].checked = Now

-----------------------------------------------------------------------------
(* The end of a job, and its progress *)

\* device.lock.
LockFree == lock = None

\* The lock is released and the outcome told; the command loop publishes it.
Ends(p, outcome) ==
    /\ job' = [job EXCEPT ![p] = IF p # Loop THEN NoJob
                                 ELSE [NoJob EXCEPT !.pc = outcome, !.sent = job[p].sent]]
    /\ wire' = [wire EXCEPT ![p] = Quiet]
    /\ lock' = IF lock = p THEN None ELSE lock

EndsShowing(p, outcome) == UNCHANGED shown /\ Ends(p, outcome)

\* A failure inside write_setting or _write_period: the setting is no longer shown
\* until the next refresh.
EndsForgetting(p, outcome) ==
    /\ shown' = [shown EXCEPT ![job[p].key] = Unknown]
    /\ Ends(p, outcome)

Continues(p, next) ==
    /\ job' = [job EXCEPT ![p] = next]
    /\ wire' = [wire EXCEPT ![p] = Quiet]
    /\ UNCHANGED <<shown, lock>>

\* before_send called on the way to the next step.
ContinuesIfCurrent(p, next) ==
    \/ Current(p) /\ Continues(p, next)
    \/ EndsForgetting(p, "nothing sent")

\* What an answered reading tells of a setting.
Reading(p) == [held |-> wire[p].held, seen |-> wire[p].seen, under |-> wire[p].under]
Shows(p) == shown' = [shown EXCEPT ![wire[p].key] = Reading(p)]

-----------------------------------------------------------------------------
(* Commands, calls of the editor, rounds of the refresh loop *)

\* _enqueue: a message of MQTT, with the session and context of this moment. Beyond
\* the queue's size it is rejected and nothing changes.
Enqueue(kind, key, part, val) ==
    /\ Len(queue) < QueueSize
    /\ queue' = Append(queue, [kind |-> kind, key |-> key, part |-> part, val |-> val,
                               origin |-> Now])
    /\ UNCHANGED <<inverter, foreign, shown, device, lock, job, wire>>

StillConnected(command) == command.origin.link # None
StillWanted(command) == command.origin.link # None /\ command.origin = Now

\* _control_loop: a command that waited too long or whose inverter changed meanwhile
\* is dropped; execute takes the session and context anew.
TakeCommand(aged) ==
    LET command == Head(queue)
    IN  /\ job[Loop].pc = "idle"
        /\ queue # <<>>
        /\ queue' = Tail(queue)
        /\ \/ /\ aged \/ ~StillWanted(command)
              /\ job' = [job EXCEPT ![Loop].pc = "nothing sent"]
           \/ /\ ~aged /\ StillWanted(command)
              /\ job' = [job EXCEPT ![Loop] =
                           [NoJob EXCEPT !.pc = "lock", !.kind = command.kind, !.key = command.key,
                                         !.part = command.part, !.val = command.val,
                                         !.origin = command.origin, !.checked = Now]]
        /\ UNCHANGED <<inverter, foreign, shown, device, lock, wire>>

\* schedule_action, until it waits for the lock. What the editor expects of the
\* period is whatever its page showed.
EditorCalls(e, kind, key, target, expected) ==
    /\ job[e].pc = "idle"
    /\ key \in Offered
    /\ job' = [job EXCEPT ![e] =
                 [NoJob EXCEPT !.pc = "lock", !.kind = kind, !.key = key, !.target = target,
                               !.expected = expected, !.origin = Now, !.checked = Now]]
    /\ UNCHANGED <<inverter, foreign, shown, device, lock, queue, wire>>

Fetching(j) ==
    [j EXCEPT !.pc = "fetch", !.todo = SetToSeq(Offered), !.checked = Now, !.by = link]

\* _refresh_loop finds the refresh due, and its turn on the lock comes.
RefreshIsDue ==
    /\ link # None
    /\ LockFree /\ job[Refresher].pc = "idle"
    /\ lock' = Refresher
    /\ job' = [job EXCEPT ![Refresher] = Fetching(NoJob)]
    /\ UNCHANGED <<inverter, foreign, shown, device, queue, wire>>

\* The first step under the lock, up to the first request.
TakeLock(p) ==
    LET j == job[p]
        Begins(next) == lock' = p /\ job' = [job EXCEPT ![p] = next] /\ UNCHANGED wire
    IN  /\ j.pc = "lock"
        /\ LockFree
        /\ \/ /\ j.kind = "refresh"
              /\ Begins(Fetching(j))
           \/ j.kind # "refresh" /\ Ends(p, "nothing sent")
           \/ /\ j.kind \in {"set", "edit"}
              /\ Current(p)
              /\ j.key \notin Offered \/ shown[j.key] = Unknown
              /\ Ends(p, "failed")
           \/ /\ j.kind \in {"set", "edit"}
              /\ Current(p)
              /\ j.key \in Offered /\ shown[j.key] # Unknown
              /\ Begins(IF j.kind = "set"
                        THEN [j EXCEPT !.pc = "write", !.target = ("value" :> j.val), !.by = link]
                        ELSE [j EXCEPT !.pc = "current", !.by = link])
           \/ /\ j.kind \in {"editorRead", "editorWrite"}
              /\ Current(p)
              /\ Begins([j EXCEPT !.pc = IF j.kind = "editorRead" THEN "read" ELSE "compare",
                                  !.by = link])
        /\ UNCHANGED <<inverter, foreign, shown, device, queue>>

-----------------------------------------------------------------------------
(* Requests to the datalogger and their replies *)

Reads(pc) == pc \in {"current", "compare", "confirm", "read", "fetch"}
ReadKey(p) == IF job[p].pc = "fetch" THEN Head(job[p].todo) ELSE job[p].key

\* Relay.command keeps the session it was called with, and asks over no other. A request
\* is in progress until its caller has heard how it ended.
Asks(p) == Reads(job[p].pc) \/ job[p].pc = "write"
Reachable(p) == job[p].by # None /\ job[p].by = link

\* read_setting and read_period: the inverter answers, and the reply is on its way.
InverterReads(p) ==
    /\ wire[p] = Quiet /\ Reachable(p)
    /\ Reads(job[p].pc) /\ (job[p].pc = "fetch" => job[p].todo # <<>>)
    /\ LET key == ReadKey(p)
       IN  wire' = [wire EXCEPT ![p] = [state |-> "read", key |-> key, held |-> inverter[key],
                                        seen |-> foreign[key], under |-> corrected]]
    /\ UNCHANGED <<inverter, foreign, shown, device, lock, queue, job>>

\* The write of write_setting or write_period: the transport calls before_send at the
\* moment of sending, after a look at its own connection.
SendWrite(p) ==
    /\ wire[p] = Quiet
    /\ job[p].pc = "write"
    /\ \/ /\ Reachable(p) /\ Current(p)
          /\ wire' = [wire EXCEPT ![p] = [Quiet EXCEPT !.state = "writing", !.key = job[p].key,
                                                       !.held = job[p].target]]
          /\ job' = [job EXCEPT ![p].sent = TRUE]
          /\ UNCHANGED <<shown, lock>>
       \/ Reachable(p) /\ EndsForgetting(p, "nothing sent")
       \/ ~Reachable(p) /\ EndsForgetting(p, "failed")
    /\ UNCHANGED <<inverter, foreign, device, queue>>

\* The inverter acknowledges the write, which may yet not take effect.
InverterWrites(p) ==
    /\ wire[p].state = "writing"
    /\ Reachable(p)
    /\ wire' = [wire EXCEPT ![p].state = "written"]
    /\ \/ inverter' = [inverter EXCEPT ![wire[p].key] = wire[p].held]
       \/ UNCHANGED inverter
    /\ UNCHANGED <<foreign, shown, device, lock, queue, job>>

\* How a request ends for its caller. The reply may not come in time or be lost on its
\* way; it may say no, or the connection may break.
Failures == {"timeout", "refused"}
Heard(p, pc, how) ==
    /\ job[p].pc = pc
    /\ \/ how = "done" /\ wire[p].state \in {"read", "written"}
       \/ how \in Failures

-----------------------------------------------------------------------------
(* What a job does with a reply *)

\* execute has read the period whose field it is to change, and enters write_period.
HeardCurrent(p, how) ==
    /\ Heard(p, "current", how)
    /\ \/ how \in Failures /\ Ends(p, "failed") /\ UNCHANGED shown
       \/ /\ how = "done"
          /\ ContinuesIfCurrent(p,
                [job[p] EXCEPT !.pc = "compare", !.expected = wire[p].held,
                               !.target = [wire[p].held EXCEPT ![job[p].part] = job[p].val],
                               !.by = link])
    /\ UNCHANGED <<inverter, foreign, device, queue>>

AsItIs(p) == TRUE
AsExpected(p) == wire[p].held = job[p].expected

\* write_period compares the period with what the change started from.
HeardComparison(p, how) ==
    /\ Heard(p, "compare", how)
    /\ \/ how \in Failures /\ EndsForgetting(p, "failed")
       \/ how = "done" /\ ~AsExpected(p) /\ EndsForgetting(p, "failed")
       \/ /\ how = "done" /\ AsExpected(p)
          /\ Continues(p, [job[p] EXCEPT !.pc = "write", !.seen = wire[p].seen, !.by = link])
    /\ UNCHANGED <<inverter, foreign, device, queue>>

\* A write was acknowledged: confirm_read follows, after a call of before_send.
HeardWritten(p, how) ==
    /\ Heard(p, "write", how) /\ wire[p] # Quiet
    /\ \/ how = "done" /\ ContinuesIfCurrent(p, [job[p] EXCEPT !.pc = "confirm", !.tries = 1,
                                                                !.by = link])
       \/ how \in Failures /\ EndsForgetting(p, "failed")
    /\ UNCHANGED <<inverter, foreign, device, queue>>

Attempts == 3
TriesAgain(p) == job[p].tries < Attempts

\* One of three readings that may confirm the write. No answer and another content both
\* lead to the next reading, after a pause.
HeardConfirmation(p, how) ==
    /\ Heard(p, "confirm", how)
    /\ \/ how = "done" /\ wire[p].held = job[p].target /\ Shows(p) /\ Ends(p, "done")
       \/ /\ how = "timeout" \/ (how = "done" /\ wire[p].held # job[p].target)
          /\ IF TriesAgain(p) THEN Continues(p, [job[p] EXCEPT !.pc = "pause"])
                              ELSE EndsForgetting(p, "failed")
       \/ how = "refused" /\ EndsForgetting(p, "failed")
    /\ UNCHANGED <<inverter, foreign, device, queue>>

Resume(p) ==
    /\ job[p].pc = "pause"
    /\ ContinuesIfCurrent(p, [job[p] EXCEPT !.pc = "confirm", !.tries = @ + 1, !.by = link])
    /\ UNCHANGED <<inverter, foreign, device, queue>>

\* schedule_action's reading for the editor, which is kept if nothing changed meanwhile.
HeardReading(p, how) ==
    /\ Heard(p, "read", how)
    /\ \/ how = "done" /\ Current(p) /\ Shows(p)
       \/ UNCHANGED shown
    /\ Ends(p, "done")
    /\ UNCHANGED <<inverter, foreign, device, queue>>

\* One reading of refresh: a failed one takes the setting off the page, and one that
\* finds another profile ends the refresh.
HeardFetched(p, how) ==
    LET otherProfile == profile # job[p].checked.context[1]
    IN  /\ Heard(p, "fetch", how) /\ job[p].todo # <<>>
        /\ \/ how \in Failures /\ shown' = [shown EXCEPT ![ReadKey(p)] = Unknown]
           \/ how = "done" /\ otherProfile /\ UNCHANGED shown
           \/ how = "done" /\ ~otherProfile /\ Shows(p)
        /\ job' = [job EXCEPT ![p].todo = IF how = "done" /\ otherProfile THEN <<>> ELSE Tail(@),
                              ![p].by = link]
        /\ wire' = [wire EXCEPT ![p] = Quiet]
        /\ UNCHANGED <<inverter, foreign, device, lock, queue>>

\* publish_status with the outcome as command_result.
Publish ==
    /\ job[Loop].pc \in Outcomes
    /\ job' = [job EXCEPT ![Loop] = NoJob]
    /\ UNCHANGED <<inverter, foreign, shown, device, lock, queue, wire>>

RefreshEnds(p) ==
    /\ job[p].pc = "fetch" /\ job[p].todo = <<>>
    /\ Ends(p, "done")
    /\ UNCHANGED <<inverter, foreign, shown, device, queue>>

-----------------------------------------------------------------------------
(* What happens around the jobs *)

Trouble == troubles < MaxTroubles /\ troubles' = troubles + 1

\* The cloud changes a setting, or a write that was given up on arrives after all.
CloudWrites(key, content) ==
    /\ Trouble
    /\ content # inverter[key]
    /\ inverter' = [inverter EXCEPT ![key] = content]
    /\ foreign' = [foreign EXCEPT ![key] = @ + 1]
    /\ UNCHANGED <<shown, link, profile, records, lock, queue, job, wire>>

\* The datalogger disconnects; a later connection of it is another session.
Disconnect ==
    /\ Trouble
    /\ link # None
    /\ link' = None
    /\ UNCHANGED <<inverter, foreign, shown, profile, records, lock, queue, job, wire>>

\* Its key may be an earlier one's, but not that of the connection it takes over from,
\* nor of one that a request still refers to.
Connect(k) ==
    /\ IF link = None THEN UNCHANGED troubles ELSE Trouble
    /\ link # k /\ \A p \in Processes : Asks(p) => job[p].by # k
    /\ link' = k
    /\ UNCHANGED <<inverter, foreign, shown, profile, records, lock, queue, job, wire>>

Forgets == shown' = [k \in Keys |-> Unknown]

\* remember: a measurement decoded with another profile clears what was read under the
\* former one. It does not wait for the lock.
Remember(p) ==
    /\ Trouble
    /\ p # profile
    /\ profile' = p
    /\ Forgets
    /\ UNCHANGED <<inverter, foreign, link, records, lock, queue, job, wire>>

\* The app's options are changed from outside. They are not in use yet.
EditOptions(new) ==
    /\ Trouble
    /\ new # stored /\ stored' = new
    /\ UNCHANGED <<inverter, foreign, shown, link, profile, details, corrected, lock, queue,
                   job, wire>>

\* A save for this inverter: what was known of its model or firmware turns out otherwise.
Corrects(seen) ==
    /\ corrected' = IF seen THEN corrected + 1 ELSE corrected
    /\ seen => Forgets

OtherFirmware(firmware) == details.firmware \notin {None, firmware}

\* Under the lock, the web page reads the firmware and stores it. All hardware entries
\* now come from the app's options, the model's as well, but only another firmware than
\* the known one clears the settings read so far.
SaveFirmware(firmware) ==
    LET new == [stored EXCEPT !.firmware = firmware, !.controls = details.controls]
    IN  /\ LockFree
        /\ Trouble
        /\ stored' = new /\ details' = new
        /\ Corrects(OtherFirmware(firmware))
        /\ ~OtherFirmware(firmware) => UNCHANGED shown
        /\ UNCHANGED <<inverter, foreign, link, profile, lock, queue, job, wire>>

\* Under the lock, the web page saves the inverter's entries. With another family, which
\* is not kept here, or another selection it offers nothing until the next measurement.
SaveProfile(new, otherFamily) ==
    LET profileChanged == otherFamily \/ new.controls # details.controls
        correction == new.model # details.model \/ OtherFirmware(new.firmware)
    IN  /\ LockFree
        /\ Trouble
        /\ stored' = new /\ details' = new
        /\ Corrects(correction)
        /\ IF profileChanged THEN profile' = Pending /\ Forgets ELSE UNCHANGED profile
        /\ ~profileChanged /\ ~correction => UNCHANGED shown
        /\ UNCHANGED <<inverter, foreign, link, lock, queue, job, wire>>

\* The page saves the entries, or reads the firmware, of another inverter, under that
\* one's lock: what is stored for this one comes into use too, and clears nothing.
SaveOther(new) ==
    /\ Trouble
    /\ new # details /\ details' = new
    /\ UNCHANGED <<inverter, foreign, shown, link, profile, stored, corrected, lock, queue,
                   job, wire>>

-----------------------------------------------------------------------------

Init ==
    /\ inverter = [k \in Keys |-> [part \in Parts(k) |-> 0]]
    /\ foreign = [k \in Keys |-> 0]
    /\ shown = [k \in Keys |-> Unknown]
    /\ link = FirstKey /\ troubles = 0
    /\ profile = First
    /\ \E r \in Recorded : details = r.active /\ stored = r.stored
    /\ corrected = 0
    /\ lock = None
    /\ queue = <<>>
    /\ job = [p \in Processes |-> NoJob]
    /\ wire = [p \in Processes |-> Quiet]

Commands ==
    \E w \in Wishes : Enqueue(w.kind, w.key, w.part, w.val)

Calls(e) == \E k \in Periods, page \in Pages :
    \/ EditorCalls(e, "editorRead", k, <<>>, <<>>)
    \/ EditorCalls(e, "editorWrite", k, page.target, page.expected)

Hears(p, how) ==
    \/ HeardCurrent(p, how)
    \/ HeardComparison(p, how)
    \/ HeardWritten(p, how)
    \/ HeardConfirmation(p, how)
    \/ HeardReading(p, how)
    \/ HeardFetched(p, how)

Steps(p) ==
    \/ TakeLock(p)
    \/ SendWrite(p)
    \/ Resume(p)
    \/ RefreshEnds(p)
    \/ p = Loop /\ Publish
    \/ \E how \in Failures \cup {"done"} : Hears(p, how)

Next ==
    \/ Commands
    \/ \E aged \in BOOLEAN : TakeCommand(aged)
    \/ \E e \in Editors : Calls(e)
    \/ RefreshIsDue
    \/ \E p \in Processes :
        \/ Steps(p)
        \/ InverterReads(p)
        \/ InverterWrites(p)
    \/ \E k \in Keys : \E part \in Parts(k), v \in 0..1 :
            CloudWrites(k, [inverter[k] EXCEPT ![part] = v])
    \/ Disconnect
    \/ \E k \in SessionKeys : Connect(k)
    \/ \E p \in Profiles : Remember(p)
    \/ \E new \in Entered, otherFamily \in BOOLEAN : SaveProfile(new, otherFamily)
    \/ \E new \in Entered : EditOptions(new)
    \/ \E firmware \in Firmwares : SaveFirmware(firmware)
    \/ \E new \in {stored, [stored EXCEPT !.controls = details.controls]} : SaveOther(new)

Spec == Init /\ [][Next]_vars

-----------------------------------------------------------------------------
(* Properties *)

Sends(p) == wire'[p].state = "writing" /\ wire[p].state # "writing"

\* A user's change is sent once, and only while the session key, the profile and the
\* details are those under which the user gave it. The key is all that is compared: a
\* connection that was given the key of the former one passes for it, and the change
\* goes over another connection than the user's.
SentOnceWhileCurrent == [][\A p \in Processes :
    Sends(p) => ~job[p].sent /\ job[p].origin = Now]_vars

\* A change of a period starts from what the inverter holds: unless something outside
\* wrote the period after the last look, no field changed in the meantime is
\* overwritten. A stale editor cannot undo another change, nor can two changes of
\* different fields undo each other.
NoLostUpdate == [][\A p \in Processes :
    Sends(p) /\ job[p].key \in Periods =>
        \/ inverter[job[p].key] = job[p].expected
        \/ foreign[job[p].key] # job[p].seen]_vars

\* While nobody works on the settings, whatever is shown is what the inverter holds,
\* unless it was written from outside since; and it was read after the last save for
\* this inverter that found its model or known firmware to be others. Details that came
\* into use by a save for another inverter, or beside the firmware, are not meant: what
\* was read before stays shown.
ShownIsCurrent == lock = None => \A k \in Keys : shown[k] # Unknown =>
    /\ shown[k].seen = foreign[k] => shown[k].held = inverter[k]
    /\ shown[k].under = corrected

\* "Command expired or the connection/model changed; nothing sent" (ha_features.py):
\* where a command ends with these words, nothing was sent.
NothingSentMeansNothingSent == \A p \in Processes : job[p].pc = "nothing sent" => ~job[p].sent
=============================================================================
