---------------------------- MODULE ControlsProofs ----------------------------
(***************************************************************************)
(* Setting changes, for any settings, periods, editors and bounds.         *)
(***************************************************************************)
EXTENDS Controls, SequenceTheorems, TLAPS

Details == [controls : Selections, model : Models, firmware : Firmwares \cup {None}]
Links == SessionKeys \cup {None}
Origins == [link : Links, context : (Profiles \cup {Pending}) \X Details]
Command == {[kind |-> w.kind, key |-> w.key, part |-> w.part, val |-> w.val, origin |-> o] :
              w \in Wishes, o \in Origins}

\* Contents are compared but never calculated with: of jobs, requests and
\* readings only the fields are fixed.
Jobs(S) == [pc : S, kind : S, key : S, part : S, val : S, target : S, expected : S, seen : S,
            origin : S, checked : S, by : S, tries : S, sent : S, todo : S]
Requests(S) == [state : S, key : S, held : S, seen : S, under : S]
IsJob(j) == \E S : j \in Jobs(S)
IsRequest(w) == \E S : w \in Requests(S)

Typed ==
  /\ inverter = [k \in Keys |-> inverter[k]] /\ shown = [k \in Keys |-> shown[k]]
  /\ foreign \in [Keys -> Nat] /\ details \in Details /\ stored \in Details
  /\ corrected \in Nat /\ link \in Links /\ profile \in Profiles \cup {Pending}
  /\ lock \in Processes \cup {None}
  /\ queue \in Seq(Command)
  /\ job = [p \in Processes |-> job[p]] /\ \A p \in Processes : IsJob(job[p])
  /\ wire = [p \in Processes |-> wire[p]] /\ \A p \in Processes : IsRequest(wire[p])

Working == {"current", "compare", "write", "confirm", "pause", "read", "fetch"}
Changing == {"current", "compare", "write", "confirm", "pause"}
Writing == {"write", "confirm", "pause"}
Changes == {"set", "edit", "editorWrite"}

LEMMA NoJobIsOne ==
  /\ IsJob(NoJob) /\ NoJob.pc = "idle" /\ NoJob.kind = "refresh" /\ ~NoJob.sent
  /\ IsRequest(Quiet) /\ Quiet.state = "quiet"
  <1>1. IsJob(NoJob)
    <2> DEFINE S == {"idle", "refresh", None, "value", 0, <<>>, NoOrigin, FALSE}
    <2>1. NoJob \in Jobs(S)
      BY DEF NoJob, Jobs
    <2> QED BY <2>1 DEF IsJob
  <1>2. IsRequest(Quiet)
    <2> DEFINE S == {"quiet", None, <<>>, 0}
    <2>1. Quiet \in Requests(S)
      BY DEF Quiet, Requests
    <2> QED BY <2>1 DEF IsRequest
  <1> QED BY <1>1, <1>2 DEF NoJob, Quiet

\* The fields of a job that no step but its first changes.
Same(n, j) ==
  /\ n.kind = j.kind /\ n.key = j.key /\ n.origin = j.origin
Alike(n, j) == Same(n, j) /\ n.checked = j.checked /\ n.sent = j.sent

\* What the steps make of a job.
At(j, x) == [j EXCEPT !.pc = x]
Going(j, x) == [j EXCEPT !.pc = x, !.by = link]
Trying(j, x, y) == [j EXCEPT !.pc = x, !.tries = y, !.by = link]
Aiming(j, x, y) == [j EXCEPT !.pc = x, !.target = y, !.by = link]
Looking(j, x, y) == [j EXCEPT !.pc = x, !.seen = y, !.by = link]
Planning(j, x, y, z) == [j EXCEPT !.pc = x, !.expected = y, !.target = z, !.by = link]
Listing(j, x, y, z) == [j EXCEPT !.pc = x, !.todo = y, !.checked = z, !.by = link]
Left(j, x) == [j EXCEPT !.todo = x, !.by = link]
Sent(j, x) == [j EXCEPT !.sent = x]
Ended(x, y) == [NoJob EXCEPT !.pc = x, !.sent = y]

\* A job after one of its steps is a job, and differs from it where the step says.
Fits(j, x, y, z) ==
  /\ IsJob(At(j, x)) /\ Alike(At(j, x), j) /\ At(j, x).pc = x
  /\ IsJob(Going(j, x)) /\ Alike(Going(j, x), j) /\ Going(j, x).pc = x
  /\ IsJob(Trying(j, x, y)) /\ Alike(Trying(j, x, y), j) /\ Trying(j, x, y).pc = x
  /\ IsJob(Aiming(j, x, y)) /\ Alike(Aiming(j, x, y), j) /\ Aiming(j, x, y).pc = x
  /\ IsJob(Looking(j, x, y)) /\ Alike(Looking(j, x, y), j) /\ Looking(j, x, y).pc = x
  /\ Looking(j, x, y).seen = y /\ Looking(j, x, y).expected = j.expected
  /\ IsJob(Planning(j, x, y, z)) /\ Alike(Planning(j, x, y, z), j)
  /\ Planning(j, x, y, z).pc = x
  /\ IsJob(Listing(j, x, y, z)) /\ Same(Listing(j, x, y, z), j)
  /\ Listing(j, x, y, z).sent = j.sent /\ Listing(j, x, y, z).pc = x
  /\ IsJob(Left(j, x)) /\ Alike(Left(j, x), j) /\ Left(j, x).pc = j.pc
  /\ IsJob(Sent(j, x)) /\ Same(Sent(j, x), j) /\ Sent(j, x).checked = j.checked
  /\ Sent(j, x).pc = j.pc /\ Sent(j, x).sent = x

LEMMA JobChanges ==
  ASSUME NEW j, IsJob(j), NEW x, NEW y, NEW z
  PROVE  Fits(j, x, y, z)
  <1>1. PICK S : j \in Jobs(S)
    BY DEF IsJob
  <1> DEFINE T == S \cup {x, y, z, link}
  <1>2. j \in Jobs(T) /\ x \in T /\ y \in T /\ z \in T /\ link \in T
    BY <1>1 DEF Jobs
  <1>3. \A n : n \in Jobs(T) => IsJob(n)
    BY DEF IsJob
  <1> HIDE DEF T
  <1>4. At(j, x) \in Jobs(T) /\ Alike(At(j, x), j) /\ At(j, x).pc = x
    BY <1>2 DEF At, Jobs, Alike, Same
  <1>12. Going(j, x) \in Jobs(T) /\ Alike(Going(j, x), j) /\ Going(j, x).pc = x
    BY <1>2 DEF Going, Jobs, Alike, Same
  <1>5. /\ Trying(j, x, y) \in Jobs(T) /\ Alike(Trying(j, x, y), j)
        /\ Trying(j, x, y).pc = x
    BY <1>2 DEF Trying, Jobs, Alike, Same
  <1>6. /\ Aiming(j, x, y) \in Jobs(T) /\ Alike(Aiming(j, x, y), j)
        /\ Aiming(j, x, y).pc = x
    BY <1>2 DEF Aiming, Jobs, Alike, Same
  <1>7. /\ Looking(j, x, y) \in Jobs(T) /\ Alike(Looking(j, x, y), j)
        /\ Looking(j, x, y).pc = x
        /\ Looking(j, x, y).seen = y /\ Looking(j, x, y).expected = j.expected
    BY <1>2 DEF Looking, Jobs, Alike, Same
  <1>8. /\ Planning(j, x, y, z) \in Jobs(T) /\ Alike(Planning(j, x, y, z), j)
        /\ Planning(j, x, y, z).pc = x
    BY <1>2 DEF Planning, Jobs, Alike, Same
  <1>9. /\ Listing(j, x, y, z) \in Jobs(T) /\ Same(Listing(j, x, y, z), j)
        /\ Listing(j, x, y, z).sent = j.sent /\ Listing(j, x, y, z).pc = x
    BY <1>2 DEF Listing, Jobs, Same
  <1>10. Left(j, x) \in Jobs(T) /\ Alike(Left(j, x), j) /\ Left(j, x).pc = j.pc
    BY <1>2 DEF Left, Jobs, Alike, Same
  <1>11. /\ Sent(j, x) \in Jobs(T) /\ Same(Sent(j, x), j) /\ Sent(j, x).checked = j.checked
         /\ Sent(j, x).pc = j.pc /\ Sent(j, x).sent = x
    BY <1>2 DEF Sent, Jobs, Same
  <1> QED BY <1>3, <1>4, <1>5, <1>6, <1>7, <1>8, <1>9, <1>10, <1>11, <1>12 DEF Fits

LEMMA JobsChange ==
  ASSUME NEW j, IsJob(j)
  PROVE  /\ \A x : IsJob(At(j, x)) /\ Alike(At(j, x), j) /\ At(j, x).pc = x
         /\ \A x : IsJob(Going(j, x)) /\ Alike(Going(j, x), j) /\ Going(j, x).pc = x
         /\ \A x, y :
              /\ IsJob(Trying(j, x, y)) /\ Alike(Trying(j, x, y), j) /\ Trying(j, x, y).pc = x
              /\ IsJob(Aiming(j, x, y)) /\ Alike(Aiming(j, x, y), j) /\ Aiming(j, x, y).pc = x
              /\ IsJob(Looking(j, x, y)) /\ Alike(Looking(j, x, y), j) /\ Looking(j, x, y).pc = x
              /\ Looking(j, x, y).seen = y /\ Looking(j, x, y).expected = j.expected
         /\ \A x, y, z :
              /\ IsJob(Planning(j, x, y, z)) /\ Alike(Planning(j, x, y, z), j)
              /\ Planning(j, x, y, z).pc = x
              /\ IsJob(Listing(j, x, y, z)) /\ Same(Listing(j, x, y, z), j)
              /\ Listing(j, x, y, z).sent = j.sent /\ Listing(j, x, y, z).pc = x
         /\ \A x : IsJob(Left(j, x)) /\ Alike(Left(j, x), j) /\ Left(j, x).pc = j.pc
         /\ \A x : /\ IsJob(Sent(j, x)) /\ Same(Sent(j, x), j) /\ Sent(j, x).checked = j.checked
                   /\ Sent(j, x).pc = j.pc /\ Sent(j, x).sent = x
  <1>1. ASSUME NEW x
        PROVE  Fits(j, x, x, x)
    BY JobChanges
  <1>2. ASSUME NEW x, NEW y
        PROVE  Fits(j, x, y, x)
    BY JobChanges
  <1>3. ASSUME NEW x, NEW y, NEW z
        PROVE  Fits(j, x, y, z)
    BY JobChanges
  <1> QED BY <1>1, <1>2, <1>3 DEF Fits

\* The command loop's job as it ends.
LEMMA OutcomeIsKept ==
  ASSUME NEW x, NEW y
  PROVE  /\ IsJob(Ended(x, y)) /\ Ended(x, y).kind = "refresh"
         /\ Ended(x, y).pc = x /\ Ended(x, y).sent = y
  <1>1. PICK S : NoJob \in Jobs(S)
    BY NoJobIsOne DEF IsJob
  <1> DEFINE T == S \cup {x, y}
  <1>2. NoJob \in Jobs(T) /\ x \in T /\ y \in T
    BY <1>1 DEF Jobs
  <1> HIDE DEF T
  <1>3. /\ Ended(x, y) \in Jobs(T) /\ Ended(x, y).kind = "refresh"
        /\ Ended(x, y).pc = x /\ Ended(x, y).sent = y
    BY <1>2, NoJobIsOne DEF Ended, Jobs
  <1> QED BY <1>3 DEF IsJob

\* A request is one through its life.
Write(y, z) == [Quiet EXCEPT !.state = "writing", !.key = y, !.held = z]

LEMMA RequestsChange ==
  /\ \A w, x : IsRequest(w) =>
       LET n == [w EXCEPT !.state = x] IN
         IsRequest(n) /\ n.state = x /\ n.key = w.key /\ n.held = w.held
  /\ \A y, z : /\ IsRequest(Write(y, z)) /\ Write(y, z).state = "writing"
               /\ Write(y, z).key = y
  /\ \A a, b, c, d, e :
       IsRequest([state |-> a, key |-> b, held |-> c, seen |-> d, under |-> e])
  <1>1. ASSUME NEW w, NEW x, IsRequest(w)
        PROVE  LET n == [w EXCEPT !.state = x] IN
                 IsRequest(n) /\ n.state = x /\ n.key = w.key /\ n.held = w.held
    <2>1. PICK S : w \in Requests(S)
      BY <1>1 DEF IsRequest
    <2> DEFINE T == S \cup {x}
    <2>2. w \in Requests(T) /\ x \in T
      BY <2>1 DEF Requests
    <2> HIDE DEF T
    <2>3. LET n == [w EXCEPT !.state = x] IN
            n \in Requests(T) /\ n.state = x /\ n.key = w.key /\ n.held = w.held
      BY <2>2 DEF Requests
    <2> QED BY <2>3 DEF IsRequest
  <1>2. ASSUME NEW y, NEW z
        PROVE  IsRequest(Write(y, z)) /\ Write(y, z).state = "writing" /\ Write(y, z).key = y
    <2>1. PICK S : Quiet \in Requests(S)
      BY NoJobIsOne DEF IsRequest
    <2> DEFINE T == S \cup {"writing", y, z}
    <2>2. Quiet \in Requests(T) /\ "writing" \in T /\ y \in T /\ z \in T
      BY <2>1 DEF Requests
    <2> HIDE DEF T
    <2>3. Write(y, z) \in Requests(T) /\ Write(y, z).state = "writing" /\ Write(y, z).key = y
      BY <2>2 DEF Requests, Write
    <2> QED BY <2>3 DEF IsRequest
  <1>3. ASSUME NEW a, NEW b, NEW c, NEW d, NEW e
        PROVE  IsRequest([state |-> a, key |-> b, held |-> c, seen |-> d, under |-> e])
    <2> DEFINE T == {a, b, c, d, e}
    <2>1. [state |-> a, key |-> b, held |-> c, seen |-> d, under |-> e] \in Requests(T)
      BY DEF Requests
    <2> QED BY <2>1 DEF IsRequest
  <1> QED BY <1>1, <1>2, <1>3

\* A job that ended: the command loop keeps its outcome to tell it, and whether
\* anything was sent; the others keep nothing.
LEMMA EndsThere ==
  ASSUME Typed, NEW p \in Processes, NEW outcome \in Outcomes, Ends(p, outcome)
  PROVE  /\ job' = [q \in Processes |-> job'[q]] /\ wire' = [q \in Processes |-> wire'[q]]
         /\ IsJob(job'[p]) /\ wire'[p] = Quiet
         /\ job'[p].pc \in {"idle", outcome} /\ job'[p].kind = "refresh"
         /\ job'[p].sent => job'[p].pc \in Outcomes
         /\ \A q \in Processes \ {p} : job'[q] = job[q] /\ wire'[q] = wire[q]
         /\ lock' = IF lock = p THEN None ELSE lock
  <1>1. IsJob(job[p])
    BY DEF Typed
  <1>2. CASE p # Loop
    BY <1>2, NoJobIsOne DEF Ends, Typed
  <1>3. CASE p = Loop
    <2>1. job'[p] = Ended(outcome, job[p].sent)
      BY <1>3 DEF Ends, Typed, Ended
    <2>2. IsJob(job'[p]) /\ job'[p].kind = "refresh" /\ job'[p].pc = outcome
      BY <2>1, OutcomeIsKept
    <2> QED BY <1>3, <2>2 DEF Ends, Typed
  <1> QED BY <1>2, <1>3

LEMMA ContinuesThere ==
  ASSUME Typed, NEW p \in Processes, NEW next, Continues(p, next)
  PROVE  /\ job' = [q \in Processes |-> job'[q]] /\ wire' = [q \in Processes |-> wire'[q]]
         /\ job'[p] = next /\ wire'[p] = Quiet
         /\ \A q \in Processes \ {p} : job'[q] = job[q] /\ wire'[q] = wire[q]
         /\ lock' = lock /\ shown' = shown
  BY DEF Continues, Typed

-----------------------------------------------------------------------------
(* What holds between the steps.                                           *)

\* A job works under the lock; its request is that of its step.
TakesTurns(p) ==
  /\ job[p].pc \in Working <=> lock = p
  /\ wire[p].state \in {"quiet", "read", "writing", "written"}
  /\ wire[p].state # "quiet" => job[p].pc \in Working
  /\ wire[p].state \in {"writing", "written"} =>
       job[p].pc = "write" /\ wire[p].key = job[p].key
  /\ wire[p].state = "read" =>
       Reads(job[p].pc) /\ (job[p].pc # "fetch" => wire[p].key = job[p].key)

\* A change rests on one connection and context from its request to its end, and
\* is sent at one step only.
KnowsItsJob(p) ==
  /\ job[p].pc \in Changing => job[p].kind \in Changes
  /\ job[p].kind = "set" => job[p].key \in Settings /\ job[p].pc \notin {"current", "compare"}
  /\ job[p].kind \in Changes => job[p].origin = job[p].checked
  /\ job[p].sent => \/ job[p].pc \in {"confirm", "pause"} \cup Outcomes
                    \/ job[p].pc = "write" /\ wire[p].state # "quiet"

\* A content of a setting that was read is still the inverter's, unless the setting
\* was written from outside since.
Seen(k, held, seen) ==
  seen \in Nat /\ seen <= foreign[k] /\ (seen = foreign[k] => held = inverter[k])

Answered(p) ==
  wire[p].state = "read" /\ wire[p].key \in Keys =>
    Seen(wire[p].key, wire[p].held, wire[p].seen) /\ wire[p].under = corrected

Compared(p) ==
  job[p].pc = "write" /\ wire[p].state = "quiet" /\ job[p].key \in Periods =>
    Seen(job[p].key, job[p].expected, job[p].seen)

Works(p) == TakesTurns(p) /\ KnowsItsJob(p) /\ Answered(p) /\ Compared(p)

\* What is shown of a setting was read so, unless somebody is writing it.
BeingWritten(k) == \E p \in Processes : job[p].pc \in Writing /\ job[p].key = k
ShownSince(k) ==
  shown[k] # Unknown =>
    /\ shown[k].seen \in Nat /\ shown[k].seen <= foreign[k] /\ shown[k].under = corrected
    /\ BeingWritten(k) \/ Seen(k, shown[k].held, shown[k].seen)

IInv ==
  /\ Typed
  /\ \A p \in Processes : Works(p)
  /\ \A k \in Keys : ShownSince(k)

\* What others do does not touch a job while the inverter is left alone.
LEMMA OthersWork ==
  ASSUME IInv, NEW q \in Processes, job'[q] = job[q], wire'[q] = wire[q], lock' = q <=> lock = q,
         UNCHANGED <<inverter, foreign, corrected>>
  PROVE  Works(q)'
  <1>1. Works(q)
    BY DEF IInv
  <1>3. \A k, held, seen : Seen(k, held, seen)' <=> Seen(k, held, seen)
    BY DEF Seen
  <1>4. TakesTurns(q)'
    BY <1>1 DEF Works, TakesTurns
  <1>5. KnowsItsJob(q)'
    BY <1>1 DEF Works, KnowsItsJob
  <1>6. Answered(q)'
    BY <1>1 DEF Works, Answered, Seen
  <1>7. Compared(q)'
    BY <1>1 DEF Works, Compared, Seen
  <1> QED BY <1>4, <1>5, <1>6, <1>7 DEF Works

LEMMA ShownStays ==
  ASSUME IInv, NEW k \in Keys, shown'[k] \in {shown[k], Unknown},
         UNCHANGED <<inverter, foreign, corrected>>,
         shown'[k] # Unknown /\ BeingWritten(k) => BeingWritten(k)'
  PROVE  ShownSince(k)'
  <1>1. ShownSince(k)
    BY DEF IInv
  <1> QED BY <1>1 DEF ShownSince, Seen

-----------------------------------------------------------------------------
(* Steps of a job.                                                         *)

\* A step of one process, which changes nothing of the device.
LEMMA TypedStep ==
  ASSUME Typed, NEW p \in Processes,
         job' = [q \in Processes |-> job'[q]], IsJob(job'[p]),
         wire' = [q \in Processes |-> wire'[q]], IsRequest(wire'[p]),
         \A q \in Processes \ {p} : job'[q] = job[q] /\ wire'[q] = wire[q],
         lock' \in Processes \cup {None},
         inverter' = [k \in Keys |-> inverter'[k]], shown' = [k \in Keys |-> shown'[k]],
         queue' \in Seq(Command), UNCHANGED <<foreign, device>>
  PROVE  Typed'
  <1>1. \A q \in Processes : IsJob(job'[q]) /\ IsRequest(wire'[q])
    BY DEF Typed
  <1> QED BY <1>1 DEF Typed, Command, Origins, device, records

\* Ending releases the lock and leaves a job without a request.
LEMMA EndsWork ==
  ASSUME IInv, NEW p \in Processes, NEW outcome \in Outcomes, Ends(p, outcome),
         UNCHANGED <<inverter, foreign, corrected>>
  PROVE  \A q \in Processes : Works(q)'
  <1>1. Typed
    BY DEF IInv
  <1>2. None \notin Processes
    BY NamesAssumption DEF Processes
  <1>3. /\ wire'[p] = Quiet /\ job'[p].pc \in {"idle", outcome} /\ job'[p].kind = "refresh"
        /\ job'[p].sent => job'[p].pc \in Outcomes
        /\ \A q \in Processes \ {p} : job'[q] = job[q] /\ wire'[q] = wire[q]
        /\ lock' = IF lock = p THEN None ELSE lock
    BY <1>1, EndsThere
  <1>4. ASSUME NEW q \in Processes, q # p
        PROVE  Works(q)'
    BY <1>2, <1>3, <1>4, OthersWork
  <1>5. Works(p)'
    <2>1. TakesTurns(p)'
      BY <1>2, <1>3, NoJobIsOne DEF TakesTurns, Working, Outcomes
    <2>2. KnowsItsJob(p)'
      BY <1>3 DEF KnowsItsJob, Changing, Changes, Outcomes
    <2>3. Answered(p)' /\ Compared(p)'
      BY <1>3, NoJobIsOne DEF Answered, Compared, Outcomes
    <2> QED BY <2>1, <2>2, <2>3 DEF Works
  <1> QED BY <1>4, <1>5

\* What is shown outlives the end of a job that was not writing it.
LEMMA EndsShown ==
  ASSUME IInv, NEW p \in Processes, NEW outcome \in Outcomes, Ends(p, outcome),
         UNCHANGED <<inverter, foreign, corrected>>,
         NEW k \in Keys, shown'[k] \in {shown[k], Unknown},
         shown'[k] # Unknown => job[p].pc \notin Writing \/ job[p].key # k
  PROVE  ShownSince(k)'
  <1>1. \A q \in Processes \ {p} : job'[q] = job[q]
    BY EndsThere DEF IInv
  <1>2. shown'[k] # Unknown /\ BeingWritten(k) => BeingWritten(k)'
    BY <1>1 DEF BeingWritten
  <1> QED BY <1>2, ShownStays

LEMMA EndsTyped ==
  ASSUME Typed, NEW p \in Processes, NEW outcome \in Outcomes, Ends(p, outcome),
         shown' = [k \in Keys |-> shown'[k]], UNCHANGED <<inverter, foreign, device, queue>>
  PROVE  Typed'
  <1>1. lock' \in Processes \cup {None}
    BY EndsThere DEF Typed
  <1>2. inverter' = [k \in Keys |-> inverter'[k]] /\ queue' \in Seq(Command)
    BY DEF Typed
  <1> QED BY <1>1, <1>2, EndsThere, NoJobIsOne, TypedStep

LEMMA EndsShowingKeeps ==
  ASSUME IInv, NEW p \in Processes, NEW outcome \in Outcomes, EndsShowing(p, outcome),
         job[p].pc \notin Writing, UNCHANGED <<inverter, foreign, device, queue>>
  PROVE  IInv'
  <1>1. Ends(p, outcome) /\ UNCHANGED <<inverter, foreign, corrected>> /\ shown' = shown
    BY DEF EndsShowing, device, records
  <1>2. Typed'
    BY <1>1, EndsTyped DEF IInv, Typed
  <1> QED BY <1>1, <1>2, EndsWork, EndsShown DEF IInv

LEMMA EndsForgettingKeeps ==
  ASSUME IInv, NEW p \in Processes, NEW outcome \in Outcomes, EndsForgetting(p, outcome),
         UNCHANGED <<inverter, foreign, device, queue>>
  PROVE  IInv'
  <1>1. Ends(p, outcome) /\ UNCHANGED <<inverter, foreign, corrected>>
    BY DEF EndsForgetting, device, records
  <1>2. /\ shown' = [k \in Keys |-> shown'[k]]
        /\ \A k \in Keys : shown'[k] = IF k = job[p].key THEN Unknown ELSE shown[k]
    BY DEF EndsForgetting, IInv, Typed
  <1>3. Typed'
    BY <1>1, <1>2, EndsTyped DEF IInv
  <1>4. ASSUME NEW k \in Keys
        PROVE  ShownSince(k)'
    BY <1>1, <1>2, EndsShown
  <1> QED BY <1>1, <1>3, <1>4, EndsWork DEF IInv

\* A change goes on to its next step, which does not look at the setting anew
\* without having compared it.
LEMMA ContinuesKeeps ==
  ASSUME IInv, NEW p \in Processes, NEW next, Continues(p, next),
         IsJob(next), Alike(next, job[p]), job[p].pc \in Changing, next.pc \in Changing,
         job[p].pc \in Writing => next.pc \in Writing,
         next.kind = "set" => next.pc \notin {"current", "compare"},
         next.sent => next.pc \in {"confirm", "pause"},
         next.pc = "write" /\ next.key \in Periods => Seen(next.key, next.expected, next.seen),
         UNCHANGED <<inverter, foreign, device, queue>>
  PROVE  IInv'
  <1>1. /\ job' = [q \in Processes |-> job'[q]] /\ wire' = [q \in Processes |-> wire'[q]]
        /\ job'[p] = next /\ wire'[p] = Quiet
        /\ \A q \in Processes \ {p} : job'[q] = job[q] /\ wire'[q] = wire[q]
        /\ lock' = lock /\ shown' = shown
    BY ContinuesThere DEF IInv
  <1>2. Works(p)
    BY DEF IInv
  <1>3. Changing \subseteq Working
    BY DEF Changing, Working
  <1>4. Typed'
    BY <1>1, NoJobIsOne, TypedStep DEF IInv, Typed
  <1>5. ASSUME NEW q \in Processes, q # p
        PROVE  Works(q)'
    BY <1>1, <1>5, OthersWork DEF device, records
  <1>6. Works(p)'
    <2>1. TakesTurns(p)'
      BY <1>1, <1>2, <1>3, NoJobIsOne DEF Works, TakesTurns
    <2>2. KnowsItsJob(p)'
      BY <1>1, <1>2, NoJobIsOne DEF Works, KnowsItsJob, Alike, Same
    <2>3. Answered(p)' /\ Compared(p)'
      BY <1>1, NoJobIsOne DEF Answered, Compared, Seen
    <2> QED BY <2>1, <2>2, <2>3 DEF Works
  <1>7. ASSUME NEW k \in Keys
        PROVE  ShownSince(k)'
    <2>1. BeingWritten(k) => BeingWritten(k)'
      BY <1>1 DEF BeingWritten, Alike, Same
    <2> QED BY <1>1, <2>1, ShownStays DEF device, records
  <1> QED BY <1>4, <1>5, <1>6, <1>7 DEF IInv

LEMMA ContinuesIfCurrentKeeps ==
  ASSUME IInv, NEW p \in Processes, NEW next, ContinuesIfCurrent(p, next),
         IsJob(next), Alike(next, job[p]), job[p].pc \in Changing, next.pc \in Changing,
         job[p].pc \in Writing => next.pc \in Writing,
         next.kind = "set" => next.pc \notin {"current", "compare"},
         next.sent => next.pc \in {"confirm", "pause"},
         next.pc # "write", UNCHANGED <<inverter, foreign, device, queue>>
  PROVE  IInv'
  <1>1. CASE Continues(p, next)
    BY <1>1, ContinuesKeeps
  <1>2. CASE EndsForgetting(p, "nothing sent")
    BY <1>2, EndsForgettingKeeps DEF Outcomes
  <1> QED BY <1>1, <1>2 DEF ContinuesIfCurrent

\* The holder of the lock ends with what it read of its setting on the page.
LEMMA EndsShowingReadingKeeps ==
  ASSUME IInv, NEW p \in Processes, NEW outcome \in Outcomes, Ends(p, outcome), Shows(p),
         wire[p].state = "read", wire[p].key = job[p].key,
         UNCHANGED <<inverter, foreign, device, queue>>
  PROVE  IInv'
  <1>1. UNCHANGED <<inverter, foreign, corrected>>
    BY DEF device, records
  <1>2. /\ shown' = [k \in Keys |-> shown'[k]]
        /\ \A k \in Keys : shown'[k] = IF k = job[p].key THEN Reading(p) ELSE shown[k]
    BY DEF Shows, IInv, Typed
  <1>3. Typed'
    BY <1>2, EndsTyped DEF IInv
  <1>4. ASSUME NEW k \in Keys
        PROVE  ShownSince(k)'
    <2>1. CASE k = job[p].key
      <3>1. Seen(k, wire[p].held, wire[p].seen) /\ wire[p].under = corrected
        BY <2>1 DEF IInv, Works, Answered
      <3>2. shown'[k].held = wire[p].held /\ shown'[k].seen = wire[p].seen
            /\ shown'[k].under = wire[p].under
        BY <1>2, <2>1 DEF Reading
      <3> QED BY <1>1, <3>1, <3>2 DEF ShownSince, Seen
    <2>2. CASE k # job[p].key
      BY <1>1, <1>2, <2>2, EndsShown
    <2> QED BY <2>1, <2>2
  <1> QED BY <1>1, <1>3, <1>4, EndsWork DEF IInv

\* A job begins its work under the free lock.
LEMMA BeginsKeeps ==
  ASSUME IInv, NEW p \in Processes, NEW next, LockFree, lock' = p,
         job' = [job EXCEPT ![p] = next],
         IsJob(next), next.pc \in Working, ~next.sent,
         next.pc \in Changing => next.kind \in Changes,
         next.kind = "set" => next.key \in Settings /\ next.pc \notin {"current", "compare"},
         next.kind \in Changes => next.origin = next.checked,
         next.pc = "write" => next.key \notin Periods,
         UNCHANGED <<inverter, foreign, shown, device, queue, wire>>
  PROVE  IInv'
  <1>1. None \notin Processes
    BY NamesAssumption DEF Processes
  <1>2. /\ job' = [q \in Processes |-> job'[q]] /\ wire' = [q \in Processes |-> wire'[q]]
        /\ job'[p] = next /\ \A q \in Processes \ {p} : job'[q] = job[q]
    BY DEF IInv, Typed
  <1>3. Typed'
    BY <1>2, TypedStep DEF IInv, Typed
  <1>4. ASSUME NEW q \in Processes, q # p
        PROVE  Works(q)'
    BY <1>1, <1>2, <1>4, OthersWork DEF LockFree, device, records
  <1>5. wire[p].state = "quiet" /\ job[p].pc \notin Working
    BY <1>1 DEF IInv, Works, TakesTurns, LockFree
  <1>6. Works(p)'
    <2>1. TakesTurns(p)'
      BY <1>2, <1>5 DEF TakesTurns
    <2>2. KnowsItsJob(p)'
      BY <1>2 DEF KnowsItsJob
    <2>3. Answered(p)' /\ Compared(p)'
      BY <1>2, <1>5 DEF Answered, Compared
    <2> QED BY <2>1, <2>2, <2>3 DEF Works
  <1>7. ASSUME NEW k \in Keys
        PROVE  ShownSince(k)'
    <2>1. BeingWritten(k) => BeingWritten(k)'
      BY <1>2, <1>5 DEF BeingWritten, Writing, Working
    <2> QED BY <2>1, ShownStays DEF device, records
  <1> QED BY <1>3, <1>4, <1>6, <1>7 DEF IInv

\* A job that does not work becomes another one that does not.
LEMMA WaitsKeeps ==
  ASSUME IInv, NEW p \in Processes, NEW next, job' = [job EXCEPT ![p] = next],
         job[p].pc \notin Working, IsJob(next), next.pc \notin Working,
         next.sent => next.pc \in Outcomes,
         next.kind = "set" => next.key \in Settings,
         next.kind \in Changes => next.origin = next.checked,
         queue' \in Seq(Command),
         UNCHANGED <<inverter, foreign, shown, device, lock, wire>>
  PROVE  IInv'
  <1>1. /\ job' = [q \in Processes |-> job'[q]] /\ wire' = [q \in Processes |-> wire'[q]]
        /\ job'[p] = next /\ \A q \in Processes \ {p} : job'[q] = job[q]
    BY DEF IInv, Typed
  <1>2. Typed'
    BY <1>1, TypedStep DEF IInv, Typed
  <1>3. ASSUME NEW q \in Processes, q # p
        PROVE  Works(q)'
    BY <1>1, <1>3, OthersWork DEF device, records
  <1>4. Works(p)'
    <2>1. TakesTurns(p)'
      BY <1>1 DEF IInv, Works, TakesTurns, Reads, Working
    <2>2. KnowsItsJob(p)'
      BY <1>1 DEF KnowsItsJob, Changing, Working
    <2>3. Answered(p)' /\ Compared(p)'
      BY <1>1, <2>1 DEF TakesTurns, Answered, Compared, Working
    <2> QED BY <2>1, <2>2, <2>3 DEF Works
  <1>5. ASSUME NEW k \in Keys
        PROVE  ShownSince(k)'
    <2>1. BeingWritten(k) => BeingWritten(k)'
      BY <1>1 DEF BeingWritten, Writing, Working
    <2> QED BY <2>1, ShownStays DEF device, records
  <1> QED BY <1>2, <1>3, <1>4, <1>5 DEF IInv

-----------------------------------------------------------------------------
(* The replies.                                                            *)

LEMMA HeardCurrentKeeps ==
  ASSUME IInv, NEW p \in Processes, NEW how, HeardCurrent(p, how)
  PROVE  IInv'
  <1> DEFINE next == Planning(job[p], "compare", wire[p].held,
                              [wire[p].held EXCEPT ![job[p].part] = job[p].val])
  <1>1. job[p].pc = "current" /\ UNCHANGED <<inverter, foreign, device, queue>>
    BY DEF HeardCurrent, Heard
  <1>2. IsJob(job[p]) /\ Works(p)
    BY DEF IInv, Typed
  <1>3. IsJob(next) /\ Alike(next, job[p]) /\ next.pc = "compare"
    BY <1>2, JobsChange
  <1>4. CASE Ends(p, "failed") /\ UNCHANGED shown
    BY <1>1, <1>4, EndsShowingKeeps DEF EndsShowing, Outcomes, Writing
  <1>5. CASE ContinuesIfCurrent(p, next)
    <2>1. next.kind # "set" /\ ~next.sent
      BY <1>1, <1>2, <1>3 DEF Works, KnowsItsJob, Alike, Same, Outcomes
    <2> HIDE DEF next
    <2> QED BY <1>1, <1>3, <1>5, <2>1, ContinuesIfCurrentKeeps DEF Changing, Writing
  <1>6. \/ Ends(p, "failed") /\ UNCHANGED shown
        \/ ContinuesIfCurrent(p, next)
    BY DEF HeardCurrent, Planning
  <1> QED BY <1>4, <1>5, <1>6

LEMMA HeardComparisonKeeps ==
  ASSUME IInv, NEW p \in Processes, NEW how, HeardComparison(p, how)
  PROVE  IInv'
  <1> DEFINE next == Looking(job[p], "write", wire[p].seen)
  <1>1. job[p].pc = "compare" /\ UNCHANGED <<inverter, foreign, device, queue>>
    BY DEF HeardComparison, Heard
  <1>2. IsJob(job[p]) /\ Works(p)
    BY DEF IInv, Typed
  <1>3. IsJob(next) /\ Alike(next, job[p]) /\ next.pc = "write"
        /\ next.seen = wire[p].seen /\ next.expected = job[p].expected
    BY <1>2, JobsChange
  <1>4. CASE EndsForgetting(p, "failed")
    BY <1>1, <1>4, EndsForgettingKeeps DEF Outcomes
  <1>5. CASE how = "done" /\ AsExpected(p) /\ Continues(p, next)
    <2>1. next.kind # "set" /\ ~next.sent
      BY <1>1, <1>2, <1>3 DEF Works, KnowsItsJob, Alike, Same, Outcomes
    <2>2. wire[p].state = "read" /\ wire[p].key = job[p].key /\ next.key = job[p].key
      BY <1>1, <1>2, <1>3, <1>5 DEF HeardComparison, Heard, Failures, Works, TakesTurns, Alike, Same
    <2>3. next.key \in Periods => Seen(next.key, next.expected, next.seen)
      BY <1>2, <1>3, <1>5, <2>2 DEF AsExpected, Works, Answered, Keys
    <2> HIDE DEF next
    <2> QED BY <1>1, <1>3, <1>5, <2>1, <2>3, ContinuesKeeps DEF Changing, Writing
  <1>6. \/ EndsForgetting(p, "failed")
        \/ how = "done" /\ AsExpected(p) /\ Continues(p, Looking(job[p], "write", wire[p].seen))
    <2>1. Looking(job[p], "write", wire[p].seen)
            = [job[p] EXCEPT !.pc = "write", !.seen = wire[p].seen, !.by = link]
      BY DEF Looking
    <2> QED BY <2>1, Zenon DEF HeardComparison
  <1> QED BY <1>4, <1>5, <1>6

LEMMA HeardWrittenKeeps ==
  ASSUME IInv, NEW p \in Processes, NEW how, HeardWritten(p, how)
  PROVE  IInv'
  <1> DEFINE next == Trying(job[p], "confirm", 1)
  <1>1. job[p].pc = "write" /\ UNCHANGED <<inverter, foreign, device, queue>>
    BY DEF HeardWritten, Heard
  <1>2. IsJob(job[p])
    BY DEF IInv, Typed
  <1>3. IsJob(next) /\ Alike(next, job[p]) /\ next.pc = "confirm"
    BY <1>2, JobsChange
  <1>4. CASE EndsForgetting(p, "failed")
    BY <1>1, <1>4, EndsForgettingKeeps DEF Outcomes
  <1>5. CASE ContinuesIfCurrent(p, next)
    <2> HIDE DEF next
    <2> QED BY <1>1, <1>3, <1>5, ContinuesIfCurrentKeeps DEF Changing, Writing
  <1>6. EndsForgetting(p, "failed") \/ ContinuesIfCurrent(p, next)
    BY DEF HeardWritten, Trying
  <1> QED BY <1>4, <1>5, <1>6

LEMMA HeardConfirmationKeeps ==
  ASSUME IInv, NEW p \in Processes, NEW how, HeardConfirmation(p, how)
  PROVE  IInv'
  <1> DEFINE next == At(job[p], "pause")
  <1>1. job[p].pc = "confirm" /\ UNCHANGED <<inverter, foreign, device, queue>>
    BY DEF HeardConfirmation, Heard
  <1>2. IsJob(job[p]) /\ Works(p)
    BY DEF IInv, Typed
  <1>3. IsJob(next) /\ Alike(next, job[p]) /\ next.pc = "pause"
    BY <1>2, JobsChange
  <1>4. CASE EndsForgetting(p, "failed")
    BY <1>1, <1>4, EndsForgettingKeeps DEF Outcomes
  <1>5. CASE Continues(p, next)
    <2> HIDE DEF next
    <2> QED BY <1>1, <1>3, <1>5, ContinuesKeeps DEF Changing, Writing
  <1>6. CASE how = "done" /\ Shows(p) /\ Ends(p, "done")
    <2>1. wire[p].state = "read" /\ wire[p].key = job[p].key
      BY <1>1, <1>2, <1>6 DEF HeardConfirmation, Heard, Failures, Works, TakesTurns
    <2> QED BY <1>1, <1>6, <2>1, EndsShowingReadingKeeps DEF Outcomes
  <1>7. \/ EndsForgetting(p, "failed")
        \/ Continues(p, next)
        \/ how = "done" /\ Shows(p) /\ Ends(p, "done")
    BY DEF HeardConfirmation, At
  <1> QED BY <1>4, <1>5, <1>6, <1>7

LEMMA ResumeKeeps ==
  ASSUME IInv, NEW p \in Processes, Resume(p)
  PROVE  IInv'
  <1> DEFINE next == Trying(job[p], "confirm", job[p].tries + 1)
  <1>1. job[p].pc = "pause" /\ UNCHANGED <<inverter, foreign, device, queue>>
    BY DEF Resume
  <1>2. IsJob(job[p])
    BY DEF IInv, Typed
  <1>3. IsJob(next) /\ Alike(next, job[p]) /\ next.pc = "confirm"
    BY <1>2, JobsChange
  <1>4. ContinuesIfCurrent(p, next)
    BY DEF Resume, Trying
  <1> HIDE DEF next
  <1> QED BY <1>1, <1>3, <1>4, ContinuesIfCurrentKeeps DEF Changing, Writing

LEMMA HeardReadingKeeps ==
  ASSUME IInv, NEW p \in Processes, NEW how, HeardReading(p, how)
  PROVE  IInv'
  <1>1. /\ job[p].pc = "read" /\ UNCHANGED <<inverter, foreign, device, queue>>
        /\ Ends(p, "done")
    BY DEF HeardReading, Heard
  <1>2. CASE UNCHANGED shown
    BY <1>1, <1>2, EndsShowingKeeps DEF EndsShowing, Outcomes, Writing
  <1>3. CASE how = "done" /\ Shows(p)
    <2>1. wire[p].state = "read" /\ wire[p].key = job[p].key
      BY <1>1, <1>3 DEF HeardReading, Heard, Failures, IInv, Works, TakesTurns
    <2> QED BY <1>1, <1>3, <2>1, EndsShowingReadingKeeps DEF Outcomes
  <1> QED BY <1>2, <1>3 DEF HeardReading

LEMMA RefreshEndsKeeps ==
  ASSUME IInv, NEW p \in Processes, RefreshEnds(p)
  PROVE  IInv'
  BY EndsShowingKeeps DEF RefreshEnds, EndsShowing, Outcomes, Writing

\* A refresh shows what it read of one setting, or takes it off the page.
LEMMA HeardFetchedKeeps ==
  ASSUME IInv, NEW p \in Processes, NEW how, HeardFetched(p, how)
  PROVE  IInv'
  <1>1. /\ job[p].pc = "fetch" /\ UNCHANGED <<inverter, foreign, corrected, lock>>
        /\ UNCHANGED <<device, queue>>
    BY DEF HeardFetched, Heard, device, records
  <1>2. PICK todo : job' = [job EXCEPT ![p] = Left(job[p], todo)]
    BY DEF HeardFetched, Left
  <1>3. /\ job' = [q \in Processes |-> job'[q]] /\ wire' = [q \in Processes |-> wire'[q]]
        /\ job'[p] = Left(job[p], todo) /\ wire'[p] = Quiet
        /\ \A q \in Processes \ {p} : job'[q] = job[q] /\ wire'[q] = wire[q]
    BY <1>2 DEF HeardFetched, IInv, Typed
  <1>4. IsJob(job'[p]) /\ Alike(job'[p], job[p]) /\ job'[p].pc = "fetch"
    <2>1. IsJob(job[p])
      BY DEF IInv, Typed
    <2>2. IsJob(Left(job[p], todo)) /\ Alike(Left(job[p], todo), job[p])
          /\ Left(job[p], todo).pc = job[p].pc
      BY <2>1, JobsChange
    <2> QED BY <1>1, <1>3, <2>2
  <1>5. shown' = [k \in Keys |-> shown'[k]]
    BY DEF HeardFetched, Shows, IInv, Typed
  <1>6. Typed'
    BY <1>1, <1>3, <1>4, <1>5, NoJobIsOne, TypedStep DEF IInv, Typed
  <1>7. ASSUME NEW q \in Processes, q # p
        PROVE  Works(q)'
    BY <1>1, <1>3, <1>7, OthersWork
  <1>8. Works(p)'
    <2>1. Works(p)
      BY DEF IInv
    <2>2. TakesTurns(p)'
      BY <1>1, <1>3, <1>4, <2>1, NoJobIsOne DEF Works, TakesTurns
    <2>3. KnowsItsJob(p)'
      BY <1>1, <1>3, <1>4, <2>1 DEF Works, KnowsItsJob, Alike, Same, Changing, Outcomes
    <2>4. Answered(p)' /\ Compared(p)'
      BY <1>3, <1>4, NoJobIsOne DEF Answered, Compared
    <2> QED BY <2>2, <2>3, <2>4 DEF Works
  <1>9. ASSUME NEW k \in Keys
        PROVE  ShownSince(k)'
    <2>1. BeingWritten(k) => BeingWritten(k)'
      BY <1>1, <1>3 DEF BeingWritten, Writing
    <2>2. CASE shown'[k] \in {shown[k], Unknown}
      BY <1>1, <2>1, <2>2, ShownStays
    <2>3. CASE how = "done" /\ Shows(p) /\ k = wire[p].key
      <3>1. wire[p].state = "read"
        BY <1>1, <2>3 DEF HeardFetched, Heard, Failures, IInv, Works, TakesTurns
      <3>2. Seen(k, wire[p].held, wire[p].seen) /\ wire[p].under = corrected
        BY <2>3, <3>1 DEF IInv, Works, Answered
      <3>3. shown'[k].held = wire[p].held /\ shown'[k].seen = wire[p].seen
            /\ shown'[k].under = wire[p].under
        BY <2>3 DEF Shows, Reading, IInv, Typed
      <3> QED BY <1>1, <3>2, <3>3 DEF ShownSince, Seen
    <2>4. \/ shown'[k] \in {shown[k], Unknown}
          \/ how = "done" /\ Shows(p) /\ k = wire[p].key
      <3>1. CASE shown' = [shown EXCEPT ![ReadKey(p)] = Unknown]
        BY <3>1 DEF IInv, Typed
      <3>2. CASE UNCHANGED shown
        BY <3>2
      <3>3. CASE how = "done" /\ Shows(p)
        BY <3>3 DEF Shows, IInv, Typed
      <3> QED BY <3>1, <3>2, <3>3 DEF HeardFetched
    <2> QED BY <2>2, <2>3, <2>4
  <1> QED BY <1>6, <1>7, <1>8, <1>9 DEF IInv

-----------------------------------------------------------------------------
(* Commands, calls and the first step under the lock.                      *)

\* A job taken from the queue, or given by the editor, is a change under one
\* connection and context.
Taking(c, now) ==
  [NoJob EXCEPT !.pc = "lock", !.kind = c.kind, !.key = c.key, !.part = c.part,
                !.val = c.val, !.origin = c.origin, !.checked = now]
Asking(kind, key, target, expected, now) ==
  [NoJob EXCEPT !.pc = "lock", !.kind = kind, !.key = key, !.target = target,
                !.expected = expected, !.origin = now, !.checked = now]

LEMMA JobsBegin ==
  /\ \A c, now : LET n == Taking(c, now) IN
       /\ IsJob(n) /\ n.pc = "lock" /\ n.kind = c.kind /\ n.key = c.key /\ ~n.sent
       /\ n.origin = c.origin /\ n.checked = now
  /\ \A kind, key, target, expected, now : LET n == Asking(kind, key, target, expected, now) IN
       /\ IsJob(n) /\ n.pc = "lock" /\ n.kind = kind /\ n.key = key /\ ~n.sent
       /\ n.origin = now /\ n.checked = now
  <1>1. PICK S : NoJob \in Jobs(S)
    BY NoJobIsOne DEF IsJob
  <1>2. ASSUME NEW c, NEW now
        PROVE  LET n == Taking(c, now) IN
                 /\ IsJob(n) /\ n.pc = "lock" /\ n.kind = c.kind /\ n.key = c.key /\ ~n.sent
                 /\ n.origin = c.origin /\ n.checked = now
    <2> DEFINE T == S \cup {"lock", c.kind, c.key, c.part, c.val, c.origin, now}
    <2>1. /\ NoJob \in Jobs(T) /\ {"lock", c.kind, c.key, c.part, c.val, c.origin, now} \subseteq T
      BY <1>1 DEF Jobs
    <2> HIDE DEF T
    <2>2. LET n == Taking(c, now) IN
            /\ n \in Jobs(T) /\ n.pc = "lock" /\ n.kind = c.kind /\ n.key = c.key
            /\ n.sent = NoJob.sent /\ n.origin = c.origin /\ n.checked = now
      BY <2>1 DEF Taking, Jobs
    <2> QED BY <2>2, NoJobIsOne DEF IsJob
  <1>3. ASSUME NEW kind, NEW key, NEW target, NEW expected, NEW now
        PROVE  LET n == Asking(kind, key, target, expected, now) IN
                 /\ IsJob(n) /\ n.pc = "lock" /\ n.kind = kind /\ n.key = key /\ ~n.sent
                 /\ n.origin = now /\ n.checked = now
    <2> DEFINE T == S \cup {"lock", kind, key, target, expected, now}
    <2>1. NoJob \in Jobs(T) /\ {"lock", kind, key, target, expected, now} \subseteq T
      BY <1>1 DEF Jobs
    <2> HIDE DEF T
    <2>2. LET n == Asking(kind, key, target, expected, now) IN
            /\ n \in Jobs(T) /\ n.pc = "lock" /\ n.kind = kind /\ n.key = key
            /\ n.sent = NoJob.sent /\ n.origin = now /\ n.checked = now
      BY <2>1 DEF Asking, Jobs
    <2> QED BY <2>2, NoJobIsOne DEF IsJob
  <1> QED BY <1>2, <1>3

LEMMA EnqueueKeeps ==
  ASSUME IInv, NEW w \in Wishes, Enqueue(w.kind, w.key, w.part, w.val)
  PROVE  IInv'
  <1> DEFINE c == [kind |-> w.kind, key |-> w.key, part |-> w.part, val |-> w.val, origin |-> Now]
  <1>1. Now \in Origins
    BY DEF Now, Context, Origins, IInv, Typed
  <1>2. c \in Command
    BY <1>1 DEF Command
  <1>3. queue' = Append(queue, c)
    BY DEF Enqueue
  <1>4. queue \in Seq(Command)
    BY DEF IInv, Typed
  <1> HIDE DEF c
  <1>5. queue' \in Seq(Command)
    BY <1>2, <1>3, <1>4
  <1>6. UNCHANGED <<inverter, foreign, shown, device, lock, job, wire>>
    BY DEF Enqueue
  <1>7. Typed'
    BY <1>5, <1>6 DEF IInv, Typed, Command, Origins, device, records
  <1>8. \A q \in Processes : Works(q)'
    BY <1>6, OthersWork DEF device, records
  <1>9. \A k \in Keys : ShownSince(k)'
    BY <1>6, ShownStays DEF BeingWritten, device, records
  <1> QED BY <1>7, <1>8, <1>9 DEF IInv

LEMMA DropKeeps ==
  ASSUME IInv, NEW p \in Processes, NEW outcome \in Outcomes, job[p].pc = "idle",
         queue' \in Seq(Command), job' = [job EXCEPT ![p].pc = outcome],
         UNCHANGED <<inverter, foreign, shown, device, lock, wire>>
  PROVE  IInv'
  <1> DEFINE next == At(job[p], outcome)
  <1>1. job' = [job EXCEPT ![p] = next]
    BY DEF At
  <1>2. IsJob(job[p]) /\ Works(p)
    BY DEF IInv, Typed
  <1>3. IsJob(next) /\ Alike(next, job[p]) /\ next.pc = outcome
    BY <1>2, JobsChange
  <1> HIDE DEF next
  <1>4. /\ next.kind = "set" => next.key \in Settings
        /\ next.kind \in Changes => next.origin = next.checked
    BY <1>2, <1>3 DEF Works, KnowsItsJob, Alike, Same
  <1> QED BY <1>1, <1>3, <1>4, WaitsKeeps DEF Working, Outcomes

LEMMA TakeCommandKeeps ==
  ASSUME IInv, NEW aged \in BOOLEAN, TakeCommand(aged)
  PROVE  IInv'
  <1> DEFINE c == Head(queue)
  <1>1. Loop \in Processes /\ queue \in Seq(Command) /\ queue # <<>>
    BY DEF Processes, IInv, Typed, TakeCommand
  <1>2. c \in Command /\ Tail(queue) \in Seq(Command)
    BY <1>1, HeadTailProperties
  <1>3. /\ job[Loop].pc = "idle" /\ queue' \in Seq(Command)
        /\ UNCHANGED <<inverter, foreign, shown, device, lock, wire>>
    BY <1>2 DEF TakeCommand
  <1>5. CASE job' = [job EXCEPT ![Loop].pc = "nothing sent"]
    BY <1>1, <1>3, <1>5, DropKeeps DEF Outcomes
  <1>6. CASE StillWanted(c) /\ job' = [job EXCEPT ![Loop] = Taking(c, Now)]
    <2> DEFINE next == Taking(c, Now)
    <2>1. /\ IsJob(next) /\ next.pc = "lock" /\ next.kind = c.kind /\ next.key = c.key
          /\ ~next.sent /\ next.origin = c.origin /\ next.checked = Now
      BY JobsBegin
    <2>2. c.kind = "set" => c.key \in Settings
      BY <1>2, WishesAssumption DEF Command
    <2>3. c.origin = Now
      BY <1>6 DEF StillWanted
    <2>4. job' = [job EXCEPT ![Loop] = next]
      BY <1>6
    <2> HIDE DEF next, c
    <2> QED BY <1>1, <1>3, <2>1, <2>2, <2>3, <2>4, WaitsKeeps DEF Working
  <1>7. \/ job' = [job EXCEPT ![Loop].pc = "nothing sent"]
        \/ StillWanted(c) /\ job' = [job EXCEPT ![Loop] = Taking(c, Now)]
    BY DEF TakeCommand, Taking
  <1> QED BY <1>5, <1>6, <1>7

LEMMA EditorCallsKeeps ==
  ASSUME IInv, NEW e \in Editors, NEW kind \in {"editorRead", "editorWrite"}, NEW key,
         NEW target, NEW expected, EditorCalls(e, kind, key, target, expected)
  PROVE  IInv'
  <1> DEFINE next == Asking(kind, key, target, expected, Now)
  <1>1. /\ e \in Processes /\ job[e].pc = "idle"
        /\ UNCHANGED <<inverter, foreign, shown, device, lock, queue, wire>>
    BY DEF EditorCalls, Processes
  <1>2. job' = [job EXCEPT ![e] = next]
    BY DEF EditorCalls, Asking
  <1>3. /\ IsJob(next) /\ next.pc = "lock" /\ next.kind = kind /\ ~next.sent
        /\ next.origin = Now /\ next.checked = Now
    BY JobsBegin
  <1>4. queue' \in Seq(Command)
    BY <1>1 DEF IInv, Typed
  <1> HIDE DEF next
  <1> QED BY <1>1, <1>2, <1>3, <1>4, WaitsKeeps DEF Working

LEMMA PublishKeeps ==
  ASSUME IInv, Publish
  PROVE  IInv'
  <1>1. /\ Loop \in Processes /\ job[Loop].pc \in Outcomes /\ job' = [job EXCEPT ![Loop] = NoJob]
        /\ UNCHANGED <<inverter, foreign, shown, device, lock, queue, wire>>
    BY DEF Publish, Processes
  <1>2. queue' \in Seq(Command)
    BY <1>1 DEF IInv, Typed
  <1> QED BY <1>1, <1>2, NoJobIsOne, WaitsKeeps DEF Working, Outcomes, Changes

LEMMA RefreshIsDueKeeps ==
  ASSUME IInv, RefreshIsDue
  PROVE  IInv'
  <1> DEFINE next == Listing(NoJob, "fetch", SetToSeq(Offered), Now)
  <1>1. /\ Refresher \in Processes /\ LockFree /\ lock' = Refresher
        /\ UNCHANGED <<inverter, foreign, shown, device, queue, wire>>
    BY DEF RefreshIsDue, Processes
  <1>2. job' = [job EXCEPT ![Refresher] = next]
    BY DEF RefreshIsDue, Fetching, Listing
  <1>3. IsJob(next) /\ Same(next, NoJob) /\ next.sent = NoJob.sent /\ next.pc = "fetch"
    BY NoJobIsOne, JobsChange
  <1> HIDE DEF next
  <1>4. next.kind = "refresh" /\ ~next.sent
    BY <1>3, NoJobIsOne DEF Same
  <1> QED BY <1>1, <1>2, <1>3, <1>4, BeginsKeeps DEF Working, Changing, Changes

LEMMA TakeLockKeeps ==
  ASSUME IInv, NEW p \in Processes, TakeLock(p)
  PROVE  IInv'
  <1> DEFINE Begins(next) == lock' = p /\ job' = [job EXCEPT ![p] = next] /\ UNCHANGED wire
  <1>1. /\ job[p].pc = "lock" /\ LockFree
        /\ UNCHANGED <<inverter, foreign, shown, device, queue>>
    BY DEF TakeLock
  <1>2. IsJob(job[p]) /\ Works(p)
    BY DEF IInv, Typed
  <1>3. /\ ~job[p].sent
        /\ job[p].kind = "set" => job[p].key \in Settings /\ job[p].key \notin Periods
        /\ job[p].kind \in Changes => job[p].origin = job[p].checked
    BY <1>1, <1>2, NamesAssumption DEF Works, KnowsItsJob, Outcomes
  <1>4. CASE \E outcome \in Outcomes : Ends(p, outcome)
    BY <1>1, <1>4, EndsShowingKeeps DEF EndsShowing, Writing
  <1>5. CASE job[p].kind = "refresh" /\ Begins(Listing(job[p], "fetch", SetToSeq(Offered), Now))
    <2> DEFINE next == Listing(job[p], "fetch", SetToSeq(Offered), Now)
    <2>1. IsJob(next) /\ Same(next, job[p]) /\ next.sent = job[p].sent /\ next.pc = "fetch"
      BY <1>2, JobsChange
    <2>2. lock' = p /\ job' = [job EXCEPT ![p] = next] /\ UNCHANGED wire
      BY <1>5
    <2> HIDE DEF next
    <2> QED BY <1>1, <1>3, <1>5, <2>1, <2>2, BeginsKeeps DEF Same, Working, Changing, Changes
  <1>6. CASE job[p].kind = "set" /\ Begins(Aiming(job[p], "write", "value" :> job[p].val))
    <2> DEFINE next == Aiming(job[p], "write", "value" :> job[p].val)
    <2>1. IsJob(next) /\ Alike(next, job[p]) /\ next.pc = "write"
      BY <1>2, JobsChange
    <2>2. lock' = p /\ job' = [job EXCEPT ![p] = next] /\ UNCHANGED wire
      BY <1>6
    <2> HIDE DEF next
    <2> QED BY <1>1, <1>3, <1>6, <2>1, <2>2, BeginsKeeps DEF Alike, Same, Working, Changing, Changes
  <1>7. ASSUME NEW pc \in {"current", "read", "compare"},
               job[p].kind \in {"edit", "editorRead", "editorWrite"},
               job[p].kind = "editorRead" => pc = "read",
               Begins(Going(job[p], pc))
        PROVE  IInv'
    <2> DEFINE next == Going(job[p], pc)
    <2>1. IsJob(next) /\ Alike(next, job[p]) /\ next.pc = pc
      BY <1>2, JobsChange
    <2>2. lock' = p /\ job' = [job EXCEPT ![p] = next] /\ UNCHANGED wire
      BY <1>7
    <2> HIDE DEF next
    <2> QED BY <1>1, <1>3, <1>7, <2>1, <2>2, BeginsKeeps DEF Alike, Same, Working, Changing, Changes
  <1>8. \/ \E outcome \in Outcomes : Ends(p, outcome)
        \/ job[p].kind = "refresh" /\ Begins(Listing(job[p], "fetch", SetToSeq(Offered), Now))
        \/ job[p].kind = "set" /\ Begins(Aiming(job[p], "write", "value" :> job[p].val))
        \/ \E pc \in {"current", "read", "compare"} :
             /\ job[p].kind \in {"edit", "editorRead", "editorWrite"}
             /\ job[p].kind = "editorRead" => pc = "read"
             /\ Begins(Going(job[p], pc))
    <2>1. CASE job[p].kind = "refresh" /\ Begins(Fetching(job[p]))
      BY <2>1 DEF Fetching, Listing
    <2>2. CASE Ends(p, "nothing sent") \/ Ends(p, "failed")
      BY <2>2 DEF Outcomes
    <2>3. CASE /\ job[p].kind \in {"set", "edit"}
               /\ Begins(IF job[p].kind = "set"
                         THEN [job[p] EXCEPT !.pc = "write", !.target = ("value" :> job[p].val),
                                             !.by = link]
                         ELSE [job[p] EXCEPT !.pc = "current", !.by = link])
      <3>1. CASE job[p].kind = "set"
        BY <2>3, <3>1 DEF Aiming
      <3>2. CASE job[p].kind = "edit"
        BY <2>3, <3>2 DEF Going
      <3> QED BY <2>3, <3>1, <3>2
    <2>4. CASE /\ job[p].kind \in {"editorRead", "editorWrite"}
               /\ Begins([job[p] EXCEPT !.pc = IF job[p].kind = "editorRead" THEN "read"
                                                                            ELSE "compare",
                                          !.by = link])
      <3>1. CASE job[p].kind = "editorRead"
        BY <2>4, <3>1 DEF Going
      <3>2. CASE job[p].kind = "editorWrite"
        BY <2>4, <3>2 DEF Going
      <3> QED BY <2>4, <3>1, <3>2
    <2> QED BY <2>1, <2>2, <2>3, <2>4 DEF TakeLock
  <1> HIDE DEF Begins
  <1> QED BY <1>4, <1>5, <1>6, <1>7, <1>8

-----------------------------------------------------------------------------
(* The requests.                                                           *)

LEMMA SendWriteKeeps ==
  ASSUME IInv, NEW p \in Processes, SendWrite(p)
  PROVE  IInv'
  <1>1. /\ job[p].pc = "write" /\ wire[p] = Quiet
        /\ UNCHANGED <<inverter, foreign, device, queue>>
    BY DEF SendWrite
  <1>2. CASE EndsForgetting(p, "nothing sent") \/ EndsForgetting(p, "failed")
    BY <1>1, <1>2, EndsForgettingKeeps DEF Outcomes
  <1>3. ASSUME wire' = [wire EXCEPT ![p] = [Quiet EXCEPT !.state = "writing", !.key = job[p].key,
                                                          !.held = job[p].target]],
               job' = [job EXCEPT ![p].sent = TRUE], UNCHANGED <<shown, lock>>
        PROVE  IInv'
    <2> DEFINE n == Sent(job[p], TRUE)
    <2>1. job' = [job EXCEPT ![p] = n]
      BY <1>3 DEF Sent
    <2>2. /\ IsJob(n) /\ Same(n, job[p]) /\ n.checked = job[p].checked
          /\ n.pc = job[p].pc
      <3>1. IsJob(job[p])
        BY DEF IInv, Typed
      <3> QED BY <3>1, JobsChange
    <2>3. IsRequest(wire'[p]) /\ wire'[p].state = "writing" /\ wire'[p].key = job[p].key
      <3>1. wire'[p] = Write(job[p].key, job[p].target)
        BY <1>3 DEF Write, IInv, Typed
      <3> QED BY <3>1, RequestsChange
    <2> HIDE DEF n
    <2>4. /\ job' = [q \in Processes |-> job'[q]] /\ wire' = [q \in Processes |-> wire'[q]]
          /\ job'[p] = n
          /\ \A q \in Processes \ {p} : job'[q] = job[q] /\ wire'[q] = wire[q]
      BY <1>3, <2>1 DEF IInv, Typed
    <2>5. Typed'
      BY <1>1, <1>3, <2>2, <2>3, <2>4, TypedStep DEF IInv, Typed
    <2>6. ASSUME NEW q \in Processes, q # p
          PROVE  Works(q)'
      BY <1>1, <1>3, <2>4, <2>6, OthersWork DEF device, records
    <2>7. Works(p)
      BY DEF IInv
    <2>8. TakesTurns(p)'
      BY <1>1, <1>3, <2>2, <2>3, <2>4, <2>7 DEF Works, TakesTurns, Same, Working
    <2>9. KnowsItsJob(p)'
      BY <1>1, <2>2, <2>3, <2>4, <2>7 DEF Works, KnowsItsJob, Same
    <2>10. Answered(p)' /\ Compared(p)'
      BY <2>3 DEF Answered, Compared
    <2>11. ASSUME NEW k \in Keys
           PROVE  ShownSince(k)'
      <3>1. BeingWritten(k) => BeingWritten(k)'
        BY <2>2, <2>4 DEF BeingWritten, Same
      <3> QED BY <1>1, <1>3, <3>1, ShownStays DEF device, records
    <2> QED BY <2>5, <2>6, <2>8, <2>9, <2>10, <2>11 DEF IInv, Works
  <1> QED BY <1>1, <1>2, <1>3 DEF SendWrite

\* The reply tells what the inverter held, and how often the cloud had changed it.
LEMMA InverterReadsKeeps ==
  ASSUME IInv, NEW p \in Processes, InverterReads(p)
  PROVE  IInv'
  <1> DEFINE key == ReadKey(p)
             r == [state |-> "read", key |-> key, held |-> inverter[key],
                   seen |-> foreign[key], under |-> corrected]
  <1>1. /\ Reads(job[p].pc) /\ wire' = [wire EXCEPT ![p] = r]
        /\ UNCHANGED <<inverter, foreign, shown, corrected, lock, job>>
        /\ UNCHANGED <<device, queue>>
    BY DEF InverterReads, device, records
  <1>2. IsRequest(r)
    BY RequestsChange
  <1>3. /\ r.state = "read" /\ r.key = key /\ r.held = inverter[key]
        /\ r.seen = foreign[key] /\ r.under = corrected
    OBVIOUS
  <1>4. key \in Keys => Seen(key, r.held, r.seen)
    <2>1. key \in Keys => foreign[key] \in Nat
      BY DEF IInv, Typed
    <2> QED BY <1>3, <2>1 DEF Seen
  <1>5. job[p].pc # "fetch" => key = job[p].key
    BY DEF ReadKey
  <1> HIDE DEF r, key
  <1>6. /\ job' = [q \in Processes |-> job'[q]] /\ wire' = [q \in Processes |-> wire'[q]]
        /\ wire'[p] = r /\ \A q \in Processes \ {p} : job'[q] = job[q] /\ wire'[q] = wire[q]
    BY <1>1 DEF IInv, Typed
  <1>7. Typed'
    BY <1>1, <1>2, <1>6, TypedStep DEF IInv, Typed
  <1>8. ASSUME NEW q \in Processes, q # p
        PROVE  Works(q)'
    BY <1>1, <1>6, <1>8, OthersWork
  <1>9. Works(p)
    BY DEF IInv
  <1>10. TakesTurns(p)'
    BY <1>1, <1>3, <1>5, <1>6, <1>9 DEF Works, TakesTurns, Reads, Working
  <1>11. KnowsItsJob(p)'
    BY <1>1, <1>3, <1>6, <1>9 DEF Works, KnowsItsJob, Reads
  <1>12. Answered(p)' /\ Compared(p)'
    BY <1>1, <1>3, <1>4, <1>6 DEF Answered, Compared, Seen
  <1>13. ASSUME NEW k \in Keys
         PROVE  ShownSince(k)'
    BY <1>1, ShownStays DEF BeingWritten
  <1> QED BY <1>7, <1>8, <1>10, <1>11, <1>12, <1>13 DEF IInv, Works

\* Whoever writes a setting holds the lock: nobody else looks at one meanwhile.
LEMMA InverterWritesKeeps ==
  ASSUME IInv, NEW p \in Processes, InverterWrites(p)
  PROVE  IInv'
  <1> DEFINE r == [wire[p] EXCEPT !.state = "written"]
  <1>1. /\ wire[p].state = "writing" /\ wire' = [wire EXCEPT ![p] = r]
        /\ UNCHANGED <<foreign, shown, corrected, lock, job>>
        /\ UNCHANGED <<device, queue>>
    BY DEF InverterWrites, device, records
  <1>2. IsRequest(r) /\ r.state = "written" /\ r.key = wire[p].key
    BY RequestsChange DEF IInv, Typed
  <1> HIDE DEF r
  <1>3. job[p].pc = "write" /\ wire[p].key = job[p].key /\ lock = p
    BY <1>1 DEF IInv, Works, TakesTurns, Working
  <1>4. /\ inverter' = [k \in Keys |-> inverter'[k]]
        /\ \A k \in Keys \ {job[p].key} : inverter'[k] = inverter[k]
    BY <1>3 DEF InverterWrites, IInv, Typed
  <1>5. /\ job' = [q \in Processes |-> job'[q]] /\ wire' = [q \in Processes |-> wire'[q]]
        /\ wire'[p] = r /\ \A q \in Processes \ {p} : job'[q] = job[q] /\ wire'[q] = wire[q]
    BY <1>1 DEF IInv, Typed
  <1>6. Typed'
    BY <1>1, <1>2, <1>4, <1>5, TypedStep DEF IInv, Typed
  <1>7. ASSUME NEW q \in Processes, q # p
        PROVE  Works(q)'
    <2>1. wire[q].state = "quiet" /\ job[q].pc \notin Working /\ Works(q)
      BY <1>3, <1>7 DEF IInv, Works, TakesTurns
    <2>2. TakesTurns(q)' /\ KnowsItsJob(q)'
      BY <1>1, <1>5, <1>7, <2>1 DEF Works, TakesTurns, KnowsItsJob
    <2>3. Answered(q)' /\ Compared(q)'
      BY <1>1, <1>5, <1>7, <2>1 DEF Answered, Compared, Working
    <2> QED BY <2>2, <2>3 DEF Works
  <1>8. Works(p)'
    <2>1. Works(p)
      BY DEF IInv
    <2>2. TakesTurns(p)'
      BY <1>1, <1>2, <1>3, <1>5, <2>1 DEF Works, TakesTurns
    <2>3. KnowsItsJob(p)'
      BY <1>1, <1>2, <1>5, <2>1 DEF Works, KnowsItsJob
    <2>4. Answered(p)' /\ Compared(p)'
      BY <1>2, <1>5 DEF Answered, Compared
    <2> QED BY <2>2, <2>3, <2>4 DEF Works
  <1>9. ASSUME NEW k \in Keys
        PROVE  ShownSince(k)'
    <2>1. ShownSince(k)
      BY DEF IInv
    <2>2. CASE k = job[p].key
      <3>1. BeingWritten(k)'
        BY <1>1, <1>3, <2>2 DEF BeingWritten, Writing
      <3> QED BY <1>1, <2>1, <3>1 DEF ShownSince
    <2>3. CASE k # job[p].key
      BY <1>1, <1>4, <2>1, <2>3 DEF ShownSince, Seen, BeingWritten
    <2> QED BY <2>2, <2>3
  <1> QED BY <1>6, <1>7, <1>8, <1>9 DEF IInv

-----------------------------------------------------------------------------
(* What happens around the jobs.                                           *)

\* A write from outside makes nothing untrue: what was read is no longer claimed.
LEMMA CloudWritesKeeps ==
  ASSUME IInv, NEW key \in Keys, NEW content, CloudWrites(key, content)
  PROVE  IInv'
  <1>1. /\ foreign' = [foreign EXCEPT ![key] = foreign[key] + 1]
        /\ inverter' = [inverter EXCEPT ![key] = content]
        /\ UNCHANGED <<shown, link, profile, details, stored, corrected, lock, queue, job, wire>>
    BY DEF CloudWrites, records
  <1>2. /\ foreign \in [Keys -> Nat] /\ foreign' \in [Keys -> Nat]
        /\ inverter' = [k \in Keys |-> inverter'[k]]
    <2>1. foreign[key] + 1 \in Nat
      BY DEF IInv, Typed
    <2> QED BY <1>1, <2>1 DEF IInv, Typed
  <1>3. \A k \in Keys : foreign[k] \in Nat /\ foreign'[k] \in Nat /\ foreign[k] <= foreign'[k]
    BY <1>1, <1>2
  <1>4. foreign'[key] = foreign[key] + 1
        /\ \A k \in Keys \ {key} : foreign'[k] = foreign[k] /\ inverter'[k] = inverter[k]
    BY <1>1, <1>2 DEF IInv, Typed
  <1>5. ASSUME NEW k \in Keys, NEW held, NEW seen, Seen(k, held, seen)
        PROVE  Seen(k, held, seen)'
    BY <1>3, <1>4, <1>5 DEF Seen
  <1>6. Typed'
    BY <1>1, <1>2 DEF IInv, Typed, Command, Origins
  <1>8. ASSUME NEW q \in Processes
        PROVE  Works(q)'
    <2>1. Works(q)
      BY DEF IInv
    <2>2. TakesTurns(q)' /\ KnowsItsJob(q)'
      BY <1>1, <2>1 DEF Works, TakesTurns, KnowsItsJob
    <2>3. Answered(q)'
      BY <1>1, <1>5, <2>1 DEF Works, Answered
    <2>4. Compared(q)'
      BY <1>1, <1>5, <2>1 DEF Works, Compared, Keys
    <2> QED BY <2>2, <2>3, <2>4 DEF Works
  <1>9. ASSUME NEW k \in Keys
        PROVE  ShownSince(k)'
    <2>1. ShownSince(k)
      BY DEF IInv
    <2>2. shown[k] # Unknown => shown[k].seen <= foreign'[k]
      BY <1>3, <2>1 DEF ShownSince
    <2>3. BeingWritten(k)' <=> BeingWritten(k)
      BY <1>1 DEF BeingWritten
    <2> QED BY <1>1, <1>5, <2>1, <2>2, <2>3 DEF ShownSince
  <1> QED BY <1>6, <1>8, <1>9 DEF IInv

\* The connection comes and goes, a measurement brings another profile, and details come
\* into use by another inverter's save, at any moment: the jobs find out when they check.
LEMMA ChangeOutsideKeeps ==
  ASSUME IInv, link' \in Links, profile' \in Profiles \cup {Pending},
         details' \in Details, stored' \in Details,
         shown' = [k \in Keys |-> shown'[k]], \A k \in Keys : shown'[k] \in {shown[k], Unknown},
         UNCHANGED <<inverter, foreign, corrected, lock, queue, job, wire>>
  PROVE  IInv'
  <1>1. Typed'
    BY DEF IInv, Typed, Command, Origins
  <1>2. \A q \in Processes : Works(q)'
    BY OthersWork
  <1>3. \A k \in Keys : ShownSince(k)'
    BY ShownStays DEF BeingWritten
  <1> QED BY <1>1, <1>2, <1>3 DEF IInv

\* A save for this inverter has the lock, so nobody is at work; and where it corrects
\* what was known, nothing stays on the page.
LEMMA SaveKeeps ==
  ASSUME IInv, LockFree, details' \in Details, stored' \in Details,
         profile' \in Profiles \cup {Pending}, corrected' \in Nat,
         Forgets \/ UNCHANGED <<shown, corrected>>,
         UNCHANGED <<inverter, foreign, link, lock, queue, job, wire>>
  PROVE  IInv'
  <1>1. None \notin Processes
    BY NamesAssumption DEF Processes
  <1>2. Typed'
    BY DEF IInv, Typed, Command, Origins, Forgets
  <1>3. ASSUME NEW q \in Processes
        PROVE  Works(q)'
    <2>1. Works(q) /\ wire[q].state = "quiet" /\ job[q].pc \notin Working
      BY <1>1 DEF IInv, Works, TakesTurns, LockFree
    <2>2. TakesTurns(q)' /\ KnowsItsJob(q)'
      BY <2>1 DEF Works, TakesTurns, KnowsItsJob
    <2>3. Answered(q)' /\ Compared(q)'
      BY <2>1 DEF Answered, Compared, Working
    <2> QED BY <2>2, <2>3 DEF Works
  <1>4. ASSUME NEW k \in Keys
        PROVE  ShownSince(k)'
    <2>1. ShownSince(k)
      BY DEF IInv
    <2>2. CASE Forgets
      BY <2>2 DEF Forgets, ShownSince
    <2>3. CASE UNCHANGED <<shown, corrected>>
      BY <2>1, <2>3 DEF ShownSince, Seen, BeingWritten
    <2> QED BY <2>2, <2>3
  <1> QED BY <1>2, <1>3, <1>4 DEF IInv

\* What is entered, or read of the firmware, makes details of details.
LEMMA DetailsStay ==
  /\ Entered \subseteq Details
  /\ \A r \in Recorded : r.active \in Details /\ r.stored \in Details
  /\ \A d, e \in Details, firmware \in Firmwares :
       [d EXCEPT !.firmware = firmware, !.controls = e.controls] \in Details
  BY RecordedAssumption DEF Details

LEMMA SavesKeep ==
  ASSUME IInv,
         \/ \E new \in Entered, otherFamily \in BOOLEAN : SaveProfile(new, otherFamily)
         \/ \E firmware \in Firmwares : SaveFirmware(firmware)
  PROVE  IInv'
  <1>1. /\ details \in Details /\ stored \in Details /\ corrected \in Nat
        /\ corrected + 1 \in Nat /\ profile \in Profiles \cup {Pending}
    BY DEF IInv, Typed
  <1>2. CASE \E firmware \in Firmwares : SaveFirmware(firmware)
    <2> PICK firmware \in Firmwares : SaveFirmware(firmware)
      BY <1>2
    <2>1. details' \in Details /\ stored' \in Details
      BY <1>1, DetailsStay DEF SaveFirmware
    <2>2. corrected' \in Nat /\ (Forgets \/ UNCHANGED <<shown, corrected>>)
      BY <1>1 DEF SaveFirmware, Corrects
    <2>3. /\ LockFree /\ profile' = profile
          /\ UNCHANGED <<inverter, foreign, link, lock, queue, job, wire>>
      BY DEF SaveFirmware
    <2> QED BY <1>1, <2>1, <2>2, <2>3, SaveKeeps
  <1>3. CASE \E new \in Entered, otherFamily \in BOOLEAN : SaveProfile(new, otherFamily)
    <2> PICK new \in Entered, otherFamily \in BOOLEAN : SaveProfile(new, otherFamily)
      BY <1>3
    <2>1. details' \in Details /\ stored' \in Details
      BY DetailsStay DEF SaveProfile
    <2>2. corrected' \in Nat /\ (Forgets \/ UNCHANGED <<shown, corrected>>)
      BY <1>1 DEF SaveProfile, Corrects
    <2>3. /\ LockFree /\ profile' \in Profiles \cup {Pending}
          /\ UNCHANGED <<inverter, foreign, link, lock, queue, job, wire>>
      BY <1>1 DEF SaveProfile
    <2> QED BY <2>1, <2>2, <2>3, SaveKeeps
  <1> QED BY <1>2, <1>3

Surroundings ==
  \/ Disconnect
  \/ \E k \in SessionKeys : Connect(k)
  \/ \E p \in Profiles : Remember(p)
  \/ \E new \in Entered : EditOptions(new)
  \/ \E new \in {stored, [stored EXCEPT !.controls = details.controls]} : SaveOther(new)

LEMMA SurroundingsKeep ==
  ASSUME IInv, Surroundings
  PROVE  IInv'
  <1>1. /\ shown = [k \in Keys |-> shown[k]] /\ details \in Details /\ stored \in Details
        /\ link \in Links /\ profile \in Profiles \cup {Pending}
    BY DEF IInv, Typed
  <1>2. CASE Disconnect
    BY <1>1, <1>2, ChangeOutsideKeeps DEF Disconnect, records, Links
  <1>3. CASE \E k \in SessionKeys : Connect(k)
    BY <1>1, <1>3, ChangeOutsideKeeps DEF Connect, records, Links
  <1>4. CASE \E p \in Profiles : Remember(p)
    BY <1>1, <1>4, ChangeOutsideKeeps DEF Remember, Forgets, records
  <1>5. CASE \E new \in Entered : EditOptions(new)
    BY <1>1, <1>5, DetailsStay, ChangeOutsideKeeps DEF EditOptions
  <1>6. CASE \E new \in {stored, [stored EXCEPT !.controls = details.controls]} : SaveOther(new)
    <2>1. [stored EXCEPT !.controls = details.controls] \in Details
      BY <1>1 DEF Details
    <2> QED BY <1>1, <1>6, <2>1, ChangeOutsideKeeps DEF SaveOther
  <1> QED BY <1>2, <1>3, <1>4, <1>5, <1>6 DEF Surroundings

-----------------------------------------------------------------------------
(* The invariant.                                                          *)

LEMMA Starts == Init => IInv
  <1> SUFFICES ASSUME Init PROVE IInv
    OBVIOUS
  <1>1. Typed
    <2>1. None \in Processes \cup {None} /\ First \in Profiles /\ FirstKey \in Links
      BY NamesAssumption DEF Links
    <2>2. <<>> \in Seq(Command)
      OBVIOUS
    <2>3. foreign \in [Keys -> Nat] /\ details \in Details /\ stored \in Details
      BY DetailsStay DEF Init
    <2>4. \A p \in Processes : IsJob(job[p]) /\ IsRequest(wire[p])
      BY NoJobIsOne DEF Init
    <2> QED BY <2>1, <2>2, <2>3, <2>4 DEF Init, Typed
  <1>2. ASSUME NEW p \in Processes
        PROVE  Works(p)
    <2>1. job[p].pc = "idle" /\ job[p].kind = "refresh" /\ ~job[p].sent
          /\ wire[p].state = "quiet" /\ lock # p
      BY NoJobIsOne, NamesAssumption DEF Init, Processes
    <2> QED BY <2>1 DEF Works, TakesTurns, KnowsItsJob, Answered, Compared, Working, Changing, Changes
  <1>3. \A k \in Keys : ShownSince(k)
    BY DEF Init, ShownSince
  <1> QED BY <1>1, <1>2, <1>3 DEF IInv

LEMMA StepKeeps == IInv /\ [Next]_vars => IInv'
  <1> SUFFICES ASSUME IInv, [Next]_vars PROVE IInv'
    OBVIOUS
  <1>1. CASE Commands
    BY <1>1, EnqueueKeeps DEF Commands
  <1>2. CASE \E aged \in BOOLEAN : TakeCommand(aged)
    BY <1>2, TakeCommandKeeps
  <1>3. CASE \E e \in Editors : Calls(e)
    BY <1>3, EditorCallsKeeps DEF Calls
  <1>4. CASE RefreshIsDue
    BY <1>4, RefreshIsDueKeeps
  <1>5. CASE \E p \in Processes : Steps(p)
    <2> PICK p \in Processes : Steps(p)
      BY <1>5
    <2>1. CASE TakeLock(p) \/ SendWrite(p) \/ Resume(p) \/ RefreshEnds(p) \/ Publish
      BY <2>1, TakeLockKeeps, SendWriteKeeps, ResumeKeeps, RefreshEndsKeeps, PublishKeeps
    <2>2. CASE \E how \in Failures \cup {"done"} : Hears(p, how)
      BY <2>2, HeardCurrentKeeps, HeardComparisonKeeps, HeardWrittenKeeps,
         HeardConfirmationKeeps, HeardReadingKeeps, HeardFetchedKeeps DEF Hears
    <2> QED BY <2>1, <2>2 DEF Steps
  <1>6. CASE \E p \in Processes : InverterReads(p) \/ InverterWrites(p)
    BY <1>6, InverterReadsKeeps, InverterWritesKeeps
  <1>7. CASE \E k \in Keys : \E part \in Parts(k), v \in 0..1 :
               CloudWrites(k, [inverter[k] EXCEPT ![part] = v])
    BY <1>7, CloudWritesKeeps
  <1>8. CASE Surroundings
    BY <1>8, SurroundingsKeep
  <1>9. CASE \/ \E new \in Entered, otherFamily \in BOOLEAN : SaveProfile(new, otherFamily)
             \/ \E firmware \in Firmwares : SaveFirmware(firmware)
    BY <1>9, SavesKeep
  <1>10. CASE UNCHANGED vars
    <2>1. UNCHANGED <<inverter, foreign, shown, link, profile, details, stored, corrected, lock,
                      queue, job, wire>>
      BY <1>10 DEF vars, device, records
    <2> QED BY <2>1, ChangeOutsideKeeps DEF IInv, Typed
  <1> QED BY <1>1, <1>2, <1>3, <1>4, <1>5, <1>6, <1>7, <1>8, <1>9, <1>10 DEF Next, Surroundings

\* The invariant holds of every reachable state.
LEMMA Invariance == Spec => []IInv
  BY Starts, StepKeeps, PTL DEF Spec

-----------------------------------------------------------------------------
(* What the page shows.                                                    *)

\* While nobody works on the settings, what is shown is what the inverter holds,
\* unless the cloud wrote it since, and was read after the last save for this inverter
\* that corrected its model or firmware.
THEOREM PageIsTrue == Spec => []ShownIsCurrent
  <1>1. IInv => ShownIsCurrent
    <2> SUFFICES ASSUME IInv, lock = None, NEW k \in Keys, shown[k] # Unknown
                 PROVE  /\ shown[k].seen = foreign[k] => shown[k].held = inverter[k]
                        /\ shown[k].under = corrected
      BY DEF ShownIsCurrent
    <2>1. ~BeingWritten(k)
      <3>1. None \notin Processes
        BY NamesAssumption DEF Processes
      <3> QED BY <3>1 DEF IInv, Works, TakesTurns, BeingWritten, Writing, Working
    <2> QED BY <2>1 DEF IInv, ShownSince, Seen
  <1> QED BY <1>1, Invariance, PTL

-----------------------------------------------------------------------------
(* What is sent.                                                           *)

\* Only one step sends, and it checks the job against the present.
LEMMA SendingChecks ==
  ASSUME IInv, [Next]_vars, NEW p \in Processes, Sends(p)
  PROVE  job[p].pc = "write" /\ wire[p].state = "quiet" /\ Current(p)
  <1>1. ASSUME NEW q \in Processes, wire' = [wire EXCEPT ![q] = Quiet]
        PROVE  FALSE
    BY <1>1, NoJobIsOne DEF Sends, IInv, Typed
  <1>2. ASSUME UNCHANGED wire
        PROVE  FALSE
    BY <1>2 DEF Sends
  <1>3. ASSUME NEW q \in Processes, SendWrite(q)
        PROVE  job[p].pc = "write" /\ wire[p].state = "quiet" /\ Current(p)
    <2>1. ~EndsForgetting(q, "nothing sent") /\ ~EndsForgetting(q, "failed")
      BY <1>1 DEF EndsForgetting, Ends
    <2>2. Current(q) /\ job[q].pc = "write" /\ wire[q] = Quiet
          /\ \A r \in Processes \ {q} : wire'[r] = wire[r]
      BY <1>3, <2>1 DEF SendWrite, IInv, Typed
    <2> QED BY <2>2, NoJobIsOne DEF Sends
  <1>4. ASSUME NEW q \in Processes, InverterReads(q)
        PROVE  FALSE
    <2>1. wire'[p] = wire[p] \/ wire'[p].state = "read"
      BY <1>4 DEF InverterReads, IInv, Typed
    <2> QED BY <2>1 DEF Sends
  <1>5. ASSUME NEW q \in Processes, InverterWrites(q)
        PROVE  FALSE
    <2>1. wire'[p] = wire[p] \/ wire'[p].state = "written"
      BY <1>5, RequestsChange DEF InverterWrites, IInv, Typed
    <2> QED BY <2>1 DEF Sends
  <1>6. ASSUME NEW q \in Processes, NEW how, Hears(q, how)
        PROVE  FALSE
    BY <1>1, <1>6 DEF Hears, HeardCurrent, HeardComparison, HeardWritten, HeardConfirmation,
       HeardReading, HeardFetched, ContinuesIfCurrent, Continues, EndsForgetting, Ends
  <1>7. ASSUME NEW q \in Processes, TakeLock(q) \/ Resume(q) \/ RefreshEnds(q) \/ Publish
        PROVE  FALSE
    BY <1>1, <1>2, <1>7 DEF TakeLock, Resume, RefreshEnds, Publish, ContinuesIfCurrent, Continues,
       EndsForgetting, Ends
  <1>8. ASSUME NEW q \in Processes, Steps(q)
        PROVE  job[p].pc = "write" /\ wire[p].state = "quiet" /\ Current(p)
    BY <1>3, <1>6, <1>7, <1>8 DEF Steps
  <1>9. ASSUME \/ Commands \/ (\E aged \in BOOLEAN : TakeCommand(aged))
               \/ (\E e \in Editors : Calls(e)) \/ RefreshIsDue
        PROVE  FALSE
    BY <1>2, <1>9 DEF Commands, Enqueue, TakeCommand, Calls, EditorCalls, RefreshIsDue
  <1>10. ASSUME \/ (\E k \in Keys : \E part \in Parts(k), v \in 0..1 :
                     CloudWrites(k, [inverter[k] EXCEPT ![part] = v]))
                \/ Surroundings
                \/ (\E new \in Entered, otherFamily \in BOOLEAN : SaveProfile(new, otherFamily))
                \/ (\E firmware \in Firmwares : SaveFirmware(firmware))
                \/ UNCHANGED vars
         PROVE  FALSE
    BY <1>2, <1>10 DEF CloudWrites, Surroundings, Disconnect, Connect, Remember, EditOptions,
       SaveOther, SaveFirmware, SaveProfile, vars
  <1> QED BY <1>4, <1>5, <1>8, <1>9, <1>10 DEF Next, Surroundings

\* A change is sent once, and only under the session key, the profile and the details
\* under which the user gave it.
THEOREM ChangesAreSentOnce == Spec => SentOnceWhileCurrent
  <1>1. ASSUME IInv, [Next]_vars, NEW p \in Processes, Sends(p)
        PROVE  ~job[p].sent /\ job[p].origin = Now
    <2>1. job[p].pc = "write" /\ wire[p].state = "quiet" /\ job[p].checked = Now
      BY <1>1, SendingChecks DEF Current
    <2> QED BY <1>1, <2>1 DEF IInv, Works, KnowsItsJob, Changing, Outcomes
  <1>2. IInv /\ [Next]_vars =>
          [\A p \in Processes : Sends(p) => ~job[p].sent /\ job[p].origin = Now]_vars
    BY <1>1
  <1> QED BY <1>2, Invariance, PTL DEF Spec, SentOnceWhileCurrent

\* A period is written over what its change started from, unless the cloud wrote it
\* after the comparison.
THEOREM ChangesStartFromTheInverter == Spec => NoLostUpdate
  <1>1. ASSUME IInv, [Next]_vars, NEW p \in Processes, Sends(p), job[p].key \in Periods
        PROVE  \/ inverter[job[p].key] = job[p].expected
               \/ foreign[job[p].key] # job[p].seen
    <2>1. job[p].pc = "write" /\ wire[p].state = "quiet"
      BY <1>1, SendingChecks
    <2> QED BY <1>1, <2>1 DEF IInv, Works, Compared, Seen
  <1>2. IInv /\ [Next]_vars =>
          [\A p \in Processes : Sends(p) /\ job[p].key \in Periods =>
             \/ inverter[job[p].key] = job[p].expected
             \/ foreign[job[p].key] # job[p].seen]_vars
    BY <1>1
  <1> QED BY <1>2, Invariance, PTL DEF Spec, NoLostUpdate

=============================================================================
