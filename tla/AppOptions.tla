------------------------------ MODULE AppOptions ------------------------------
(***************************************************************************)
(* Saving an inverter's profile in the app's options (supervisor.py, and   *)
(* its two callers in support.py).                                         *)
(*                                                                         *)
(* The Supervisor only knows to replace all options.  The app reads them,  *)
(* changes one inverter's, reads them again and, if they are the same,     *)
(* sends all of them; then it goes on with what it sent.  Its own saves    *)
(* take turns (_profile_lock); the app configuration of Home Assistant can *)
(* be saved at any moment.                                                 *)
(*                                                                         *)
(* Of an inverter's options the reading family, the control model and the  *)
(* firmware are kept apart as far as these saves do: profile is the first  *)
(* two, detail the third.  The device lock and what becomes of the cached  *)
(* settings is Controls'.                                                  *)
(***************************************************************************)
EXTENDS Naturals, FiniteSets

CONSTANTS
  Inverters,
  Profiles, Details,
  MaxEdits,    \* bound: saves of the app configuration
  MaxSaves     \* bound: saves by the app

VARIABLES
  stored,      \* the options: [Inverters -> [profile, detail]]
  active,      \* pipeline.settings, what the app runs with
  save,        \* the save under way
  edits, saves,
  wanted,      \* history: what was last chosen, by anybody
  crossed,     \* history: inverters edited between the second look and the sending
  restored     \* history: inverters whose profile a firmware reading put back

vars == <<stored, active, save, edits, saves, wanted, crossed, restored>>

Idle == [pc |-> "idle"]
Option == [profile : Profiles, detail : Details]

Init ==
  /\ \E o \in Option : stored = [i \in Inverters |-> o]
  /\ active = stored /\ save = Idle
  /\ edits = 0 /\ saves = 0
  /\ wanted = stored /\ crossed = {} /\ restored = {}

\* The app configuration of Home Assistant is saved with one inverter's changed.
Edit(i, o) ==
  /\ edits < MaxEdits /\ o # stored[i] /\ edits' = edits + 1
  /\ stored' = [stored EXCEPT ![i] = o]
  /\ wanted' = [stored EXCEPT ![i] = o]
  /\ crossed' = IF save.pc = "send" THEN crossed \cup {i} ELSE crossed \ {i}
  /\ restored' = restored \ {i}
  /\ UNCHANGED <<active, save, saves>>

\* The options that the save will send, from the ones just read: the inverter's profile
\* replaced, its details changed where the caller gives some.
Proposed(i, profile, detail) == [stored EXCEPT ![i] = [profile |-> profile, detail |-> detail]]

Starts(i, how, profile, detail) ==
  /\ save.pc = "idle" /\ saves < MaxSaves /\ saves' = saves + 1
  /\ save' = [pc |-> "look", how |-> how, inverter |-> i, read |-> stored,
              send |-> Proposed(i, profile, detail)]
  /\ UNCHANGED <<stored, active, edits, wanted, crossed, restored>>

\* The page sends the profile chosen, and the details shown if they were changed.
SaveProfile(i, profile, detail) ==
  \E d \in {detail, stored[i].detail} : Starts(i, "page", profile, d)

\* Reading the firmware saves it with the profile the app runs with.
SaveFirmware(i, detail) == Starts(i, "firmware", active[i].profile, detail)

\* The second look: a change that is seen refuses the save.
OneInverter_Unchanged == stored[save.inverter] = save.read[save.inverter]
Unchanged == stored = save.read
Look ==
  /\ save.pc = "look"
  /\ save' = IF Unchanged THEN [save EXCEPT !.pc = "send"] ELSE Idle
  /\ UNCHANGED <<stored, active, edits, saves, wanted, crossed, restored>>

\* What the page chose, and what a firmware reading found, is now wanted.
Send ==
  LET i == save.inverter
      given == IF save.how = "page" THEN save.send[i] ELSE [save.send[i] EXCEPT !.profile = wanted[i].profile]
  IN /\ save.pc = "send"
     /\ stored' = save.send
     /\ wanted' = [wanted EXCEPT ![i] = given]
     /\ restored' = IF given # save.send[i] THEN restored \cup {i} ELSE restored \ {i}
     /\ crossed' = IF save.how = "page" THEN crossed \ {i} ELSE crossed
     /\ save' = [save EXCEPT !.pc = "apply"]
     /\ UNCHANGED <<active, edits, saves>>

\* The page's save brings in all profiles sent, the other one the firmware alone.
Apply ==
  /\ save.pc = "apply" /\ save' = Idle
  /\ active' = [i \in Inverters |->
       IF save.how = "page" THEN save.send[i] ELSE [active[i] EXCEPT !.detail = save.send[i].detail]]
  /\ UNCHANGED <<stored, edits, saves, wanted, crossed, restored>>

\* A request fails; the Supervisor may have carried it out.
Fail ==
  /\ save.pc \in {"look", "send", "apply"} /\ save' = Idle
  /\ UNCHANGED <<stored, active, edits, saves, wanted, crossed, restored>>

\* The app starts anew, with what is stored.
Restart ==
  /\ save' = Idle /\ active' = stored
  /\ UNCHANGED <<stored, edits, saves, wanted, crossed, restored>>

Next ==
  \/ \E i \in Inverters, o \in Option : Edit(i, o)
  \/ \E i \in Inverters, p \in Profiles, d \in Details : SaveProfile(i, p, d)
  \/ \E i \in Inverters, d \in Details : SaveFirmware(i, d)
  \/ Look \/ Send \/ Apply \/ Fail \/ Restart

Spec == Init /\ [][Next]_vars

-----------------------------------------------------------------------------
(* Nobody's choice is undone by the app's save, which replaces them all,   *)
(* but for two cases: one made after the save looked a second time         *)
(* (supervisor.py:56), and one of a profile the app does not run with yet, *)
(* when the firmware is read (support.py:257).                             *)
ChoicesAreKept ==
  \A i \in Inverters : stored[i] = wanted[i] \/ i \in crossed \cup restored

=============================================================================
