----------------------------- MODULE EntryOptions -----------------------------
(***************************************************************************)
(* The options of one entry of the integration and the receiver that runs  *)
(* with them (config_flow.py, output_config.py, modbus_identity.py, and    *)
(* setup, reload and unload in __init__.py).                               *)
(*                                                                         *)
(* A form replaces the whole options object by the one it read with its    *)
(* own fields changed.  Only the receiver's form waits in between, for the *)
(* check that a new port is free.  A save calls the update listener, which *)
(* reloads the entry; the listener is registered when the setup has ended  *)
(* and removed when the unloading has.                                     *)
(*                                                                         *)
(* The fields of a form that are always saved together are one field here, *)
(* with a password among the values of its output.  Home Assistant's part  *)
(* (listeners, the lock around a reload) is external.                      *)
(***************************************************************************)
EXTENDS Naturals, FiniteSets

CONSTANTS
  Windows,     \* browser windows in which forms are open
  Inverters,
  Destinations, \* the optional outputs: HTTP, PVOutput, InfluxDB, MQTT
  Ports, Choices, Connections,
  Free,        \* in Ports and Connections: what entry.data holds
  MaxSaves     \* bound: forms sent

VARIABLES
  kind,        \* entry.data["mode"]: "direct" or "modbus"
  options,     \* entry.options over entry.data
  form,        \* what each window waits for
  entry,       \* loaded, unloading, setup, failed, stuck
  running,     \* the options the hub was made with
  reloads,     \* reloads that wait for the entry
  saves,
  chosen,      \* history: for each field the last value sent by a form that has it
  missed,      \* history: fields others saved since the form of a window was sent
  putBack,     \* history: fields that a form saved which had missed them
  unheard      \* history: options were saved since the hub was made, with no listener

vars == <<kind, options, form, entry, running, reloads, saves, chosen, missed, putBack, unheard>>
books == <<kind, options, chosen, missed, putBack, unheard>>

Idle == [pc |-> "idle"]

\* data and options with their defaults; the port and a Modbus connection are
\* compared, the others only replaced.
Fields ==
  IF kind = "direct"
    THEN {"port", "receiver"} \cup Inverters \cup Destinations
    ELSE {"connection", "polling"}

Initially(f, c) == IF f \in {"port", "connection"} THEN Free ELSE c

Init ==
  /\ kind \in {"direct", "modbus"}
  /\ \E c \in Choices : options = [f \in Fields |-> Initially(f, c)]
  /\ form = [w \in Windows |-> Idle]
  /\ entry = "loaded" /\ running = options
  /\ reloads = 0 /\ saves = 0
  /\ chosen = options /\ missed = [w \in Windows |-> {}] /\ putBack = {} /\ unheard = FALSE

-----------------------------------------------------------------------------
(* Forms. *)

\* The update listener is registered.
Listening == entry \in {"loaded", "unloading", "stuck"}

\* async_create_entry: what the form read, with its own values. passed are the fields
\* that others saved after it read the options.
Save(base, input, passed) ==
  LET new == [f \in Fields |-> IF f \in DOMAIN input THEN input[f] ELSE base[f]]
  IN /\ options' = new
     /\ chosen' = [f \in Fields |-> IF f \in DOMAIN input THEN input[f] ELSE chosen[f]]
     /\ missed' = [w \in Windows |->
                     IF form'[w].pc = "checking" THEN missed[w] \cup DOMAIN input ELSE {}]
     /\ putBack' = (putBack \cup passed) \ DOMAIN input
     /\ UNCHANGED kind
     /\ IF new # options /\ Listening
          THEN reloads' = reloads + 1 /\ UNCHANGED unheard
          ELSE unheard' = (unheard \/ new # options) /\ UNCHANGED reloads

Sent == saves < MaxSaves /\ saves' = saves + 1

\* The receiver's form. A new port is tried first, with what was read of the options.
SendReceiver(w, port, choice) ==
  /\ kind = "direct" /\ Sent /\ form[w].pc = "idle"
  /\ LET input == [f \in {"port", "receiver"} |-> IF f = "port" THEN port ELSE choice]
     IN IF port # options["port"]
          THEN /\ form' = [form EXCEPT ![w] = [pc |-> "checking", base |-> options, input |-> input]]
               /\ UNCHANGED <<books, reloads>>
          ELSE UNCHANGED form /\ Save(options, input, {})
  /\ UNCHANGED <<entry, running>>

\* The port could be bound, or it is in use, perhaps by the hub itself.
PortChecked(w, free) ==
  /\ form[w].pc = "checking"
  /\ free => entry = "failed" \/ running["port"] # form[w].input["port"]
  /\ form' = [form EXCEPT ![w] = Idle]
  /\ IF free
       THEN Save(form[w].base, form[w].input, missed[w])
       ELSE /\ missed' = [missed EXCEPT ![w] = {}]
            /\ UNCHANGED <<kind, options, chosen, putBack, unheard, reloads>>
  /\ UNCHANGED <<entry, running, saves>>

\* The model of one inverter; the others' models are kept.
SendModel(i, choice) ==
  /\ kind = "direct" /\ Sent
  /\ UNCHANGED <<form, entry, running>>
  /\ Save(options, [f \in {i} |-> choice], {})

Running_SendOutput(d, choice, valid) ==
  /\ kind = "direct" /\ Sent
  /\ UNCHANGED <<form, entry, running>>
  /\ IF valid THEN Save(running, [f \in {d} |-> choice], {})
     ELSE UNCHANGED <<books, reloads>>

\* An output's form is refused if the outputs are not valid with it (a password is
\* missing, ...); otherwise it saves its own fields.
SendOutput(d, choice, valid) ==
  /\ kind = "direct" /\ Sent
  /\ UNCHANGED <<form, entry, running>>
  /\ IF valid THEN Save(options, [f \in {d} |-> choice], {})
     ELSE UNCHANGED <<books, reloads>>

\* A Modbus entry keeps its connection for good.
SameConnection(connection) == connection = options["connection"]

SendModbus(connection, choice) ==
  /\ kind = "modbus" /\ Sent
  /\ UNCHANGED <<form, entry, running>>
  /\ IF SameConnection(connection)
       THEN Save(options, [f \in {"connection", "polling"} |->
                             IF f = "connection" THEN connection ELSE choice], {})
       ELSE UNCHANGED <<books, reloads>>

-----------------------------------------------------------------------------
(* Reload. *)

\* reload_options, one at a time.
Unload ==
  /\ reloads > 0 /\ entry = "loaded"
  /\ reloads' = reloads - 1
  /\ entry' = "unloading"
  /\ UNCHANGED <<books, form, running, saves>>

\* The platforms refuse to unload: the hub runs on, and no reload will help.
UnloadFails ==
  /\ entry = "unloading"
  /\ entry' = "stuck" /\ reloads' = 0
  /\ UNCHANGED <<books, form, running, saves>>

Stale_MakeHub == entry' = "setup" /\ running' = running /\ unheard' = FALSE
\* A hub is made with the options of now.
MakeHub == entry' = "setup" /\ running' = options /\ unheard' = FALSE

\* The hub is closed and the listener removed, then the entry is set up again.
Setup ==
  /\ entry = "unloading" /\ MakeHub
  /\ UNCHANGED <<kind, options, chosen, missed, putBack, form, reloads, saves>>

\* An entry whose setup failed is only set up: by a reload still waiting, or the user's.
SetupAgain ==
  /\ entry = "failed" /\ MakeHub
  /\ reloads' = IF reloads > 0 THEN reloads - 1 ELSE 0
  /\ UNCHANGED <<kind, options, chosen, missed, putBack, form, saves>>

\* The hub is started and the platforms are set up, then the listener is registered.
SetupEnds ==
  /\ entry = "setup" /\ entry' = "loaded"
  /\ UNCHANGED <<books, form, running, reloads, saves>>

\* The port is taken, or a platform fails: the hub is closed again.
SetupFails ==
  /\ entry = "setup" /\ entry' = "failed"
  /\ UNCHANGED <<books, form, running, reloads, saves>>

\* Home Assistant starts anew, with what is stored.
Restart ==
  /\ MakeHub
  /\ form' = [w \in Windows |-> Idle] /\ missed' = [w \in Windows |-> {}] /\ reloads' = 0
  /\ UNCHANGED <<kind, options, chosen, putBack, saves>>

Next ==
  \/ \E w \in Windows :
       \/ \E port \in Ports, choice \in Choices : SendReceiver(w, port, choice)
       \/ \E free \in BOOLEAN : PortChecked(w, free)
  \/ \E i \in Inverters, choice \in Choices : SendModel(i, choice)
  \/ \E d \in Destinations, choice \in Choices, valid \in BOOLEAN : SendOutput(d, choice, valid)
  \/ \E k \in Connections, choice \in Choices : SendModbus(k, choice)
  \/ Unload \/ UnloadFails \/ Setup \/ SetupAgain \/ SetupEnds \/ SetupFails \/ Restart

Spec == Init /\ [][Next]_vars

-----------------------------------------------------------------------------
(* What a form saved stays until a form with the same fields is saved; the *)
(* one exception is the receiver's form that was sent before and waited    *)
(* for its port meanwhile, which saves what it read of the other fields    *)
(* (config_flow.py:333, 361). No other form, no reload and no failed setup *)
(* loses a save, and a form that waited loses only what it missed.         *)
SavesAreKept ==
  \A f \in Fields : options[f] = chosen[f] \/ f \in putBack

(* A loaded entry runs with the options that are saved, or a reload is on  *)
(* its way; except for options saved while it was being set up, which no   *)
(* listener heard of yet (__init__.py:28-41, 47-59).                       *)
RunsWhatWasSaved ==
  entry = "loaded" /\ reloads = 0 => running = options \/ unheard

=============================================================================
