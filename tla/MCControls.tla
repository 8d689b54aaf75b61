----------------------------- MODULE MCControls -----------------------------
(* One control and one charging period; only the storage profile has the period. *)
EXTENDS Controls
GridOrStorage == [offer \in {"grid", "storage"} \X {"auto"} \X {"SPH", "MIN"} |->
    IF offer[1] = "storage" /\ offer[3] = "SPH" THEN {"output_limit", "charge_1"}
                                               ELSE {"output_limit"}]
Details(model, firmware) == [controls |-> "auto", model |-> model, firmware |-> firmware]
\* The model in the app's options was changed, and is not in use yet.
ModelChanged == {[active |-> Details("SPH", "v1"), stored |-> Details("MIN", "v1")]}
OtherFirmwareEntered == {Details("SPH", "v2")}
ThreeWishes == {[kind |-> "set", key |-> "output_limit", part |-> "value", val |-> 1],
                [kind |-> "edit", key |-> "charge_1", part |-> "start", val |-> 1],
                [kind |-> "refresh", key |-> "none", part |-> "value", val |-> 0]}
\* A page that shows the period as it was before anybody changed it.
OldPage == {[expected |-> [start |-> 0, enabled |-> 0], target |-> [start |-> 0, enabled |-> 1]]}
=============================================================================
