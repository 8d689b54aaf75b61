----------------------------- MODULE MCPublisher -----------------------------
(* Two inverters and two profiles that share one entity; the battery profile *)
(* also clears what an earlier release may have left under "energy".         *)
EXTENDS Publisher, TLC
PlainOrBattery == [plain |-> {"power", "energy"}, battery |-> {"power"}]
BatteryLineage == [plain |-> {}, battery |-> {"energy"}]
AnyDevice == Permutations(Devices)
=============================================================================
