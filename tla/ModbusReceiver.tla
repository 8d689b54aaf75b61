---------------------------- MODULE ModbusReceiver ----------------------------
(***************************************************************************)
(* Polling one inverter over Modbus (modbus_receiver.py).                  *)
(*                                                                         *)
(* A full poll reads the blocks of its profile in requests of at most      *)
(* block_words words, decodes them, refuses a lifetime energy below the    *)
(* last accepted one, keeps the reading, saves it in a thread and tells    *)
(* the listeners.  A fast poll reads the power registers only.  Both hold  *)
(* _poll_lock throughout.  The inverter counts on between two requests, so *)
(* the halves of a counter may come from different moments.                *)
(*                                                                         *)
(* Values other than the two energy counters are left out, with the checks *)
(* of their plausibility (a poll may fail for any other reason), and so is *)
(* the raw investigation profile, which is read once and never compared.   *)
(***************************************************************************)
EXTENDS Integers, Sequences, FiniteSets

CONSTANTS
  Configured,   \* entries: [profile, words (a request's size)], and the inverter
                \* behind: [dtc (its type code), input3000 (it has that range)]
  WordBase,     \* values of one register, 65536 in the code
  MaxTotal,     \* bound: what the inverter ever counts
  None

VARIABLES
  cfg,          \* the entry and its inverter
  today, total, \* the inverter's counters
  pc,           \* off, idle, full, decode, saving, fast, fastDecode
  todo,         \* requests of the poll still to send
  words,        \* registers of the counters read by this poll
  covered,      \* blocks this poll read completely
  profile,      \* active_profile of the poll
  detected,     \* detected_profile
  snapshot,     \* the reading kept: its lifetime energy and profile
  connected,
  disk,         \* the saved reading
  straggler,    \* a save whose poll was cancelled: its thread goes on
  still         \* history: the counters stood still during this poll

Community == INSTANCE SequencesExt

inverter == <<today, total>>
vars == <<cfg, inverter, pc, todo, words, covered, profile, detected, snapshot, connected,
          disk, straggler, still>>

-----------------------------------------------------------------------------
(* Register maps. *)

Auto == "auto"
Min == "min-3000-v124"
Min3 == "min-three-string-v124"
Tl3 == "tl3-three-phase-v139"
Mic == "mic-0-v314"
Legacy == "legacy-0-v124"

PROFILES ==
  [p \in {Min, Min3, Tl3, Mic, Legacy} |->
     CASE p \in {Min, Min3} -> <<<<3000, 30>>, <<3047, 32>>>>
       [] p = Tl3 -> <<<<3000, 30>>, <<3030, 11>>, <<3047, 32>>>>
       [] p = Mic -> <<<<0, 32>>, <<32, 26>>>>
       [] p = Legacy -> <<<<0, 11>>, <<35, 32>>>>]
OPTIONAL_BLOCKS == [p \in DOMAIN PROFILES |-> IF p \in {Min3, Tl3} THEN <<<<3086, 23>>>> ELSE <<>>]
POWER_BLOCKS ==
  [p \in DOMAIN PROFILES |->
     CASE p = Min -> <<<<3001, 10>>, <<3023, 2>>>>
       [] p \in {Min3, Tl3} -> <<<<3001, 14>>, <<3023, 2>>>>
       [] p = Mic -> <<<<1, 6>>, <<11, 2>>>>
       [] p = Legacy -> <<<<1, 10>>, <<35, 2>>>>]

Pair(a) == {a, a + 1}
Pairs(S) == UNION {Pair(a) : a \in S}
Every(first, last, step) == {a \in first..last : (a - first) % step = 0}

\* The registers decode_power_registers and decode_input_registers look up.
PowerUses(p) ==
  LET base == IF p \in {Min, Min3, Tl3} THEN 3000 ELSE 0
      output == CASE p = Legacy -> 35 [] p = Mic -> 11 [] OTHER -> 3023
  IN Pairs({base + 1, base + 5, output} \cup (IF p = Mic THEN {} ELSE {base + 9})
           \cup (IF p \in {Min3, Tl3} THEN {3013} ELSE {}))

Uses(p, read) ==
  CASE p \in {Min, Min3, Tl3} ->
         {3000, 3003, 3004, 3007, 3008, 3025, 3026, 3027}
           \cup Pairs({3001, 3005, 3009, 3023} \cup Every(3047, 3061, 2))
           \cup (IF p = Min THEN {} ELSE {3011, 3012} \cup Pairs({3013, 3063, 3065}))
           \cup (IF p = Tl3 THEN (3030..3040) \cup Pairs({3028}) ELSE {})
           \cup (IF p # Min /\ 3086 \in read THEN {3086, 3093, 3094, 3095, 3105, 3106} ELSE {})
    [] p = Mic -> {0, 3, 4, 13, 14, 15, 32, 40, 41, 47} \cup Pairs({1, 5, 11, 26, 28, 30, 48, 50, 56})
    [] p = Legacy -> {0, 3, 4, 7, 8, 37, 38, 39} \cup Pairs({1, 5, 9, 35} \cup Every(53, 65, 2))

TodayAt(p) == CASE p = Mic -> 26 [] p = Legacy -> 53 [] OTHER -> 3049
TotalAt(p) == TodayAt(p) + 2

Addresses(block) == block[1]..(block[1] + block[2] - 1)
Read == UNION {Addresses(b) : b \in covered}

\* _read_block: a block in requests of at most the configured size.
RequestsOf(block) ==
  [k \in 1..((block[2] + cfg.words - 1) \div cfg.words) |->
     LET offset == (k - 1) * cfg.words
     IN [block |-> block, first |-> block[1] + offset,
         count |-> IF block[2] - offset < cfg.words THEN block[2] - offset ELSE cfg.words]]

RequestsFor(blocks) == Community!FlattenSeq([k \in DOMAIN blocks |-> RequestsOf(blocks[k])])

-----------------------------------------------------------------------------
\* __init__ refuses other entries; a raw block is not polled here.
Valid(c) == c.profile \in DOMAIN PROFILES \cup {Auto} /\ c.words \in 4..32

Init ==
  /\ cfg \in {c \in Configured : Valid(c)}
  /\ today = 0 /\ total = 0
  /\ pc = "off" /\ todo = <<>> /\ words = <<>> /\ covered = {} /\ profile = None
  /\ detected = None /\ snapshot = None /\ connected = FALSE
  /\ disk = None /\ straggler = None /\ still = TRUE

Produce ==
  /\ total < MaxTotal
  /\ total' = total + 1 /\ today' = today + 1
  /\ still' = FALSE
  /\ UNCHANGED <<cfg, pc, todo, words, covered, profile, detected, snapshot, connected, disk, straggler>>

Midnight ==
  /\ today > 0
  /\ today' = 0 /\ still' = FALSE
  /\ UNCHANGED <<cfg, total, pc, todo, words, covered, profile, detected, snapshot, connected, disk, straggler>>

\* The saved reading is restored; one that cannot be read is as none.
Start ==
  /\ pc = "off"
  /\ pc' = "idle"
  /\ snapshot' \in {disk, None}
  /\ UNCHANGED <<cfg, inverter, todo, words, covered, profile, detected, connected, disk, straggler, still>>

Poll(next, p, requests) ==
  /\ pc = "idle"
  /\ pc' = next /\ profile' = p /\ todo' = requests
  /\ words' = <<>> /\ covered' = {} /\ still' = TRUE
  /\ UNCHANGED <<cfg, inverter, detected, snapshot, connected, disk, straggler>>

\* detect_input_profile: the device type code, then a probe of the 3000 range.
Identified ==
  CASE cfg.dtc \in {5100, 5200, 5201} /\ cfg.input3000 -> Min
    [] cfg.dtc = 5200 /\ ~cfg.input3000 -> Mic
    [] OTHER -> None

\* poll_once. An automatic profile is identified first, until a poll succeeded; an
\* inverter that cannot be identified is a poll that failed.
PollOnce ==
  LET p == CASE cfg.profile # Auto -> cfg.profile
             [] detected # None -> detected
             [] OTHER -> Identified
  IN p # None /\ Poll("full", p, RequestsFor(PROFILES[p] \o OPTIONAL_BLOCKS[p]))

PollPowerOnce ==
  LET p == IF cfg.profile = Auto THEN detected ELSE cfg.profile
  IN /\ snapshot # None /\ connected /\ p \in DOMAIN POWER_BLOCKS
     /\ Poll("fast", p, RequestsFor(POWER_BLOCKS[p]))

HighLow(n) == <<n \div WordBase, n % WordBase>>
\* What the counters' registers hold.
Register(a) ==
  CASE a \in Pair(TodayAt(profile)) -> HighLow(today)[a - TodayAt(profile) + 1]
    [] a \in Pair(TotalAt(profile)) -> HighLow(total)[a - TotalAt(profile) + 1]

\* One request is answered; after the last one of a block the block counts.
Request ==
  /\ pc \in {"full", "fast"} /\ todo # <<>>
  /\ LET r == Head(todo)
         new == (r.first..(r.first + r.count - 1)) \cap (Pair(TodayAt(profile)) \cup Pair(TotalAt(profile)))
     IN /\ words' = [a \in DOMAIN words \cup new |-> IF a \in new THEN Register(a) ELSE words[a]]
        /\ covered' = IF r.first + r.count = r.block[1] + r.block[2] THEN covered \cup {r.block} ELSE covered
  /\ todo' = Tail(todo)
  /\ pc' = IF Len(todo) > 1 THEN pc ELSE IF pc = "full" THEN "decode" ELSE "fastDecode"
  /\ UNCHANGED <<cfg, inverter, profile, detected, snapshot, connected, disk, straggler, still>>

Optional(r) == \E k \in DOMAIN OPTIONAL_BLOCKS[profile] : r.block = OPTIONAL_BLOCKS[profile][k]

\* A request of an optional block fails: the rest of the block is left out.
SkipOptional ==
  /\ pc = "full" /\ todo # <<>> /\ Optional(Head(todo))
  /\ todo' = <<>> /\ pc' = "decode"
  /\ UNCHANGED <<cfg, inverter, words, covered, profile, detected, snapshot, connected, disk, straggler, still>>

Fail ==
  /\ pc' = "idle" /\ todo' = <<>> /\ words' = <<>> /\ covered' = {}
  /\ connected' = (connected /\ pc \in {"fast", "fastDecode"})
  /\ UNCHANGED <<cfg, inverter, profile, detected, snapshot, disk, straggler, still>>

\* A request, the identification or a plausibility check fails.
PollFails == pc \in {"full", "decode", "fast", "fastDecode"} /\ Fail

Value(a) == words[a] * WordBase + words[a + 1]
Energy == [today |-> Value(TodayAt(profile)), total |-> Value(TotalAt(profile))]

Decodable ==
  /\ Uses(profile, Read) \subseteq Read
  /\ Energy.today <= Energy.total

Forward_Exact == snapshot # None /\ snapshot.profile = profile => Energy.total > snapshot.total

Forward == snapshot # None /\ snapshot.profile = profile => Energy.total >= snapshot.total

Accept ==
  /\ pc = "decode" /\ Decodable /\ Forward
  /\ snapshot' = [total |-> Energy.total, profile |-> profile]
  /\ detected' = IF cfg.profile = Auto THEN profile ELSE None
  /\ connected' = TRUE
  /\ pc' = "saving"
  /\ UNCHANGED <<cfg, inverter, todo, words, covered, profile, disk, straggler, still>>

\* A poll refused: it ends as one that failed.
Refuse == pc = "decode" /\ ~(Decodable /\ Forward) /\ Fail

\* The save succeeds or fails; then the listeners are told.
Publish ==
  /\ pc = "saving"
  /\ disk' \in {snapshot, disk}
  /\ pc' = "idle" /\ words' = <<>> /\ covered' = {}
  /\ UNCHANGED <<cfg, inverter, todo, profile, detected, snapshot, connected, straggler, still>>

\* Fresh power for the listeners: the reading kept stays as it is.
PublishPower ==
  /\ pc = "fastDecode" /\ PowerUses(profile) \subseteq Read
  /\ pc' = "idle" /\ covered' = {} /\ words' = <<>>
  /\ UNCHANGED <<cfg, inverter, todo, profile, detected, snapshot, connected, disk, straggler, still>>

\* close cancels the polls; a thread that saves goes on without them.
Close ==
  /\ pc # "off"
  /\ straggler' = IF pc = "saving" THEN snapshot ELSE straggler
  /\ pc' = "off" /\ todo' = <<>> /\ words' = <<>> /\ covered' = {} /\ profile' = None
  /\ detected' = None /\ snapshot' = None /\ connected' = FALSE /\ still' = TRUE
  /\ UNCHANGED <<cfg, inverter, disk>>

StragglerSaves ==
  /\ straggler # None
  /\ disk' = straggler /\ straggler' = None
  /\ UNCHANGED <<cfg, inverter, pc, todo, words, covered, profile, detected, snapshot, connected, still>>

Next ==
  \/ Produce \/ Midnight \/ Start \/ PollOnce \/ PollPowerOnce \/ Request \/ SkipOptional
  \/ PollFails \/ Accept \/ Refuse \/ Publish \/ PublishPower \/ Close \/ StragglerSaves

Spec == Init /\ [][Next]_vars

-----------------------------------------------------------------------------
(* A poll that read every block while the counters stood still is never    *)
(* refused: the maps name only registers that were read, and no reading    *)
(* put together from two moments was ever ahead of the inverter, which     *)
(* would block all later ones (modbus_receiver.py:178, 523, 537).          *)
CompletePollIsAccepted ==
  /\ pc = "decode" /\ still => Decodable /\ Forward
  /\ pc = "fastDecode" => PowerUses(profile) \subseteq Read

=============================================================================
