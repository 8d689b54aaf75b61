------------------------------- MODULE MCParts -------------------------------
(***************************************************************************)
(* Parts of the system that share no state, each on its own: the part is   *)
(* chosen at the beginning, and its variables are the first ones of a set  *)
(* that all parts use.  States and steps are those of the part's module.   *)
(***************************************************************************)
EXTENDS Naturals, Sequences, FiniteSets, TLC

CONSTANTS
  Parts,   \* the parts to look at
  A, B,    \* two interchangeable connections, values, calls, ... each
  None

VARIABLES
  part,
  x1, x2, x3, x4, x5, x6, x7, x8, x9, x10, x11, x12, x13, x14, x15, x16

-----------------------------------------------------------------------------
\* Where no frame begins, a byte may look like the beginning of one, or of none.
Sizes == [p \in 0..9 |-> CASE p \in {0, 3} -> 3 [] p \in {1, 6} -> 4 [] OTHER -> 0]

\* Every profile but one with requests that cut its blocks; automatic entries with each
\* kind of inverter.
Entry(p, n, code, has3000) == [profile |-> p, words |-> n, dtc |-> code, input3000 |-> has3000]
Entries ==
  {Entry("min-three-string-v124", 5, 5100, TRUE), Entry("tl3-three-phase-v139", 31, 5400, TRUE),
   Entry("legacy-0-v124", 18, 0, FALSE), Entry("auto", 29, 5200, FALSE),
   Entry("auto", 32, 5201, TRUE), Entry("auto", 32, 5201, FALSE)}

\* Two connections of two loggers with one inverter, and one request.
Takeover == INSTANCE StandaloneServer WITH
  Sessions <- A, Loggers <- B, Inverters <- {"inverter"}, Keys <- {"input 3000"},
  Callers <- {"caller"}, Nobody <- None, MaxConnections <- 2, MaxSequence <- 2,
  MaxDraws <- 1,
  state <- x1, name <- x2, behind <- x3, owesClock <- x4, registry <- x5, drawn <- x6,
  lock <- x7, call <- x8, atDevice <- x9, astray <- x10

\* One logger, and three requests: the third number is the first one again.
Answering == INSTANCE StandaloneServer WITH
  Sessions <- A, Loggers <- {"logger"}, Inverters <- {"inverter"},
  Keys <- {"input 3000"}, Callers <- {"caller"}, Nobody <- None, MaxConnections <- 2,
  MaxSequence <- 2, MaxDraws <- 3,
  state <- x1, name <- x2, behind <- x3, owesClock <- x4, registry <- x5, drawn <- x6,
  lock <- x7, call <- x8, atDevice <- x9, astray <- x10

\* Frames of 3, 3 and 4 bytes; sequence numbers wrap at the fifth byte.
Capture == INSTANCE StreamCapture WITH
  Modulus <- 16, Initial <- 12, Length <- 10, HeaderSize <- 2, Size <- Sizes,
  Starts <- {0, 3, 6},
  MaxWaiting <- 2, MaxSegment <- 4, Reach <- 6,
  tracked <- x1, expected <- x2, waiting <- x3, buffer <- x4, origin <- x5,
  taken <- x6, frames <- x7

\* Registers of one bit, so that the counters carry.
Modbus == INSTANCE ModbusReceiver WITH
  Configured <- Entries, WordBase <- 2, MaxTotal <- 2,
  cfg <- x1, today <- x2, total <- x3, pc <- x4, todo <- x5, words <- x6,
  covered <- x7, profile <- x8, detected <- x9, snapshot <- x10, connected <- x11,
  disk <- x12, straggler <- x13, still <- x14

\* Three inverters, two of which are admitted.
Native == INSTANCE NativeReceiver WITH
  Inverters <- A \cup {"third"}, MAX_DEVICES <- 2, MaxReadings <- 3,
  MaxStragglers <- 2, RecentEvents <- 1, BufferedRecords <- B,
  running <- x1, snapshots <- x2, live <- x3, observing <- x4, saving <- x5,
  stragglers <- x6, disk <- x7, cacheError <- x8, shown <- x9, recent <- x10,
  arrived <- x11, cutOff <- x12, unread <- x13

\* Two connections, whose keys may be the same.
Direct == INSTANCE DirectControls WITH
  Keys <- A, Profiles <- {"spf"}, Settings <- {"limit"},
  Offers <- [p \in {"spf"} |-> {"limit"}], Jobs <- {"refresh", "command"}, Values <- B,
  MaxConnections <- 2, MaxStates <- 2, MaxChanges <- 0, Nothing <- None,
  link <- x1, connections <- x2, held <- x3, changes <- x4, state <- x5, objects <- x6,
  locked <- x7, job <- x8, entities <- x9, reused <- x10

\* One connection, two profiles, and a change by the cloud.
Shared == INSTANCE DirectControls WITH
  Keys <- {"key"}, Profiles <- {"spf", "sph"}, Settings <- {"limit"},
  Offers <- [p \in {"spf", "sph"} |-> {"limit"}], Jobs <- {"refresh", "command"},
  Values <- B, MaxConnections <- 1, MaxStates <- 2, MaxChanges <- 1, Nothing <- None,
  link <- x1, connections <- x2, held <- x3, changes <- x4, state <- x5, objects <- x6,
  locked <- x7, job <- x8, entities <- x9, reused <- x10

\* One register, and a number the cloud uses twice.
Repetition == INSTANCE WriteAudit WITH
  Registers <- {7}, Values <- A, Acknowledgements <- {"byte"}, CloudNumbers <- {1, 2},
  MaxPending <- 2, MaxRegisters <- 1, MaxCloud <- 2,
  Most <- [local |-> 1, cloud |-> 2, read |-> 1], Unknown <- None,
  held <- x1, requests <- x2, replies <- x3, pending <- x4, registers <- x5,
  cloud_requests <- x6

\* Two local writes and one of the cloud.
Attribution == INSTANCE WriteAudit WITH
  Registers <- {7}, Values <- A, Acknowledgements <- {"echo"}, CloudNumbers <- {1},
  MaxPending <- 2, MaxRegisters <- 1, MaxCloud <- 1,
  Most <- [local |-> 2, cloud |-> 1, read |-> 1], Unknown <- None,
  held <- x1, requests <- x2, replies <- x3, pending <- x4, registers <- x5,
  cloud_requests <- x6

\* Two calls and the page, for one range.
Diagnosis == INSTANCE Diagnostics WITH
  Calls <- A, Page <- "page", Keys <- {"session"}, Ranges <- {"range"},
  Identifications <- {}, IdentifyReads <- 2, MaxPending <- 1, MaxSeen <- 1,
  QueueSize <- 1, MaxTokens <- 2, MaxChanges <- 1,
  link <- x1, details <- x2, changes <- x3, pending <- x4, closed <- x5, result <- x6,
  requests <- x7, expired <- x8, seen <- x9, queue <- x10, job <- x11, snapshot <- x12,
  tokens <- x13, replies <- x14, admitted <- x15, runs <- x16

\* One call and the page, also for an identification of two ranges.
Identification == INSTANCE Diagnostics WITH
  Calls <- {"call"}, Page <- "page", Keys <- {"session"}, Ranges <- {"range"},
  Identifications <- {"identify"}, IdentifyReads <- 2, MaxPending <- 1, MaxSeen <- 1,
  QueueSize <- 1, MaxTokens <- 1, MaxChanges <- 1,
  link <- x1, details <- x2, changes <- x3, pending <- x4, closed <- x5, result <- x6,
  requests <- x7, expired <- x8, seen <- x9, queue <- x10, job <- x11, snapshot <- x12,
  tokens <- x13, replies <- x14, admitted <- x15, runs <- x16

\* Two windows, one inverter, one output, and an alternative to everything.
Options == INSTANCE EntryOptions WITH
  Windows <- A, Inverters <- {"inverter"}, Ports <- {None, 5280}, Choices <- B,
  Connections <- {None, "other"}, Destinations <- {"output"}, Free <- None, MaxSaves <- 4,
  kind <- x1, options <- x2, form <- x3, entry <- x4, running <- x5, reloads <- x6,
  saves <- x7, chosen <- x8, missed <- x9, putBack <- x10, unheard <- x11

\* Two inverters, two edits and two saves by the app.
App == INSTANCE AppOptions WITH
  Inverters <- A, Profiles <- B, Details <- {"old", "new"}, MaxEdits <- 2,
  MaxSaves <- 2,
  stored <- x1, active <- x2, save <- x3, edits <- x4, saves <- x5, wanted <- x6,
  crossed <- x7, restored <- x8

\* A scan of two kinds that halves a block and runs out of requests; polls by every way.
Reads == INSTANCE ModbusReads WITH
  Ways <- {<<"tcp", "scan">>, <<"tcp", "poll">>, <<"udp", "poll">>, <<"serial", "poll">>},
  Kinds <- [scan |-> <<"input", "holding">>, poll |-> <<"input">>],
  Ranges <- <<<<0, 3>>, <<4, 2>>>>, Absent <- {<<"holding", 1>>}, MAX_WORDS <- 2,
  MaxRequests <- 6, MaxSends <- 4, Nothing <- None,
  transport <- x1, client <- x2, todo <- x3, asked <- x4, sends <- x5,
  unanswered <- x6, buffer <- x7, thread <- x8, values <- x9, unavailable <- x10,
  limit_reached <- x11, unheard <- x12

-----------------------------------------------------------------------------
\* The variables from xk on are not used.
Unused(k) ==
  /\ k <= 7 => x7 = None
  /\ k <= 8 => x8 = None
  /\ k <= 9 => x9 = None
  /\ k <= 10 => x10 = None
  /\ k <= 11 => x11 = None
  /\ k <= 12 => x12 = None
  /\ k <= 13 => x13 = None
  /\ k <= 14 => x14 = None
  /\ k <= 15 => x15 = None
  /\ k <= 16 => x16 = None

Init ==
  /\ part \in Parts
  /\ \/ part = "takeover" /\ Takeover!Init /\ Unused(11)
     \/ part = "answering" /\ Answering!Init /\ Unused(11)
     \/ part = "capture" /\ Capture!Init /\ Unused(8)
     \/ part = "modbus" /\ Modbus!Init /\ Unused(15)
     \/ part = "native" /\ Native!Init /\ Unused(14)
     \/ part = "direct" /\ Direct!Init /\ Unused(11)
     \/ part = "shared" /\ Shared!Init /\ Unused(11)
     \/ part = "repetition" /\ Repetition!Init /\ Unused(7)
     \/ part = "attribution" /\ Attribution!Init /\ Unused(7)
     \/ part = "diagnosis" /\ Diagnosis!Init
     \/ part = "identification" /\ Identification!Init
     \/ part = "options" /\ Options!Init /\ Unused(12)
     \/ part = "app" /\ App!Init /\ Unused(9)
     \/ part = "reads" /\ Reads!Init /\ Unused(13)

Next ==
  \/ part = "takeover" /\ Takeover!Next /\ UNCHANGED <<part, x11, x12, x13, x14, x15, x16>>
  \/ part = "answering" /\ Answering!Next /\ UNCHANGED <<part, x11, x12, x13, x14, x15, x16>>
  \/ part = "capture" /\ Capture!Next /\ UNCHANGED <<part, x8, x9, x10, x11, x12, x13, x14, x15, x16>>
  \/ part = "modbus" /\ Modbus!Next /\ UNCHANGED <<part, x15, x16>>
  \/ part = "native" /\ Native!Next /\ UNCHANGED <<part, x14, x15, x16>>
  \/ part = "direct" /\ Direct!Next /\ UNCHANGED <<part, x11, x12, x13, x14, x15, x16>>
  \/ part = "shared" /\ Shared!Next /\ UNCHANGED <<part, x11, x12, x13, x14, x15, x16>>
  \/ part = "repetition" /\ Repetition!Next /\ UNCHANGED <<part, x7, x8, x9, x10, x11, x12, x13, x14, x15, x16>>
  \/ part = "attribution" /\ Attribution!Next /\ UNCHANGED <<part, x7, x8, x9, x10, x11, x12, x13, x14, x15, x16>>
  \/ part = "diagnosis" /\ Diagnosis!Next /\ UNCHANGED <<part>>
  \/ part = "identification" /\ Identification!Next /\ UNCHANGED <<part>>
  \/ part = "options" /\ Options!Next /\ UNCHANGED <<part, x12, x13, x14, x15, x16>>
  \/ part = "app" /\ App!Next /\ UNCHANGED <<part, x9, x10, x11, x12, x13, x14, x15, x16>>
  \/ part = "reads" /\ Reads!Next /\ UNCHANGED <<part, x13, x14, x15, x16>>

Symmetric == Permutations(A) \cup Permutations(B)

-----------------------------------------------------------------------------
(* What each part promises, stated in its module.                          *)

(* A request gets its own answer, or one owed to an earlier request that   *)
(* gave up (server.py:183, 188).                                           *)
AnswersAreOwnOrLate ==
  /\ part = "takeover" => Takeover!AnswersAreOwnOrLate
  /\ part = "answering" => Answering!AnswersAreOwnOrLate

(* An open session is reached under its name, an ended one only under a    *)
(* name it gave up (server.py:139, 187-194).                               *)
RegistryFollowsSessions == part = "takeover" => Takeover!RegistryFollowsSessions

(* Captured frames are those of the stream (sniffer.py:100, protocol.py:104). *)
FramesAreTheStream == part = "capture" => Capture!FramesAreTheStream

(* A poll of standing counters is accepted (modbus_receiver.py:523, 537).  *)
CompletePollIsAccepted == part = "modbus" => Modbus!CompletePollIsAccepted

(* The entities show the newest reading (native_receiver.py:171-189).      *)
ShownIsNewest == part = "native" => Native!ShownIsNewest

(* The saved reading goes back only by a save that came too late, or when  *)
(* the file could not be read (native_receiver.py:107, 179).               *)
SavedNeverGoesBack == [][part = "native" => Native!SavedStep]_<<x1, x2, x3, x4, x5, x6, x7>>

(* What is offered was read, and is true (direct_controls.py:92, 139-160). *)
OfferedIsTrue ==
  /\ part = "direct" => Direct!OfferedIsTrue
  /\ part = "shared" => Shared!OfferedIsTrue

(* The cloud is named only with proof (write_audit.py:41, 68).             *)
CloudIsNamedWithProof ==
  /\ part = "repetition" => Repetition!CloudIsNamedWithProof
  /\ part = "attribution" => Attribution!CloudIsNamedWithProof

(* A diagnostic call gets its own, comparable read (register_tools.py:98,  *)
(* ha_features.py:387, register_diagnostics.py:88).                        *)
AnsweredByItsOwnRead ==
  /\ part = "diagnosis" => Diagnosis!AnsweredByItsOwnRead
  /\ part = "identification" => Identification!AnsweredByItsOwnRead

(* A form's save stays, but where the receiver's form waited for its port  *)
(* when it was made (config_flow.py:333, 361).                             *)
SavesAreKept == part = "options" => Options!SavesAreKept

(* A loaded entry runs what is saved, or will, or nobody heard of the save *)
(* (__init__.py:28-41, 47-59).                                             *)
RunsWhatWasSaved == part = "options" => Options!RunsWhatWasSaved

(* A choice is not undone by the app, but in two cases named               *)
(* (supervisor.py:56, support.py:257).                                     *)
ChoicesAreKept == part = "app" => App!ChoicesAreKept

(* No address is lost or read twice, and a word is its own, but for late   *)
(* replies on a serial line (modbus_scan.py:132-160, modbus_transport.py:173). *)
WordsAreAccountedFor == part = "reads" => Reads!WordsAreAccountedFor

=============================================================================
