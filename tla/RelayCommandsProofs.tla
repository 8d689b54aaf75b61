-------------------------- MODULE RelayCommandsProofs --------------------------
(* Transaction numbers keep the commands of one connection apart, for any   *)
(* number of requests, any size of the number space and any interleaving:   *)
(* proofs about RelayCommands.                                              *)
EXTENDS RelayCommands, TLAPS

-----------------------------------------------------------------------------
(* What the steps do to the variables the invariant is about.               *)

\* Parts of the state a step leaves alone keep their type.
LEMMA Unchanged ==
  /\ SessionType /\ UNCHANGED session => SessionType'
  /\ NumbersType /\ UNCHANGED numbers => NumbersType'
  /\ LocksType /\ UNCHANGED locks => LocksType'
  /\ ActorsType /\ UNCHANGED actors => ActorsType'
  /\ HistoryType /\ UNCHANGED history => HistoryType'
  BY DEF SessionType, NumbersType, LocksType, ActorsType, HistoryType,
         session, numbers, locks, actors, history

\* A task that leaves its blocks frees its locks.
LEMMA LeaveType ==
  ASSUME LocksType, NEW a \in Actors
  PROVE  /\ Release(a) => LocksType'
         /\ Leave(a) => LocksType'
         /\ pc \in [Actors -> Places] /\ Leave(a) => pc' \in [Actors -> Places]
  BY DEF LocksType, Release, Leave, Places

\* The commands actors have numbers for are commands.
LEMMA CommandOfType ==
  ASSUME ActorsType, NEW a \in Actors, seqOf[a] # 0
  PROVE  CommandOf(a) \in Commands
  BY DEF ActorsType, CommandOf, Commands

LEMMA IssuedType == TypeOK => Issued \in SUBSET Commands
  BY CommandOfType DEF TypeOK, HistoryType, Issued

\* A number that is allocated was in use nowhere.
LEMMA AllocateFresh ==
  ASSUME NumbersType, NEW s \in Seqs, Allocate(s)
  PROVE  /\ s \notin localSeqs /\ s \notin cloudSeqs
         /\ nextSequence' \in Seqs /\ localSeqs' \in SUBSET Seqs
         /\ localSeqs' = localSeqs \cup {s}
  BY DEF Allocate, Sequence, Used, NumbersType

LEMMA ActorsDistinct ==
  /\ Callers \subseteq Actors /\ Others \subseteq Actors
  /\ {"cloud", "clock", "recovery"} \subseteq Actors
  /\ \A c \in Callers : c # "cloud" /\ c # "clock" /\ c # "recovery" /\ c # "free"
  BY CommandsAssumption DEF Actors, Others

-----------------------------------------------------------------------------
(* Type correctness.                                                        *)

LEMMA InitType == Init => TypeOK
<1> SUFFICES ASSUME Init PROVE TypeOK
  OBVIOUS
<1>1. SessionType /\ LocksType
  BY DEF Init, SessionType, LocksType
<1>2. NumbersType
  BY CommandsAssumption DEF Init, NumbersType, Seqs
<1>3. ActorsType
  BY DEF Init, ActorsType, Places
<1>4. HistoryType
  BY DEF Init, HistoryType
<1> QED
  BY <1>1, <1>2, <1>3, <1>4 DEF TypeOK

LEMMA CallerTypePreserved ==
  ASSUME TypeOK, NumberedToSend, NEW c \in Callers, CallerStep(c)
  PROVE  TypeOK'
<1> USE Unchanged, ActorsDistinct DEF TypeOK
<1>1. CASE Call(c)
  <2>1. ActorsType'
    BY <1>1 DEF Call, ActorsType, Places
  <2> QED
    BY <1>1, <2>1 DEF Call
<1>2. CASE TakeTurn(c)
  <2>1. ActorsType' /\ LocksType'
    BY <1>2 DEF TakeTurn, ActorsType, LocksType, Places
  <2> QED
    BY <1>2, <2>1 DEF TakeTurn
<1>3. CASE Register(c)
  <2>1. PICK s \in Seqs : Allocate(s) /\ seqOf' = [seqOf EXCEPT ![c] = s]
    BY <1>3 DEF Register
  <2>2. NumbersType'
    BY <1>3, <2>1, AllocateFresh DEF Register, NumbersType
  <2>3. ActorsType'
    BY <1>3, <2>1 DEF Register, ActorsType, Places
  <2> QED
    BY <1>3, <2>2, <2>3 DEF Register
<1>4. CASE RegisterExhausted(c) \/ RefuseCommand(c) \/ CommandFails(c) \/ Return(c) \/ Cancelled(c)
  <2>1. Leave(c) /\ UNCHANGED <<numbers, seqOf, cloudTx, future, stale, quiet, history>>
    BY <1>4 DEF RegisterExhausted, RefuseCommand, CommandFails, Return, Cancelled
  <2>2. SessionType'
    BY <1>4 DEF RegisterExhausted, RefuseCommand, CommandFails, Return, Cancelled, session,
                SessionType
  <2>3. ActorsType' /\ LocksType'
    BY <2>1, LeaveType DEF ActorsType
  <2> QED
    BY <2>1, <2>2, <2>3
<1>5. CASE WriteCommand(c)
  <2>1. ActorsType' /\ LocksType'
    BY <1>5 DEF WriteCommand, ActorsType, LocksType, Places
  <2>2. CommandOf(c) \in Commands
    BY <1>5, CommandOfType DEF WriteCommand, NumberedToSend
  <2>3. HistoryType'
    BY <1>5, <2>2 DEF WriteCommand, HistoryType
  <2> QED
    BY <1>5, <2>1, <2>3 DEF WriteCommand
<1>6. CASE CommandDrained(c)
  <2>1. ActorsType' /\ LocksType'
    BY <1>6 DEF CommandDrained, ActorsType, LocksType, Places
  <2> QED
    BY <1>6, <2>1 DEF CommandDrained
<1>7. CASE BecomesStale(c)
  <2>1. ActorsType'
    BY <1>7 DEF BecomesStale, ActorsType
  <2> QED
    BY <1>7, <2>1 DEF BecomesStale
<1> QED
  BY <1>1, <1>2, <1>3, <1>4, <1>5, <1>6, <1>7 DEF CallerStep

LEMMA TypePreserved == TypeOK /\ NumberedToSend /\ [Next]_vars => TypeOK'
<1> SUFFICES ASSUME TypeOK, NumberedToSend, [Next]_vars PROVE TypeOK'
  OBVIOUS
<1>1. ASSUME NEW c \in Callers, CallerStep(c) PROVE TypeOK'
  BY <1>1, CallerTypePreserved
<1> USE Unchanged, ActorsDistinct DEF TypeOK
<1>2. ASSUME NEW tx \in Seqs, CloudCommand(tx) PROVE TypeOK'
  <2>1. \E s \in Seqs : seqOf' = [seqOf EXCEPT !["cloud"] = s]
    BY <1>2 DEF CloudCommand
  <2>2. ActorsType'
    BY <1>2, <2>1 DEF CloudCommand, ActorsType, Places
  <2>3. NumbersType'
    <3>1. CASE UNCHANGED <<nextSequence, localSeqs, translations>>
      BY <1>2, <3>1 DEF CloudCommand, NumbersType
    <3>2. ASSUME NEW s \in Seqs, Allocate(s), translations' = [translations EXCEPT ![s] = tx]
          PROVE  NumbersType'
      BY <1>2, <3>2, AllocateFresh DEF CloudCommand, NumbersType
    <3> QED
      BY <1>2, <3>1, <3>2 DEF CloudCommand
  <2>4. HistoryType'
    BY <1>2 DEF CloudCommand, HistoryType
  <2> QED
    BY <1>2, <2>2, <2>3, <2>4 DEF CloudCommand
<1>3. ASSUME NEW tx \in Seqs, CloudCommandExhausted(tx) PROVE TypeOK'
  <2>1. SessionType' /\ NumbersType' /\ ActorsType'
    BY <1>3 DEF CloudCommandExhausted, SessionType, NumbersType, ActorsType, Places
  <2> QED
    BY <1>3, <2>1 DEF CloudCommandExhausted
<1>4. CASE SetClock
  <2>1. PICK s \in Seqs : Allocate(s) /\ seqOf' = [seqOf EXCEPT !["clock"] = s]
    BY <1>4 DEF SetClock
  <2>2. NumbersType'
    BY <1>4, <2>1, AllocateFresh DEF SetClock, NumbersType
  <2>3. ActorsType' /\ HistoryType'
    BY <1>4, <2>1 DEF SetClock, ActorsType, HistoryType, Places
  <2> QED
    BY <1>4, <2>2, <2>3 DEF SetClock
<1>5. CASE SetClockExhausted
  <2>1. SessionType' /\ ActorsType'
    BY <1>5 DEF SetClockExhausted, SessionType, ActorsType, Places
  <2> QED
    BY <1>5, <2>1 DEF SetClockExhausted
<1>6. ASSUME NEW a \in {"cloud", "clock"}, Write(a) \/ Drained(a) PROVE TypeOK'
  <2>1. ActorsType' /\ LocksType'
    BY <1>6 DEF Write, Drained, ActorsType, LocksType, Places
  <2>2. CASE Write(a)
    <3>1. CommandOf(a) \in Commands
      BY <2>2, CommandOfType DEF Write, NumberedToSend
    <3>2. HistoryType'
      BY <2>2, <3>1 DEF Write, HistoryType
    <3> QED
      BY <2>1, <2>2, <3>2 DEF Write
  <2>3. CASE Drained(a)
    BY <2>1, <2>3 DEF Drained
  <2> QED
    BY <1>6, <2>2, <2>3
<1>7. ASSUME NEW a \in {"cloud", "clock"}, DrainFails(a) PROVE TypeOK'
  <2>1. SessionType'
    BY <1>7 DEF DrainFails, SessionType
  <2>2. ActorsType' /\ LocksType'
    BY <1>7, LeaveType DEF DrainFails, ActorsType
  <2> QED
    BY <1>7, <2>1, <2>2 DEF DrainFails
<1>8. ASSUME NEW m \in atDevice, Reply(m) PROVE TypeOK'
  <2>1. m \in Commands /\ m.seq \in Seqs
    BY DEF HistoryType, Commands
  <2>2. counts' \in [{"cloud", "clock", "reply"} -> Nat]
    BY <1>8 DEF Reply, HistoryType
  <2>3. UNCHANGED <<session, nextSequence, localSeqs, cloudSeqs, locks, pc, seqOf, cloudTx,
                    stale, quiet, atDevice>>
    BY <1>8 DEF Reply
  <2>4. CASE ReplyTranslated(m)
    <3>1. toCloud' \in SUBSET [tx : Seqs, command : Commands]
      <4>1. translations[m.seq] \in Seqs
        BY <2>1, <2>4 DEF ReplyTranslated, NumbersType
      <4> QED
        BY <2>1, <2>4, <4>1 DEF ReplyTranslated, HistoryType
    <3>2. NumbersType'
      BY <2>1, <2>3, <2>4 DEF ReplyTranslated, NumbersType
    <3> QED
      BY <2>2, <2>3, <2>4, <3>1, <3>2 DEF ReplyTranslated, ActorsType, HistoryType
  <2>5. CASE ReplyLocal(m)
    <3>1. future' \in [Callers -> {"none", "reply", "error"}]
      BY <2>5 DEF ReplyLocal, ActorsType
    <3>2. result' \in [Callers -> SUBSET Commands]
      BY <2>1, <2>5 DEF ReplyLocal, HistoryType
    <3>3. NumbersType'
      BY <2>3, <2>5 DEF ReplyLocal, NumbersType
    <3> QED
      BY <2>2, <2>3, <2>5, <3>1, <3>2, <3>3 DEF ReplyLocal, ActorsType, HistoryType
  <2>6. CASE ReplyForwarded(m)
    <3>1. toCloud' \in SUBSET [tx : Seqs, command : Commands]
      BY <2>1, <2>6 DEF ReplyForwarded, HistoryType
    <3>2. NumbersType'
      BY <2>3, <2>6 DEF ReplyForwarded, NumbersType
    <3> QED
      BY <2>2, <2>3, <2>6, <3>1, <3>2 DEF ReplyForwarded, ActorsType, HistoryType
  <2> QED
    BY <1>8, <2>4, <2>5, <2>6 DEF Reply
<1>9. CASE ProbeSucceeds \/ RecoveryStops \/ QuietAgain
  <2>1. ActorsType'
    BY <1>9 DEF ProbeSucceeds, RecoveryStops, QuietAgain, ActorsType, Places
  <2> QED
    BY <1>9, <2>1 DEF ProbeSucceeds, RecoveryStops, QuietAgain
<1>10. CASE RecoveryTakesTurn \/ TryAgain
  <2>1. ActorsType' /\ LocksType'
    BY <1>10, LeaveType DEF RecoveryTakesTurn, TryAgain, ActorsType, LocksType, Places
  <2> QED
    BY <1>10, <2>1 DEF RecoveryTakesTurn, TryAgain
<1>11. CASE Reconnect
  <2>1. SessionType' /\ ActorsType' /\ LocksType'
    BY <1>11, LeaveType DEF Reconnect, SessionType, ActorsType
  <2> QED
    BY <1>11, <2>1 DEF Reconnect
<1>12. CASE CloudLost \/ TakenOver
  <2>1. SessionType'
    BY <1>12 DEF CloudLost, TakenOver, SessionType
  <2> QED
    BY <1>12, <2>1 DEF CloudLost, TakenOver
<1>13. CASE SessionStops \/ SessionEnds \/ SessionAborted
  <2>1. SessionType' /\ LocksType'
    BY <1>13 DEF SessionStops, SessionEnds, SessionAborted, SessionType, LocksType, locks
  <2>2. ActorsType'
    BY <1>13 DEF SessionStops, SessionEnds, SessionAborted, ActorsType, Places, actors
  <2> QED
    BY <1>13, <2>1, <2>2 DEF SessionStops, SessionEnds, SessionAborted
<1>14. CASE Finished \/ UNCHANGED vars
  BY <1>14 DEF Finished, vars
<1> QED
  BY <1>1, <1>2, <1>3, <1>4, <1>5, <1>6, <1>7, <1>8, <1>9, <1>10, <1>11, <1>12, <1>13, <1>14
     DEF Next

-----------------------------------------------------------------------------
(* A step issues no command, one under a fresh number, or one of the cloud  *)
(* under the cloud's own number.                                            *)

NoIssue ==
  /\ Issued' \subseteq Issued
  /\ localSeqs' = localSeqs /\ cloudSeqs \subseteq cloudSeqs'
  /\ \A s \in Seqs : translations'[s] \in {0, translations[s]}

FreshIssue(a, s, tx) ==
  /\ Issued' \subseteq Issued \cup {[seq |-> s, owner |-> a, tx |-> tx]}
  /\ Allocate(s) /\ cloudSeqs \subseteq cloudSeqs'
  /\ \/ translations' = translations
     \/ a = "cloud" /\ tx # 0 /\ translations' = [translations EXCEPT ![s] = tx]

DirectIssue(tx) ==
  /\ Issued' \subseteq Issued \cup {[seq |-> tx, owner |-> "cloud", tx |-> tx]}
  /\ tx \notin localSeqs
  /\ localSeqs' = localSeqs /\ translations' = translations /\ cloudSeqs' = cloudSeqs \cup {tx}

\* Steps that change nothing but where actors await issue nothing.
LEMMA NoIssueIfUnchanged ==
  ASSUME UNCHANGED <<atDevice, seqOf, cloudTx, localSeqs>>, cloudSeqs \subseteq cloudSeqs',
         \A s \in Seqs : translations'[s] \in {0, translations[s]}
  PROVE  NoIssue
<1>1. Issued' = Issued
  BY DEF Issued, CommandOf
<1> QED
  BY <1>1 DEF NoIssue

\* Writing a command an actor has a number for issues nothing new.
LEMMA NoIssueIfWritten ==
  ASSUME NEW a \in Actors, seqOf[a] # 0, atDevice' \subseteq atDevice \cup {CommandOf(a)},
         UNCHANGED <<seqOf, cloudTx, localSeqs, cloudSeqs, translations>>
  PROVE  NoIssue
<1>1. Issued' \subseteq Issued
  BY DEF Issued, CommandOf
<1> QED
  BY <1>1 DEF NoIssue

\* An actor that takes the number s issues at most that command.
LEMMA IssuedByActor ==
  ASSUME NEW a \in Actors, NEW s, seqOf \in [Actors -> Seqs \cup {0}],
         seqOf' = [seqOf EXCEPT ![a] = s], atDevice' = atDevice,
         a # "cloud" => cloudTx' = cloudTx
  PROVE  Issued' \subseteq Issued \cup
           {[seq |-> s, owner |-> a, tx |-> IF a = "cloud" THEN cloudTx' ELSE 0]}
<1>1. ASSUME NEW b \in Actors, seqOf'[b] # 0, b # a
      PROVE  CommandOf(b)' = CommandOf(b) /\ seqOf[b] # 0
  BY <1>1 DEF CommandOf
<1>2. CommandOf(a)' = [seq |-> s, owner |-> a, tx |-> IF a = "cloud" THEN cloudTx' ELSE 0]
  BY DEF CommandOf
<1> QED
  BY <1>1, <1>2 DEF Issued

LEMMA IssueSteps ==
  ASSUME TypeOK, NumberedToSend, [Next]_vars
  PROVE  \/ NoIssue
         \/ \E a \in Actors, s \in Seqs, tx \in Seqs \cup {0} : FreshIssue(a, s, tx)
         \/ \E tx \in Seqs : DirectIssue(tx)
<1> DEFINE Goal == \/ NoIssue
                   \/ \E a \in Actors, s \in Seqs, tx \in Seqs \cup {0} : FreshIssue(a, s, tx)
                   \/ \E tx \in Seqs : DirectIssue(tx)
<1> SUFFICES Goal
  OBVIOUS
<1> USE ActorsDistinct
<1>1. ASSUME UNCHANGED <<atDevice, seqOf, cloudTx, localSeqs, translations>>,
             cloudSeqs \subseteq cloudSeqs'
      PROVE  Goal
  BY <1>1, NoIssueIfUnchanged
<1>2. ASSUME NEW c \in Callers, CallerStep(c) PROVE Goal
  <2>1. CASE Register(c)
    <3>1. PICK s \in Seqs : Allocate(s) /\ seqOf' = [seqOf EXCEPT ![c] = s]
      BY <2>1 DEF Register
    <3>2. Issued' \subseteq Issued \cup {[seq |-> s, owner |-> c, tx |-> 0]}
      BY <2>1, <3>1, IssuedByActor DEF Register, history, TypeOK, ActorsType
    <3>3. FreshIssue(c, s, 0)
      BY <2>1, <3>1, <3>2 DEF Register, FreshIssue
    <3> QED
      BY <3>3
  <2>2. CASE WriteCommand(c)
    BY <2>2, NoIssueIfWritten DEF WriteCommand, NumberedToSend, numbers
  <2>3. CASE ~Register(c) /\ ~WriteCommand(c)
    BY <1>1, <1>2, <2>3
       DEF CallerStep, Call, TakeTurn, RegisterExhausted, RefuseCommand, CommandDrained,
           CommandFails, Return, Cancelled, BecomesStale, numbers, history
  <2> QED
    BY <2>1, <2>2, <2>3
<1>3. ASSUME NEW tx \in Seqs, CloudCommand(tx) PROVE Goal
  <2>1. cloudTx' = tx /\ atDevice' = atDevice /\ cloudSeqs' = cloudSeqs \cup {tx}
    BY <1>3 DEF CloudCommand
  <2>2. seqOf \in [Actors -> Seqs \cup {0}]
    BY DEF TypeOK, ActorsType
  <2>3. CASE tx \notin localSeqs
    <3>1. /\ seqOf' = [seqOf EXCEPT !["cloud"] = tx]
          /\ localSeqs' = localSeqs /\ translations' = translations
      BY <1>3, <2>3 DEF CloudCommand
    <3>2. Issued' \subseteq Issued \cup {[seq |-> tx, owner |-> "cloud", tx |-> tx]}
      BY <2>1, <2>2, <3>1, IssuedByActor
    <3> QED
      BY <2>1, <2>3, <3>1, <3>2 DEF DirectIssue
  <2>4. CASE tx \in localSeqs
    <3>1. PICK s \in Seqs : /\ Allocate(s) /\ seqOf' = [seqOf EXCEPT !["cloud"] = s]
                            /\ translations' = [translations EXCEPT ![s] = tx]
      BY <1>3, <2>4 DEF CloudCommand
    <3>2. Issued' \subseteq Issued \cup {[seq |-> s, owner |-> "cloud", tx |-> tx]}
      BY <2>1, <2>2, <3>1, IssuedByActor
    <3>3. tx # 0
      BY CommandsAssumption DEF Seqs
    <3>4. FreshIssue("cloud", s, tx)
      BY <2>1, <3>1, <3>2, <3>3 DEF FreshIssue
    <3> QED
      BY <3>4
  <2> QED
    BY <2>3, <2>4
<1>4. CASE SetClock
  <2>1. PICK s \in Seqs : Allocate(s) /\ seqOf' = [seqOf EXCEPT !["clock"] = s]
    BY <1>4 DEF SetClock
  <2>2. Issued' \subseteq Issued \cup {[seq |-> s, owner |-> "clock", tx |-> 0]}
    BY <1>4, <2>1, IssuedByActor DEF SetClock, TypeOK, ActorsType
  <2>3. FreshIssue("clock", s, 0)
    BY <1>4, <2>1, <2>2 DEF SetClock, FreshIssue
  <2> QED
    BY <2>3
<1>5. ASSUME NEW a \in {"cloud", "clock"}, Write(a) PROVE Goal
  BY <1>5, NoIssueIfWritten DEF Write, NumberedToSend, numbers
<1>6. ASSUME NEW m \in atDevice, Reply(m) PROVE Goal
  <2>1. translations' = translations \/ translations' = [translations EXCEPT ![m.seq] = 0]
    BY <1>6 DEF Reply, ReplyTranslated, ReplyLocal, ReplyForwarded
  <2>2. \A s \in Seqs : translations'[s] \in {0, translations[s]}
    BY <2>1 DEF TypeOK, NumbersType
  <2> QED
    BY <1>6, <2>2, NoIssueIfUnchanged DEF Reply
<1>7. CASE \/ \E tx \in Seqs : CloudCommandExhausted(tx)
           \/ SetClockExhausted
           \/ \E a \in {"cloud", "clock"} : Drained(a) \/ DrainFails(a)
           \/ ProbeSucceeds \/ RecoveryStops \/ RecoveryTakesTurn \/ Reconnect \/ TryAgain
           \/ QuietAgain \/ CloudLost \/ TakenOver \/ SessionStops \/ SessionEnds
           \/ SessionAborted \/ Finished \/ UNCHANGED vars
  BY <1>1, <1>7
     DEF CloudCommandExhausted, SetClockExhausted, Drained, DrainFails, ProbeSucceeds,
         RecoveryStops, RecoveryTakesTurn, Reconnect, TryAgain, QuietAgain, CloudLost, TakenOver,
         SessionStops, SessionEnds, SessionAborted, Finished, vars, numbers, history, actors
<1> HIDE DEF Goal
<1> QED
  BY <1>2, <1>3, <1>4, <1>5, <1>6, <1>7 DEF Next

-----------------------------------------------------------------------------
(* The account of the numbers.                                              *)

LEMMA NumbersPreserved ==
  ASSUME TypeOK, NumberedToSend, NumbersTaken, IssuedDistinct, TranslationsRight, [Next]_vars
  PROVE  NumbersTaken' /\ IssuedDistinct' /\ TranslationsRight'
<1> DEFINE Goal == NumbersTaken' /\ IssuedDistinct' /\ TranslationsRight'
<1> SUFFICES Goal
  OBVIOUS
<1>0. \A m \in Issued : m.seq \in Seqs
  BY IssuedType DEF Commands
<1>1. CASE NoIssue
  <2>1. NumbersTaken' /\ IssuedDistinct'
    BY <1>1 DEF NoIssue, NumbersTaken, IssuedDistinct, Used
  <2>2. TranslationsRight'
    BY <1>0, <1>1 DEF NoIssue, TranslationsRight
  <2> QED
    BY <2>1, <2>2
<1>2. ASSUME NEW a \in Actors, NEW s \in Seqs, NEW tx \in Seqs \cup {0}, FreshIssue(a, s, tx)
      PROVE  Goal
  <2> DEFINE new == [seq |-> s, owner |-> a, tx |-> tx]
  <2>1. /\ s \notin localSeqs /\ s \notin cloudSeqs /\ localSeqs' = localSeqs \cup {s}
        /\ cloudSeqs \subseteq cloudSeqs'
    BY <1>2, AllocateFresh DEF FreshIssue, TypeOK
  <2>2. Issued' \subseteq Issued \cup {new} /\ new.seq = s /\ new.owner = a /\ new.tx = tx
    BY <1>2 DEF FreshIssue
  <2>3. \A m \in Issued : m.seq # s
    BY <2>1 DEF NumbersTaken, Used
  <2>4. translations[s] = 0
    BY <2>1 DEF TranslationsRight
  <2>5. /\ \A r \in Seqs : r # s => translations'[r] = translations[r]
        /\ translations'[s] = 0 \/ (a = "cloud" /\ translations'[s] = tx)
    BY <1>2, <2>4 DEF FreshIssue, TypeOK, NumbersType
  <2> HIDE DEF new
  <2>6. NumbersTaken'
    BY <2>1, <2>2, <2>3 DEF NumbersTaken, Used
  <2>7. IssuedDistinct'
    BY <2>2, <2>3 DEF IssuedDistinct
  <2>8. TranslationsRight'
    BY <1>0, <2>1, <2>2, <2>3, <2>5 DEF TranslationsRight
  <2> QED
    BY <2>6, <2>7, <2>8
<1>3. ASSUME NEW tx \in Seqs, DirectIssue(tx) PROVE Goal
  <2> DEFINE new == [seq |-> tx, owner |-> "cloud", tx |-> tx]
  <2>1. Issued' \subseteq Issued \cup {new} /\ new.seq = tx /\ new.owner = "cloud" /\ new.tx = tx
    BY <1>3 DEF DirectIssue
  <2>2. \A m \in Issued : m.seq = tx => m = new
    BY <1>3, IssuedType DEF DirectIssue, NumbersTaken, Commands
  <2> HIDE DEF new
  <2>3. NumbersTaken'
    BY <1>3, <2>1 DEF DirectIssue, NumbersTaken, Used
  <2>4. IssuedDistinct'
    BY <2>1, <2>2 DEF IssuedDistinct
  <2>5. TranslationsRight'
    BY <1>3, <2>1 DEF DirectIssue, TranslationsRight
  <2> QED
    BY <2>3, <2>4, <2>5
<1> HIDE DEF Goal
<1> QED
  BY <1>1, <1>2, <1>3, IssueSteps

-----------------------------------------------------------------------------
(* Where replies go.                                                        *)

\* What a request is known by changes only while it has no number.
LEMMA NumberedOnce ==
  ASSUME TypeOK, NEW c \in Callers, [Next]_vars
  PROVE  seqOf'[c] = seqOf[c] \/ pc[c] = "paced"
<1> USE ActorsDistinct DEF TypeOK, ActorsType
<1>1. ASSUME NEW d \in Callers, Register(d) PROVE seqOf'[c] = seqOf[c] \/ pc[c] = "paced"
  BY <1>1 DEF Register
<1>2. ASSUME NEW tx \in Seqs, CloudCommand(tx) PROVE seqOf'[c] = seqOf[c]
  BY <1>2 DEF CloudCommand
<1>3. CASE SetClock
  BY <1>3 DEF SetClock
<1>4. ASSUME UNCHANGED seqOf PROVE seqOf'[c] = seqOf[c]
  BY <1>4
<1>5. \/ UNCHANGED seqOf \/ SetClock
      \/ \E d \in Callers : Register(d)
      \/ \E tx \in Seqs : CloudCommand(tx)
  BY DEF Next, CallerStep, Call, TakeTurn, RegisterExhausted, WriteCommand, RefuseCommand,
         CommandDrained, CommandFails, Return, Cancelled, BecomesStale, CloudCommandExhausted,
         SetClockExhausted, Write, Drained, DrainFails, Reply, ProbeSucceeds, RecoveryStops,
         RecoveryTakesTurn, Reconnect, TryAgain, QuietAgain, CloudLost, TakenOver, SessionStops,
         SessionEnds, SessionAborted, Finished, vars, actors
<1> QED
  BY <1>1, <1>2, <1>3, <1>4, <1>5

\* Only a reply delivers anything.
LEMMA OnlyRepliesDeliver ==
  ASSUME [Next]_vars
  PROVE  UNCHANGED <<toCloud, result>> \/ \E m \in atDevice : Reply(m)
  BY DEF Next, CallerStep, Call, TakeTurn, Register, RegisterExhausted, WriteCommand,
         RefuseCommand, CommandDrained, CommandFails, Return, Cancelled, BecomesStale,
         CloudCommand, CloudCommandExhausted, SetClock, SetClockExhausted, Write, Drained,
         DrainFails, ProbeSucceeds, RecoveryStops, RecoveryTakesTurn, Reconnect, TryAgain,
         QuietAgain, CloudLost, TakenOver, SessionStops, SessionEnds, SessionAborted, Finished,
         vars, history

\* A request never goes back to the places before it has its number.
LEMMA NoWayBack ==
  ASSUME TypeOK, NEW c \in Callers, [Next]_vars, pc'[c] \in {"idle", "queued", "paced"}
  PROVE  pc[c] \in {"idle", "queued", "paced"}
<1> DEFINE Early(p) == p \in {"idle", "queued", "paced"}
<1> USE ActorsDistinct DEF TypeOK, ActorsType
<1>1. ASSUME NEW d \in Callers, CallerStep(d) PROVE Early(pc[c])
  BY <1>1 DEF CallerStep, Call, TakeTurn, Register, RegisterExhausted, WriteCommand, RefuseCommand,
              CommandDrained, CommandFails, Return, Cancelled, BecomesStale, Leave
<1>2. ASSUME NEW a \in Others, NEW p, pc' = [pc EXCEPT ![a] = p] PROVE Early(pc[c])
  BY <1>2 DEF Others
<1>3. CASE UNCHANGED pc
  BY <1>3
<1>4. CASE SessionStops
  BY <1>4 DEF SessionStops, Others
<1>5. \/ \E d \in Callers : CallerStep(d)
      \/ \E a \in Others, p \in Places : pc' = [pc EXCEPT ![a] = p]
      \/ UNCHANGED pc \/ SessionStops
  BY DEF Next, CloudCommand, CloudCommandExhausted, SetClock, SetClockExhausted, Write, Drained,
         DrainFails, Reply, ProbeSucceeds, RecoveryStops, RecoveryTakesTurn, Reconnect, TryAgain,
         QuietAgain, CloudLost, TakenOver, SessionEnds, SessionAborted, Finished, vars, actors,
         Leave, Others, Places
<1> QED
  BY <1>1, <1>2, <1>3, <1>4, <1>5

\* Whoever is about to write has a number, which is never taken away.
LEMMA NumberedPreserved == TypeOK /\ NumberedToSend /\ [Next]_vars => NumberedToSend'
<1> SUFFICES ASSUME TypeOK, NumberedToSend, [Next]_vars,
                    NEW a \in Actors, pc'[a] = "sending"
             PROVE  seqOf'[a] # 0
  BY DEF NumberedToSend
<1> USE ActorsDistinct DEF TypeOK, ActorsType, NumberedToSend
<1>0. 0 \notin Seqs
  BY DEF Seqs
<1>1. ASSUME NEW b \in Actors, NEW s \in Seqs, seqOf' = [seqOf EXCEPT ![b] = s],
             pc' = [pc EXCEPT ![b] = "sending"]
      PROVE  seqOf'[a] # 0
  BY <1>0, <1>1
<1>2. ASSUME UNCHANGED seqOf, NEW b \in Actors, NEW p, p # "sending", pc' = [pc EXCEPT ![b] = p]
      PROVE  seqOf'[a] # 0
  BY <1>2
<1>3. ASSUME UNCHANGED <<pc, seqOf>> PROVE seqOf'[a] # 0
  BY <1>3
<1>4. CASE SessionStops
  BY <1>4 DEF SessionStops
<1>5. ASSUME NEW c \in Callers, CallerStep(c) PROVE seqOf'[a] # 0
  <2>1. CASE Register(c)
    BY <1>1, <2>1 DEF Register
  <2>2. CASE BecomesStale(c)
    BY <1>3, <2>2 DEF BecomesStale
  <2>3. CASE ~Register(c) /\ ~BecomesStale(c)
    <3>1. UNCHANGED seqOf /\ \E p \in Places \ {"sending"} : pc' = [pc EXCEPT ![c] = p]
      BY <1>5, <2>3 DEF CallerStep, Call, TakeTurn, RegisterExhausted, WriteCommand,
         RefuseCommand, CommandDrained, CommandFails, Return, Cancelled, Leave, Places
    <3> QED
      BY <1>2, <3>1
  <2> QED
    BY <2>1, <2>2, <2>3
<1>6. ASSUME NEW tx \in Seqs, CloudCommand(tx) PROVE seqOf'[a] # 0
  <2>1. \E s \in Seqs : seqOf' = [seqOf EXCEPT !["cloud"] = s]
    BY <1>6 DEF CloudCommand
  <2> QED
    BY <1>1, <1>6, <2>1 DEF CloudCommand
<1>7. CASE SetClock
  BY <1>1, <1>7 DEF SetClock
<1>8. CASE \/ \E tx \in Seqs : CloudCommandExhausted(tx)
           \/ SetClockExhausted
           \/ \E b \in {"cloud", "clock"} : Write(b) \/ Drained(b) \/ DrainFails(b)
           \/ ProbeSucceeds \/ RecoveryStops \/ RecoveryTakesTurn \/ Reconnect \/ TryAgain
  <2>1. /\ UNCHANGED seqOf
        /\ \E b \in Others, p \in Places \ {"sending"} : pc' = [pc EXCEPT ![b] = p]
    BY <1>8 DEF CloudCommandExhausted, SetClockExhausted, Write, Drained, DrainFails,
       ProbeSucceeds, RecoveryStops, RecoveryTakesTurn, Reconnect, TryAgain, Leave, Places, Others
  <2> QED
    BY <1>2, <2>1
<1>9. CASE \/ \E m \in atDevice : Reply(m)
           \/ QuietAgain \/ CloudLost \/ TakenOver \/ SessionEnds \/ SessionAborted
           \/ Finished \/ UNCHANGED vars
  BY <1>3, <1>9 DEF Reply, QuietAgain, CloudLost, TakenOver, SessionEnds, SessionAborted,
                    Finished, vars, actors
<1> QED
  BY <1>4, <1>5, <1>6, <1>7, <1>8, <1>9 DEF Next

\* Replies reach the cloud or the request they belong to.
LEMMA RepliesPreserved ==
  ASSUME IInv, [Next]_vars
  PROVE  RepliesGoHome' /\ AnsweredByOwnReply' /\ NoEarlyResult'
<1> USE ActorsDistinct DEF IInv
<1>1. ASSUME NEW c \in Callers PROVE result[c] = {} \/ CommandOf(c)' = CommandOf(c)
  <2>1. CASE pc[c] = "paced"
    BY <2>1 DEF NoEarlyResult
  <2>2. CASE seqOf'[c] = seqOf[c]
    BY <2>2 DEF CommandOf
  <2> QED
    BY <2>1, <2>2, NumberedOnce
<1>2. CASE UNCHANGED <<toCloud, result>>
  <2>1. RepliesGoHome'
    BY <1>2 DEF RepliesGoHome
  <2>2. AnsweredByOwnReply'
    BY <1>1, <1>2 DEF AnsweredByOwnReply
  <2>3. NoEarlyResult'
    BY <1>2, NoWayBack DEF NoEarlyResult
  <2> QED
    BY <2>1, <2>2, <2>3
<1>3. ASSUME NEW m \in atDevice, Reply(m)
      PROVE  RepliesGoHome' /\ AnsweredByOwnReply' /\ NoEarlyResult'
  <2>1. m \in Issued /\ m.seq \in Seqs
    BY DEF Issued, TypeOK, HistoryType, Commands
  <2>2. UNCHANGED <<pc, seqOf, cloudTx>>
    BY <1>3 DEF Reply
  <2>3. \A c \in Callers : CommandOf(c)' = CommandOf(c)
    BY <2>2 DEF CommandOf
  <2>4. ASSUME UNCHANGED result PROVE AnsweredByOwnReply' /\ NoEarlyResult'
    BY <2>2, <2>3, <2>4 DEF AnsweredByOwnReply, NoEarlyResult
  <2>5. CASE ReplyTranslated(m)
    <3>1. m.owner = "cloud" /\ m.tx = translations[m.seq]
      BY <2>1, <2>5 DEF ReplyTranslated, TranslationsRight
    <3>2. RepliesGoHome'
      BY <2>5, <3>1 DEF ReplyTranslated, RepliesGoHome
    <3> QED
      BY <2>4, <2>5, <3>2 DEF ReplyTranslated
  <2>6. CASE ReplyForwarded(m)
    <3>1. m.owner = "cloud" /\ m.tx = m.seq
      BY <2>1, <2>6 DEF ReplyForwarded, NumbersTaken
    <3>2. RepliesGoHome'
      BY <2>6, <3>1 DEF ReplyForwarded, RepliesGoHome
    <3> QED
      BY <2>4, <2>6, <3>2 DEF ReplyForwarded
  <2>7. CASE ReplyLocal(m)
    <3>1. PICK completed \in SUBSET Callers :
            /\ \A c \in completed : c \in Pending /\ seqOf[c] = m.seq
            /\ result' = [c \in Callers |-> IF c \in completed THEN result[c] \cup {m}
                                             ELSE result[c]]
      BY <2>7 DEF ReplyLocal, Pending
    <3>2. ASSUME NEW c \in completed PROVE m = CommandOf(c)
      <4>1. seqOf[c] # 0 /\ c \in Actors
        BY <2>1, <3>1 DEF Seqs
      <4>2. CommandOf(c) \in Issued /\ CommandOf(c).seq = m.seq
        BY <3>1, <4>1 DEF Issued, CommandOf
      <4> QED
        BY <2>1, <4>2 DEF IssuedDistinct
    <3>3. AnsweredByOwnReply'
      BY <2>3, <3>1, <3>2 DEF AnsweredByOwnReply
    <3>4. NoEarlyResult'
      BY <2>2, <3>1 DEF NoEarlyResult, Pending
    <3>5. RepliesGoHome'
      BY <2>7 DEF ReplyLocal, RepliesGoHome
    <3> QED
      BY <3>3, <3>4, <3>5
  <2> QED
    BY <1>3, <2>5, <2>6, <2>7 DEF Reply
<1> QED
  BY <1>2, <1>3, OnlyRepliesDeliver

-----------------------------------------------------------------------------
(* The turn at the connection.                                              *)

LEMMA CommandLockPreserved == TypeOK /\ CommandLockHeld /\ [Next]_vars => CommandLockHeld'
<1> SUFFICES ASSUME TypeOK, CommandLockHeld, [Next]_vars PROVE CommandLockHeld'
  OBVIOUS
<1> USE ActorsDistinct DEF TypeOK, ActorsType, CommandLockHeld
<1>1. ASSUME UNCHANGED commandLock, NEW a \in Actors, NEW p, pc' = [pc EXCEPT ![a] = p],
             a \in Callers =>
               \/ p \notin {"paced", "sending", "draining", "waiting"}
               \/ pc[a] \in {"paced", "sending", "draining", "waiting"},
             a = "recovery" => p # "locked"
      PROVE  CommandLockHeld'
  BY <1>1
<1>2. ASSUME commandLock = "free", NEW a \in Callers \cup {"recovery"}, NEW p,
             p \in {"paced", "locked"}, commandLock' = a, pc' = [pc EXCEPT ![a] = p]
      PROVE  CommandLockHeld'
  BY <1>2
<1>3. ASSUME NEW a \in Actors, NEW p, p \in {"done", "poll"}, pc' = [pc EXCEPT ![a] = p],
             Release(a)
      PROVE  CommandLockHeld'
  BY <1>3 DEF Release
<1>4. ASSUME UNCHANGED <<pc, commandLock>> PROVE CommandLockHeld'
  BY <1>4
<1>5. CASE SessionStops
  BY <1>5 DEF SessionStops, Others
<1>6. ASSUME NEW c \in Callers, CallerStep(c) PROVE CommandLockHeld'
  <2>1. CASE TakeTurn(c)
    BY <1>2, <2>1 DEF TakeTurn
  <2>2. CASE RegisterExhausted(c) \/ RefuseCommand(c) \/ CommandFails(c) \/ Return(c) \/ Cancelled(c)
    BY <1>3, <2>2 DEF RegisterExhausted, RefuseCommand, CommandFails, Return, Cancelled, Leave
  <2>3. CASE BecomesStale(c)
    BY <1>4, <2>3 DEF BecomesStale, locks
  <2>4. CASE Call(c) \/ Register(c) \/ WriteCommand(c) \/ CommandDrained(c)
    BY <1>1, <2>4 DEF Call, Register, WriteCommand, CommandDrained, locks
  <2> QED
    BY <1>6, <2>1, <2>2, <2>3, <2>4 DEF CallerStep
<1>7. CASE \/ \E tx \in Seqs : CloudCommand(tx) \/ CloudCommandExhausted(tx)
           \/ SetClock \/ SetClockExhausted
           \/ \E a \in {"cloud", "clock"} : Write(a) \/ Drained(a)
           \/ ProbeSucceeds \/ RecoveryStops
  <2>1. UNCHANGED commandLock /\ \E a \in Others, p \in Places \ {"locked"} : pc' = [pc EXCEPT ![a] = p]
    BY <1>7 DEF CloudCommand, CloudCommandExhausted, SetClock, SetClockExhausted, Write, Drained,
                ProbeSucceeds, RecoveryStops, locks, Others, Places
  <2> QED
    BY <1>1, <2>1 DEF Others
<1>8. CASE RecoveryTakesTurn
  BY <1>2, <1>8 DEF RecoveryTakesTurn
<1>9. CASE Reconnect \/ TryAgain \/ \E a \in {"cloud", "clock"} : DrainFails(a)
  BY <1>3, <1>9 DEF Reconnect, TryAgain, DrainFails, Leave
<1>10. CASE \/ \E m \in atDevice : Reply(m)
            \/ QuietAgain \/ CloudLost \/ TakenOver \/ SessionEnds \/ SessionAborted
            \/ Finished \/ UNCHANGED vars
  BY <1>4, <1>10 DEF Reply, QuietAgain, CloudLost, TakenOver, SessionEnds, SessionAborted,
                     Finished, vars, actors, locks
<1> QED
  BY <1>5, <1>6, <1>7, <1>8, <1>9, <1>10 DEF Next

-----------------------------------------------------------------------------
(* The theorems.                                                            *)

LEMMA InitIInv == Init => IInv
<1> SUFFICES ASSUME Init PROVE IInv
  OBVIOUS
<1>1. Issued = {}
  BY DEF Init, Issued
<1> QED
  BY <1>1, InitType, ActorsDistinct
     DEF Init, IInv, NumbersTaken, IssuedDistinct, TranslationsRight, NumberedToSend,
         NoEarlyResult, CommandLockHeld, RepliesGoHome, AnsweredByOwnReply

LEMMA IInvPreserved == IInv /\ [Next]_vars => IInv'
<1> SUFFICES ASSUME IInv, [Next]_vars PROVE IInv'
  OBVIOUS
<1>1. TypeOK' /\ NumberedToSend'
  BY TypePreserved, NumberedPreserved DEF IInv
<1>2. NumbersTaken' /\ IssuedDistinct' /\ TranslationsRight'
  BY NumbersPreserved DEF IInv
<1>3. RepliesGoHome' /\ AnsweredByOwnReply' /\ NoEarlyResult'
  BY RepliesPreserved
<1>4. CommandLockHeld'
  BY CommandLockPreserved DEF IInv
<1> QED
  BY <1>1, <1>2, <1>3, <1>4 DEF IInv

\* The state of a connection's commands has its types, for any requests and any
\* size of the number space.
THEOREM CommandsTypeCorrect == Spec => []TypeOK
<1>1. IInv => TypeOK
  BY DEF IInv
<1> QED
  BY <1>1, InitIInv, IInvPreserved, PTL DEF Spec

\* No two commands reach the datalogger under one number, however many numbers
\* there are and however often the relay runs out of them.
THEOREM NumbersNeverCollide == Spec => []DistinctOnTheWire
<1>1. IInv => DistinctOnTheWire
  BY DEF IInv, IssuedDistinct, Issued, DistinctOnTheWire
<1> QED
  BY <1>1, InitIInv, IInvPreserved, PTL DEF Spec

\* A reply to a local request or clock command never reaches the cloud, and the
\* cloud's own replies reach it under the numbers it chose.
THEOREM CloudSeesItsOwnReplies == Spec => []RepliesGoHome
<1>1. IInv => RepliesGoHome
  BY DEF IInv
<1> QED
  BY <1>1, InitIInv, IInvPreserved, PTL DEF Spec

\* A local request is never completed by the reply to another command.
THEOREM RequestsSeeTheirOwnReplies == Spec => []AnsweredByOwnReply
<1>1. IInv => AnsweredByOwnReply
  BY DEF IInv
<1> QED
  BY <1>1, InitIInv, IInvPreserved, PTL DEF Spec

\* The recovery task closes the connection only when no local request has had
\* its turn, because both hold command_lock.
THEOREM RecoveryKeepsItsTurn == Spec => RecoveryWaitsForCommands
<1> DEFINE NoneBegun == \A c \in Callers : pc[c] \notin {"paced", "sending", "draining", "waiting"}
<1>1. ASSUME IInv, Reconnect PROVE NoneBegun
  BY <1>1, ActorsDistinct DEF IInv, CommandLockHeld, Reconnect
<1>2. IInv /\ [Next]_vars => [Reconnect => NoneBegun]_vars
  BY <1>1
<1> QED
  BY <1>2, InitIInv, IInvPreserved, PTL DEF Spec, RecoveryWaitsForCommands
=============================================================================
