----------------------------- MODULE ServersProofs -----------------------------
(***************************************************************************)
(* What dataloggers and the cloud connect to, for any number of            *)
(* connections, inverters and requests: the relay's registry (proofs about *)
(* RelayRegistry), the stand-alone server and the evidence of writes; and  *)
(* the passive capture of what they send, whatever becomes of its segments.*)
(***************************************************************************)
EXTENDS RelayRegistry, Sequences, FiniteSetTheorems, SequenceTheorems, TLAPS

CONSTANTS
  Keys, Callers, MaxSequence, MaxDraws,
  Registers, Values, Acknowledgements, CloudNumbers, MaxPending, MaxRegisters, MaxCloud, Most,
  Unknown,
  Modulus, Initial, Length, HeaderSize, Size, Starts, MaxWaiting, MaxSegment, Reach

VARIABLES
  state, name, behind, owesClock, registry, drawn, lock, call, atDevice, astray,
  held, requests, replies, pending, registers, cloud_requests,
  tracked, expected, waiting, buffer, origin, taken, frames

Server == INSTANCE StandaloneServer
Audit == INSTANCE WriteAudit
Capture == INSTANCE StreamCapture

-----------------------------------------------------------------------------
(* The relay's registry.                                                   *)

\* A connection whose task has not begun has announced nothing.
NothingAnnouncedYet ==
  \A s \in Sessions : phase[s] \in {"new", "accepted", "rejected"} =>
    serves[s] = {} /\ \A i \in Inverters : announcer[i] # s

\* The inductive invariant: entries are sound in both directions.
RegistryInv ==
  TypeOK /\ EntriesAreLive /\ OneOpenOwner /\ LastAnnouncerOwns /\ NothingAnnouncedYet

LEMMA InitRegistry == Init => RegistryInv
  BY RegistryAssumption
     DEF Init, RegistryInv, TypeOK, EntriesAreLive, OneOpenOwner, LastAnnouncerOwns,
         NothingAnnouncedYet, Phases, Live

\* A session takes an inverter's entry.
LEMMA AnnouncePreserves ==
  ASSUME RegistryInv, NEW s \in Sessions, NEW l \in Loggers, NEW i \in Inverters,
         Announce(s, l, i)
  PROVE  RegistryInv'
<1> USE RegistryAssumption DEF RegistryInv
<1>1. TypeOK'
  BY DEF Announce, TypeOK, Phases
<1>2. /\ devices' = [devices EXCEPT ![i] = s] /\ announcer' = [announcer EXCEPT ![i] = s]
      /\ serves' = [serves EXCEPT ![s] = @ \cup {i}]
      /\ writerOpen' = writerOpen \ ({devices[i]} \ {s})
      /\ UNCHANGED <<closing, phase>> /\ Live(s)
  BY DEF Announce, Live
<1>3. EntriesAreLive'
  BY <1>2 DEF EntriesAreLive, Live, TypeOK
<1>4. OneOpenOwner'
  <2> SUFFICES ASSUME NEW j \in Inverters, NEW t \in Sessions,
                      j \in serves'[t], t \in writerOpen', Live(t)'
               PROVE  devices'[j] = t
    BY DEF OneOpenOwner
  <2>1. CASE t = s /\ j = i
    BY <1>2, <2>1 DEF TypeOK
  <2>2. CASE t = s /\ j # i
    <3>1. j \in serves[s] /\ s \in writerOpen
      BY <1>2, <2>2 DEF TypeOK
    <3> QED
      BY <1>2, <2>2, <3>1 DEF OneOpenOwner, TypeOK
  <2>3. CASE t # s
    <3>1. j \in serves[t] /\ t \in writerOpen /\ Live(t)
      BY <1>2, <2>3 DEF Live, TypeOK
    <3>2. devices[j] = t
      BY <3>1 DEF OneOpenOwner
    <3>3. j # i
      BY <1>2, <2>3, <3>2
    <3> QED
      BY <1>2, <3>2, <3>3 DEF TypeOK
  <2> QED
    BY <2>1, <2>2, <2>3
<1>5. LastAnnouncerOwns' /\ NothingAnnouncedYet'
  BY <1>2 DEF LastAnnouncerOwns, NothingAnnouncedYet, Live, TypeOK
<1> QED
  BY <1>1, <1>3, <1>4, <1>5

\* A session gives its entries up.
LEMMA ReleasePreserves ==
  ASSUME RegistryInv, NEW s \in Sessions, ReleaseEntries(s)
  PROVE  RegistryInv'
<1> USE RegistryAssumption DEF RegistryInv
<1>1. TypeOK'
  BY DEF ReleaseEntries, TypeOK, Phases
<1>2. /\ \A t \in Sessions : Live(t)' <=> (Live(t) /\ t # s)
      /\ \A t \in Sessions : t # s => phase'[t] = phase[t]
      /\ \A i \in Inverters : devices'[i] = IF i \in serves[s] /\ devices[i] = s THEN Nobody
                                           ELSE devices[i]
      /\ UNCHANGED <<closing, writerOpen, serves, announcer>>
  BY DEF ReleaseEntries, Live, TypeOK
<1>3. EntriesAreLive'
  <2> SUFFICES ASSUME NEW i \in Inverters, NEW t \in Sessions, devices'[i] = t
               PROVE  i \in serves[t] /\ (Live(t)' \/ (closing /\ phase'[t] = "aborted"))
    BY <1>2 DEF EntriesAreLive
  <2>1. devices[i] = t /\ t # s
    BY <1>2 DEF EntriesAreLive
  <2> QED
    BY <1>2, <2>1 DEF EntriesAreLive
<1>4. OneOpenOwner' /\ LastAnnouncerOwns'
  BY <1>2 DEF OneOpenOwner, LastAnnouncerOwns
<1>5. NothingAnnouncedYet'
  BY <1>2 DEF NothingAnnouncedYet, ReleaseEntries, TypeOK
<1> QED
  BY <1>1, <1>3, <1>4, <1>5

\* The other steps leave the entries alone.  They let no session serve that has
\* announced anything, and open no writer of one that serves; a session with an
\* entry may be cut short only by the end of the relay.
LEMMA OthersPreserve ==
  ASSUME RegistryInv, UNCHANGED <<serves, devices, announcer>>, TypeOK', closing => closing',
         \A s \in Sessions :
           /\ Live(s)' => Live(s) \/ phase[s] = "accepted"
           /\ Live(s) => Live(s)' \/ (closing' /\ phase'[s] = "aborted")
           /\ phase[s] = "aborted" => phase'[s] = "aborted"
           /\ phase'[s] \in {"new", "accepted", "rejected"} => phase[s] \in {"new", "accepted", "rejected"}
           /\ s \in writerOpen' /\ Live(s) => s \in writerOpen
  PROVE  RegistryInv'
<1> USE DEF RegistryInv
<1>1. \A s \in Sessions : phase[s] = "accepted" =>
        serves[s] = {} /\ \A i \in Inverters : announcer[i] # s
  BY DEF NothingAnnouncedYet
<1>2. EntriesAreLive'
  BY DEF EntriesAreLive
<1>3. OneOpenOwner'
  BY <1>1 DEF OneOpenOwner
<1>4. LastAnnouncerOwns' /\ NothingAnnouncedYet'
  BY <1>1 DEF LastAnnouncerOwns, NothingAnnouncedYet
<1> QED
  BY <1>2, <1>3, <1>4

LEMMA RegistryPreserved == RegistryInv /\ [Next]_vars => RegistryInv'
<1> SUFFICES ASSUME RegistryInv, [Next]_vars PROVE RegistryInv'
  OBVIOUS
<1>0. TypeOK
  BY DEF RegistryInv
<1>1. ASSUME NEW s \in Sessions, Accept(s) \/ Reject(s) \/ Begin(s) PROVE RegistryInv'
  <2>1. TypeOK'
    BY <1>0, <1>1 DEF Accept, Reject, Begin, TypeOK, Phases
  <2> QED
    BY <1>0, <1>1, <2>1, OthersPreserve DEF Accept, Reject, Begin, TypeOK, Live
<1>2. ASSUME NEW s \in Sessions, WriterCloses(s) \/ Disconnect(s) \/ SessionDone(s) PROVE RegistryInv'
  <2>1. TypeOK'
    BY <1>0, <1>2 DEF WriterCloses, Disconnect, SessionDone, TypeOK, Phases
  <2> QED
    BY <1>0, <1>2, <2>1, OthersPreserve DEF WriterCloses, Disconnect, SessionDone, TypeOK, Live
<1>3. ASSUME NEW s \in Sessions, ReleaseEntries(s) PROVE RegistryInv'
  BY <1>3, ReleasePreserves
<1>4. ASSUME NEW s \in Sessions, NEW l \in Loggers, IdentifyLogger(s, l) \/ LoggerChanged(s, l)
      PROVE  RegistryInv'
  <2>1. TypeOK'
    BY <1>0, <1>4 DEF IdentifyLogger, LoggerChanged, TypeOK, Phases
  <2> QED
    BY <1>0, <1>4, <2>1, OthersPreserve DEF IdentifyLogger, LoggerChanged, TypeOK, Live
<1>5. ASSUME NEW s \in Sessions, NEW l \in Loggers, NEW i \in Inverters, Announce(s, l, i)
      PROVE  RegistryInv'
  BY <1>5, AnnouncePreserves
<1>6. ASSUME NEW s \in Sessions, NEW l \in Loggers, NEW i \in Inverters, AnnounceTooMany(s, l, i)
      PROVE  RegistryInv'
  <2>1. TypeOK'
    BY <1>0, <1>6 DEF AnnounceTooMany, TypeOK
  <2> QED
    BY <1>6, <2>1, OthersPreserve DEF AnnounceTooMany, Live
<1>7. CASE CloseRelay
  <2>1. TypeOK'
    BY <1>0, <1>7 DEF CloseRelay, TypeOK, Phases
  <2> QED
    BY <1>0, <1>7, <2>1, OthersPreserve DEF CloseRelay, TypeOK, Live, Phases
<1>8. CASE Sweep
  <2>1. TypeOK'
    BY <1>0, <1>8 DEF Sweep, TypeOK
  <2> QED
    BY <1>8, <2>1, OthersPreserve DEF Sweep, Live
<1>9. CASE Finished \/ UNCHANGED vars
  BY <1>9 DEF Finished, vars, RegistryInv, TypeOK, EntriesAreLive, OneOpenOwner,
              LastAnnouncerOwns, NothingAnnouncedYet, Live
<1> QED
  BY <1>1, <1>2, <1>3, <1>4, <1>5, <1>6, <1>7, <1>8, <1>9 DEF Next

\* Whatever connections come and go, an inverter's entry leads to a session that
\* announced it and has not cleaned up.
THEOREM EntriesStayLive == Spec => []EntriesAreLive
<1>1. RegistryInv => EntriesAreLive
  BY DEF RegistryInv
<1> QED
  BY <1>1, InitRegistry, RegistryPreserved, PTL DEF Spec

\* Two open connections never both serve one inverter, even if a closed one
\* takes the inverter back with a frame it had buffered.
THEOREM OpenOwnerIsUnique == Spec => []OneOpenOwner
<1>1. RegistryInv => OneOpenOwner
  BY DEF RegistryInv
<1> QED
  BY <1>1, InitRegistry, RegistryPreserved, PTL DEF Spec

\* Cleaning up an old connection never removes the entry of a newer one.
THEOREM LastAnnouncerKeepsEntry == Spec => []LastAnnouncerOwns
<1>1. RegistryInv => LastAnnouncerOwns
  BY DEF RegistryInv
<1> QED
  BY <1>1, InitRegistry, RegistryPreserved, PTL DEF Spec

-----------------------------------------------------------------------------
(* Numbers that go round.                                                  *)

LEMMA Division ==
  ASSUME NEW N \in Nat \ {0}, NEW x \in Nat
  PROVE  x % N \in 0..(N - 1) /\ x \div N \in Nat /\ x = N * (x \div N) + (x % N)
  BY Z3

LEMMA Turns ==
  ASSUME NEW N \in Nat \ {0}, NEW p \in Int, NEW q \in Int, p < q
  PROVE  N * q - N * p >= N
  <1>1. PICK d \in Nat : q = p + d + 1
    <2>1. q - p - 1 \in Nat /\ q = p + (q - p - 1) + 1
      OBVIOUS
    <2> QED BY <2>1
  <1> DEFINE A == N * q
             B == N * p
             C == N * d
  <1>2. A \in Int /\ B \in Int /\ C \in Int
    BY <1>1
  <1>3. A = B + C + N /\ C >= 0
    BY <1>1, Z3
  <1> HIDE DEF A, B, C
  <1>4. A - B >= N
    BY <1>2, <1>3
  <1> QED BY <1>4 DEF A, B

\* Two draws have the same number only after the numbers went round.
LEMMA NumbersGoRound ==
  ASSUME MaxSequence \in Nat \ {0}, NEW a \in Nat \ {0}, NEW b \in Nat \ {0}, a < b,
         Server!Number(a) = Server!Number(b)
  PROVE  b - a >= MaxSequence
  <1> DEFINE N == MaxSequence
             x == a - 1
             y == b - 1
             p == x \div N
             q == y \div N
             A == N * p
             B == N * q
  <1>1. x \in Nat /\ y \in Nat /\ x < y
    OBVIOUS
  <1>2. x % N \in 0..(N - 1) /\ y % N \in 0..(N - 1) /\ x % N = y % N
    BY <1>1, Division DEF Server!Number
  <1>3. /\ p \in Nat /\ x = A + (x % N)
        /\ q \in Nat /\ y = B + (y % N)
    BY <1>1, Division
  <1>4. A \in Int /\ B \in Int
    BY <1>3
  <1>5. /\ p < q => B - A >= N
        /\ q < p => A - B >= N
        /\ p = q => A = B
    BY <1>3, Turns
  <1>6. PICK r \in 0..(N - 1) : x = A + r /\ y = B + r
    BY <1>2, <1>3
  <1> HIDE DEF A, B, p, q, x, y
  <1>7. y - x >= N
    BY <1>1, <1>3, <1>4, <1>5, <1>6
  <1> QED BY <1>7 DEF x, y

-----------------------------------------------------------------------------
(* The stand-alone server.                                                 *)

ServerNames == Nobody \notin Sessions \cup Loggers \cup Callers /\ MaxSequence \in Nat \ {0}

Hows == {"datalogger", "inverter", "command"}
CallStates == [pc : {"waiting", "spacing", "sent", "answered", "failed"}, how : Hows,
          session : Sessions, unit : Inverters \cup {Nobody}, key : Keys, id : Nat, by : Nat]
Requests == [id : Nat \ {0}, number : Nat, unit : Inverters \cup {Nobody}, key : Keys,
             target : Hows]
States == {"new", "open", "closed", "ending", "gone"}

\* The registry's half: a session that has not been accepted has no name.
Registered ==
  /\ state \in [Sessions -> States] /\ name \in [Sessions -> Loggers \cup {Nobody}]
  /\ registry \in [Loggers -> Sessions \cup {Nobody}]
  /\ \A s \in Sessions : state[s] = "new" => name[s] = Nobody
  /\ Server!RegistryFollowsSessions

LEMMA ServerStartsRegistered == ServerNames /\ Server!Init => Registered
  BY DEF ServerNames, Server!Init, Registered, Server!RegistryFollowsSessions, States

LEMMA ServerKeepsRegistered ==
  ASSUME ServerNames, Registered, [Server!Next]_Server!vars
  PROVE  Registered'
  <1>1. CASE UNCHANGED <<state, name, registry>>
    BY <1>1 DEF Registered, Server!RegistryFollowsSessions
  <1>2. ASSUME NEW s \in Sessions, Server!Accept(s)
        PROVE  Registered'
    BY <1>2 DEF Server!Accept, ServerNames, Registered, Server!RegistryFollowsSessions, States
  <1>3. ASSUME NEW s \in Sessions, Server!Discard(s)
        PROVE  Registered'
    BY <1>3 DEF Server!Discard, Registered, Server!RegistryFollowsSessions, States
  <1>4. ASSUME NEW s \in Sessions, NEW l \in Loggers, NEW found, Server!Announce(s, l, found)
        PROVE  Registered'
    <2>1. /\ state[s] \in {"open", "closed"}
          /\ name' = [name EXCEPT ![s] = l] /\ registry' = [registry EXCEPT ![l] = s]
          /\ state' = [t \in Sessions |->
                         IF t = registry[l] /\ t # s /\ state[t] = "open" THEN "closed" ELSE state[t]]
      BY <1>4 DEF Server!Announce, Server!Reading
    <2>2. /\ state' \in [Sessions -> States] /\ name' \in [Sessions -> Loggers \cup {Nobody}]
          /\ registry' \in [Loggers -> Sessions \cup {Nobody}]
      BY <2>1 DEF Registered, States
    <2>3. /\ state'[s] = state[s] /\ name'[s] = l /\ registry'[l] = s
          /\ \A t \in Sessions \ {s} : name'[t] = name[t]
          /\ \A k \in Loggers \ {l} : registry'[k] = registry[k]
          /\ \A t \in Sessions : state'[t] = state[t] \/ (state'[t] = "closed" /\ t = registry[l])
          /\ \A t \in Sessions \ {s} : state'[t] = "open" => state[t] = "open" /\ t # registry[l]
      BY <2>1 DEF Registered
    <2>4. \A t \in Sessions : state'[t] = "new" => name'[t] = Nobody
      BY <2>1, <2>3 DEF Registered
    <2>5. ASSUME NEW t \in Sessions, state'[t] = "open", name'[t] # Nobody
          PROVE  registry'[name'[t]] = t
      <3>1. CASE t = s
        BY <2>3, <3>1
      <3>2. CASE t # s
        BY <2>3, <2>5, <3>2 DEF Registered, Server!RegistryFollowsSessions
      <3> QED BY <3>1, <3>2
    <2>6. ASSUME NEW k \in Loggers, NEW t, t = registry'[k], t # Nobody,
                 state'[t] \in {"new", "ending", "gone"}
          PROVE  name'[t] # k
      <3>1. t # s
        BY <2>1, <2>3, <2>6
      <3>2. k # l /\ t = registry[k] /\ t \in Sessions
        BY <2>3, <2>6, <3>1 DEF Registered
      <3>3. state[t] \in {"new", "ending", "gone"} /\ name'[t] = name[t]
        BY <2>3, <2>6, <3>1, <3>2
      <3> QED BY <2>6, <3>2, <3>3 DEF Registered, Server!RegistryFollowsSessions
    <2> QED BY <2>2, <2>4, <2>5, <2>6 DEF Registered, Server!RegistryFollowsSessions
  <1>5. ASSUME NEW s \in Sessions, Server!End(s)
        PROVE  Registered'
    <2>1. /\ state' = [state EXCEPT ![s] = "ending"] /\ name' = name
          /\ registry' = [l \in Loggers |->
                            IF l = name[s] /\ registry[l] = s THEN Nobody ELSE registry[l]]
      BY <1>5 DEF Server!End, Server!Without
    <2>2. /\ state' \in [Sessions -> States] /\ registry' \in [Loggers -> Sessions \cup {Nobody}]
      BY <2>1 DEF Registered, States
    <2>3. ASSUME NEW t \in Sessions, state'[t] = "open", name[t] # Nobody
          PROVE  registry'[name[t]] = t
      BY <2>1, <2>3 DEF Registered, Server!RegistryFollowsSessions
    <2>4. ASSUME NEW k \in Loggers, NEW t, t = registry'[k], t # Nobody,
                 state'[t] \in {"new", "ending", "gone"}
          PROVE  name[t] # k
      <3>1. t = registry[k] /\ t \in Sessions
        BY <2>1, <2>4 DEF Registered
      <3>2. CASE t = s
        BY <2>1, <2>4, <3>1, <3>2
      <3>3. CASE t # s
        BY <2>1, <2>4, <3>1, <3>3 DEF Registered, Server!RegistryFollowsSessions
      <3> QED BY <3>2, <3>3
    <2>5. \A t \in Sessions : state'[t] = "new" => name[t] = Nobody
      BY <2>1 DEF Registered
    <2> QED BY <2>1, <2>2, <2>3, <2>4, <2>5 DEF Registered, Server!RegistryFollowsSessions
  <1>6. CASE \/ \E s \in Sessions : Server!Clock(s) \/ \E r \in atDevice[s] : Server!Reply(s, r)
             \/ \E c \in Callers : Server!Enter(c) \/ Server!CommandSend(c) \/ Server!GiveUp(c)
                                   \/ Server!Return(c)
             \/ \E c, how, s, unit, key : Server!Ask(c, how, s, unit, key)
    BY <1>1, <1>6 DEF Server!Clock, Server!Reply, Server!Enter, Server!CommandSend,
       Server!GiveUp, Server!Return, Server!Ask, Server!links
  <1> QED BY <1>1, <1>2, <1>3, <1>4, <1>5, <1>6 DEF Server!Next, Server!vars, Server!AskLogger,
          Server!AskInverter, Server!AskCommand

\* An open session can be reached under the logger it last named, and the registry
\* forgets a session when that ends.
THEOREM RegistryIsTrue == ServerNames /\ Server!Spec => []Server!RegistryFollowsSessions
  <1> DEFINE Inv == ServerNames /\ Registered
  <1>1. ServerNames /\ Server!Init => Inv
    BY ServerStartsRegistered
  <1>2. Inv /\ [Server!Next]_Server!vars => Inv'
    BY ServerKeepsRegistered
  <1>3. Inv => Server!RegistryFollowsSessions
    BY DEF Registered
  <1> QED BY <1>1, <1>2, <1>3, PTL DEF Server!Spec

-----------------------------------------------------------------------------
(* The server's requests and answers.                                      *)

\* A caller that still may be given the answer with this number.
Expects(c, s, i) ==
  /\ call[c].pc \in {"sent", "answered"} /\ call[c].session = s
  /\ call[c].id = i /\ call[c].by # i

\* From its pause to its return a caller has the session's lock, and no request of the
\* session is younger than the one it sent.
CallerOk(c) ==
  /\ call[c].pc \in {"spacing", "sent", "answered", "failed"} => lock[call[c].session] = c
  /\ call[c].pc \in {"waiting", "spacing", "sent", "failed"} => call[c].by = 0
  /\ call[c].pc = "sent" =>
       /\ call[c].id \in 1..drawn
       /\ \A r \in atDevice[call[c].session] : r.id <= call[c].id
  /\ call[c].pc = "answered" /\ call[c].by # call[c].id =>
       /\ call[c].by \in astray
       /\ call[c].how = "command" => call[c].id - call[c].by >= MaxSequence

\* A request at the datalogger is expected by its caller, or astray.
DeviceOk(s) ==
  /\ \A r \in atDevice[s] :
       /\ r.id <= drawn /\ r.number = Server!Number(r.id)
       /\ r.id \in astray \/ \E c \in Callers : Expects(c, s, r.id)
  /\ \A r, q \in atDevice[s] : r.id = q.id => r = q

Typed ==
  /\ call \in [Callers -> CallStates \cup {Server!Idle}] /\ drawn \in Nat
  /\ lock \in [Sessions -> Callers \cup {Nobody}]
  /\ atDevice \in [Sessions -> SUBSET Requests]
  /\ behind \in [Sessions -> SUBSET Inverters]
  /\ registry \in [Loggers -> Sessions \cup {Nobody}]

Answering ==
  /\ Typed
  /\ \A c \in Callers : CallerOk(c)
  /\ \A s \in Sessions : DeviceOk(s)

LEMMA CallsAreTyped ==
  ASSUME Typed, NEW c \in Callers, call[c].pc # "idle"
  PROVE  call[c] \in CallStates /\ call[c].session \in Sessions
  BY DEF Typed, Server!Idle, CallStates

LEMMA CallerStays ==
  ASSUME Answering, NEW c \in Callers, call'[c] = call[c],
         call[c].pc \in {"spacing", "sent", "answered", "failed"} =>
           lock'[call[c].session] = lock[call[c].session],
         drawn' \in Nat, drawn <= drawn', astray \subseteq astray',
         call[c].pc = "sent" => atDevice'[call[c].session] \subseteq atDevice[call[c].session]
  PROVE  CallerOk(c)'
  <1>1. CallerOk(c) /\ drawn \in Nat
    BY DEF Answering, Typed
  <1>2. call[c].pc = "sent" => call[c].id \in 1..drawn'
    BY <1>1 DEF CallerOk
  <1> QED BY <1>1, <1>2 DEF CallerOk

LEMMA DeviceStays ==
  ASSUME Answering, NEW s \in Sessions, drawn' \in Nat, drawn <= drawn', astray \subseteq astray',
         atDevice'[s] \subseteq atDevice[s],
         \A c \in Callers : \A r \in atDevice'[s] :
           Expects(c, s, r.id) => r.id \in astray' \/ Expects(c, s, r.id)'
  PROVE  DeviceOk(s)'
  <1>1. DeviceOk(s) /\ atDevice[s] \in SUBSET Requests /\ drawn \in Nat
    BY DEF Answering, Typed
  <1>2. \A r \in atDevice'[s] : r.id \in Nat
    BY <1>1 DEF Requests
  <1>3. \A r \in atDevice'[s] : r.id <= drawn' /\ r.number = Server!Number(r.id)
    BY <1>1, <1>2 DEF DeviceOk
  <1>4. \A r \in atDevice'[s] : r.id \in astray' \/ \E c \in Callers : Expects(c, s, r.id)'
    BY <1>1 DEF DeviceOk
  <1> QED BY <1>1, <1>3, <1>4 DEF DeviceOk, Server!Number

LEMMA ServerStartsAnswering == ServerNames /\ Server!Init => Answering
  BY DEF ServerNames, Server!Init, Server!Idle, Answering, Typed, CallerOk, DeviceOk

\* A caller leaves without the answer, which is astray from now on, or had it, or never
\* sent anything.
LEMMA ReleaseKeeps ==
  ASSUME ServerNames, Answering, NEW c \in Callers, Server!Release(c),
         call[c].pc \in {"spacing", "sent", "answered", "failed"},
         astray \subseteq astray',
         \A r \in atDevice[call[c].session] :
           Expects(c, call[c].session, r.id) => r.id \in astray',
         UNCHANGED <<drawn, atDevice, behind, registry>>
  PROVE  Answering'
  <1> DEFINE s == call[c].session
  <1>1. call[c] \in CallStates /\ s \in Sessions /\ lock[s] = c
    BY CallsAreTyped DEF Answering, CallerOk
  <1>2. /\ call' = [call EXCEPT ![c] = Server!Idle] /\ lock' = [lock EXCEPT ![s] = Nobody]
    BY DEF Server!Release
  <1> HIDE DEF s
  <1>3. Typed'
    BY <1>1, <1>2 DEF Answering, Typed
  <1>4. ASSUME NEW d \in Callers, d # c
        PROVE  CallerOk(d)'
    <2>1. call'[d] = call[d] /\ CallerOk(d)
      BY <1>2, <1>4 DEF Answering, Typed
    <2>2. call[d].pc \in {"spacing", "sent", "answered", "failed"} => call[d].session # s
      BY <1>1, <1>4, <2>1 DEF CallerOk
    <2>3. call[d].pc # "idle" => call[d].session \in Sessions
      BY CallsAreTyped DEF Answering
    <2>4. call[d].session # s /\ call[d].pc # "idle" => lock'[call[d].session] = lock[call[d].session]
      BY <1>1, <1>2, <2>3 DEF Answering, Typed
    <2> QED BY <2>1, <2>2, <2>4 DEF CallerOk, Server!Idle
  <1>5. CallerOk(c)'
    BY <1>2 DEF Answering, Typed, CallerOk, Server!Idle
  <1>6. ASSUME NEW t \in Sessions
        PROVE  DeviceOk(t)'
    <2>1. ASSUME NEW d \in Callers, NEW r \in atDevice'[t], Expects(d, t, r.id)
          PROVE  r.id \in astray' \/ Expects(d, t, r.id)'
      <3>1. CASE d = c
        BY <2>1, <3>1 DEF Expects
      <3>2. CASE d # c
        BY <1>2, <2>1, <3>2 DEF Expects, Answering, Typed
      <3> QED BY <3>1, <3>2
    <2> QED BY <1>3, <2>1, DeviceStays DEF Answering, Typed
  <1> QED BY <1>3, <1>4, <1>5, <1>6 DEF Answering

\* What leaves the calls, the locks and the datalogger's requests alone.
LEMMA QuietKeeps ==
  ASSUME ServerNames, Answering, UNCHANGED <<call, lock, atDevice, astray>>,
         drawn' \in Nat, drawn <= drawn',
         behind' \in [Sessions -> SUBSET Inverters],
         registry' \in [Loggers -> Sessions \cup {Nobody}]
  PROVE  Answering'
  <1>1. Typed'
    BY DEF Answering, Typed
  <1>2. \A c \in Callers : CallerOk(c)'
    BY CallerStays
  <1>3. ASSUME NEW s \in Sessions
        PROVE  DeviceOk(s)'
    <2>1. \A c \in Callers : \A r \in atDevice'[s] : Expects(c, s, r.id) => Expects(c, s, r.id)'
      BY DEF Expects
    <2> QED BY <2>1, DeviceStays
  <1> QED BY <1>1, <1>2, <1>3 DEF Answering

\* The end of a connection fails the calls that wait on it, and nothing is left to
\* answer them.
LEMMA EndKeeps ==
  ASSUME ServerNames, Answering, NEW s \in Sessions, Server!End(s)
  PROVE  Answering'
  <1>1. /\ registry' = [l \in Loggers |->
                          IF l = name[s] /\ registry[l] = s THEN Nobody ELSE registry[l]]
        /\ call' = [c \in Callers |-> IF call[c].pc = "sent" /\ call[c].session = s
                                        THEN [call[c] EXCEPT !.pc = "failed"] ELSE call[c]]
        /\ atDevice' = [atDevice EXCEPT ![s] = {}]
        /\ UNCHANGED <<behind, drawn, lock, astray>>
    BY DEF Server!End, Server!Without, Server!Pending
  <1>2. ASSUME NEW c \in Callers, call[c].pc = "sent", call[c].session = s
        PROVE  /\ call[c] \in CallStates /\ call'[c] \in CallStates
               /\ call'[c].pc = "failed" /\ call'[c].session = s /\ call'[c].by = 0
               /\ lock[s] = c
    <2>1. call[c] \in CallStates /\ CallerOk(c)
      BY <1>2, CallsAreTyped DEF Answering
    <2>2. call'[c] = [call[c] EXCEPT !.pc = "failed"]
      BY <1>1, <1>2
    <2>3. call'[c] \in CallStates /\ call'[c].pc = "failed" /\ call'[c].session = s
          /\ call'[c].by = call[c].by
      BY <1>2, <2>1, <2>2 DEF CallStates
    <2> QED BY <1>2, <2>1, <2>3 DEF CallerOk
  <1>3. \A c \in Callers : ~(call[c].pc = "sent" /\ call[c].session = s) => call'[c] = call[c]
    BY <1>1
  <1>4. Typed'
    <2>1. call' \in [Callers -> CallStates \cup {Server!Idle}]
      BY <1>1, <1>2, <1>3 DEF Answering, Typed
    <2>2. atDevice' \in [Sessions -> SUBSET Requests]
      BY <1>1 DEF Answering, Typed
    <2>3. registry' \in [Loggers -> Sessions \cup {Nobody}]
      BY <1>1 DEF Answering, Typed
    <2> QED BY <1>1, <2>1, <2>2, <2>3 DEF Answering, Typed, Server!Idle
  <1>5. ASSUME NEW c \in Callers
        PROVE  CallerOk(c)'
    <2>1. CASE call[c].pc = "sent" /\ call[c].session = s
      BY <1>1, <1>2, <2>1 DEF CallerOk
    <2>2. CASE ~(call[c].pc = "sent" /\ call[c].session = s)
      <3>1. call'[c] = call[c]
        BY <1>3, <2>2
      <3>2. call[c].pc = "sent" => atDevice'[call[c].session] = atDevice[call[c].session]
        BY <1>1, <2>2, CallsAreTyped DEF Answering, Typed
      <3> QED BY <1>1, <3>1, <3>2, CallerStays DEF Answering, Typed
    <2> QED BY <2>1, <2>2
  <1>6. ASSUME NEW t \in Sessions
        PROVE  DeviceOk(t)'
    <2>1. CASE t = s
      BY <1>1, <2>1 DEF DeviceOk, Answering, Typed
    <2>2. CASE t # s
      <3>1. atDevice'[t] = atDevice[t]
        BY <1>1, <2>2 DEF Answering, Typed
      <3>2. \A c \in Callers : \A r \in atDevice'[t] : Expects(c, t, r.id) => Expects(c, t, r.id)'
        BY <1>3, <2>2 DEF Expects
      <3> QED BY <1>1, <3>1, <3>2, DeviceStays DEF Answering, Typed
    <2> QED BY <2>1, <2>2
  <1> QED BY <1>4, <1>5, <1>6 DEF Answering

\* A reply is given to the one call that waits on the connection, if it matches it.
LEMMA ReplyKeeps ==
  ASSUME ServerNames, Answering, NEW s \in Sessions, NEW r \in atDevice[s], Server!Reply(s, r)
  PROVE  Answering'
  <1> DEFINE Given(c) == c \in Server!Pending(s) /\ Server!Matches(c, r)
  <1>0. drawn' = drawn /\ drawn \in Nat /\ UNCHANGED <<lock, astray>>
    BY DEF Server!Reply, Answering, Typed
  <1>1. /\ call' = [c \in Callers |-> IF Given(c)
                                        THEN [call[c] EXCEPT !.pc = "answered", !.by = r.id]
                                        ELSE call[c]]
        /\ atDevice' = [atDevice EXCEPT ![s] = @ \ {r}]
        /\ UNCHANGED <<behind, registry, drawn, lock, astray>>
    BY DEF Server!Reply, Server!links
  <1>2. /\ r \in Requests /\ r.id \in Nat \ {0} /\ r.number = Server!Number(r.id)
        /\ r.id \in astray \/ \E c \in Callers : Expects(c, s, r.id)
        /\ \A q \in atDevice[s] : r.id = q.id => r = q
    BY DEF Answering, Typed, DeviceOk, Requests
  <1>3. ASSUME NEW c \in Callers, Given(c)
        PROVE  /\ call[c] \in CallStates /\ call[c].pc = "sent" /\ call[c].session = s
               /\ call'[c] \in CallStates /\ call'[c].pc = "answered" /\ call'[c].by = r.id
               /\ call'[c].session = s /\ call'[c].id = call[c].id /\ call'[c].how = call[c].how
               /\ lock[s] = c
    <2>1. call[c].pc = "sent" /\ call[c].session = s
      BY <1>3 DEF Server!Pending
    <2>2. call[c] \in CallStates /\ CallerOk(c)
      BY <2>1, CallsAreTyped DEF Answering
    <2>3. call'[c] = [call[c] EXCEPT !.pc = "answered", !.by = r.id]
      BY <1>1, <1>3
    <2>4. call'[c] \in CallStates /\ call'[c].pc = "answered" /\ call'[c].by = r.id
          /\ call'[c].session = s /\ call'[c].id = call[c].id /\ call'[c].how = call[c].how
      BY <1>2, <2>1, <2>2, <2>3 DEF CallStates
    <2> QED BY <2>1, <2>2, <2>4 DEF CallerOk
  <1>4. \A c \in Callers : ~Given(c) => call'[c] = call[c]
    BY <1>1
  <1>5. Typed'
    <2>1. call' \in [Callers -> CallStates \cup {Server!Idle}]
      BY <1>1, <1>3, <1>4 DEF Answering, Typed
    <2>2. atDevice' \in [Sessions -> SUBSET Requests]
      BY <1>1 DEF Answering, Typed
    <2> QED BY <1>1, <2>1, <2>2 DEF Answering, Typed, Server!Idle
  <1>6. ASSUME NEW c \in Callers, Given(c), r.id # call[c].id
        PROVE  /\ r.id \in astray
               /\ call[c].how = "command" => call[c].id - r.id >= MaxSequence
    <2>1. call[c].id \in Nat \ {0} /\ r.id <= call[c].id
      <3>1. CallerOk(c) /\ drawn \in Nat
        BY DEF Answering, Typed
      <3> QED BY <1>3, <1>6, <3>1 DEF CallerOk
    <2>2. \A d \in Callers : ~Expects(d, s, r.id)
      <3>1. \A d \in Callers : Expects(d, s, r.id) => d = c
        BY <1>3, <1>6 DEF Expects, Answering, CallerOk
      <3> QED BY <1>6, <3>1 DEF Expects
    <2>3. call[c].how = "command" => Server!Number(r.id) = Server!Number(call[c].id)
      BY <1>2, <1>6 DEF Server!Matches
    <2>4. r.id < call[c].id
      BY <1>2, <1>6, <2>1
    <2> QED BY <1>2, <2>1, <2>2, <2>3, <2>4, NumbersGoRound DEF ServerNames
  <1>7. ASSUME NEW c \in Callers
        PROVE  CallerOk(c)'
    <2>1. CASE Given(c)
      <3>1. /\ call'[c].pc = "answered" /\ call'[c].by = r.id /\ call'[c].session = s
            /\ call'[c].id = call[c].id /\ call'[c].how = call[c].how /\ lock'[s] = c
        BY <1>1, <1>3, <2>1
      <3>2. r.id # call[c].id => r.id \in astray'
              /\ (call[c].how = "command" => call[c].id - r.id >= MaxSequence)
        BY <1>1, <1>6, <2>1
      <3> HIDE DEF Given
      <3> QED BY <3>1, <3>2 DEF CallerOk
    <2>2. CASE ~Given(c)
      <3>1. call'[c] = call[c]
        BY <1>4, <2>2
      <3>2. call[c].pc = "sent" => atDevice'[call[c].session] \subseteq atDevice[call[c].session]
        BY <1>1, CallsAreTyped DEF Answering, Typed
      <3> HIDE DEF Given
      <3> QED BY <1>0, <3>1, <3>2, CallerStays
    <2> QED BY <2>1, <2>2
  <1>8. ASSUME NEW t \in Sessions
        PROVE  DeviceOk(t)'
    <2>1. atDevice'[t] \subseteq atDevice[t] /\ (t = s => atDevice'[t] = atDevice[t] \ {r})
      BY <1>1 DEF Answering, Typed
    <2>2. ASSUME NEW c \in Callers, NEW q \in atDevice'[t], Expects(c, t, q.id)
          PROVE  Expects(c, t, q.id)'
      <3>1. CASE Given(c)
        <4>1. t = s
          BY <1>3, <2>2, <3>1 DEF Expects
        <4>2. q.id # r.id
          BY <1>2, <2>1, <4>1
        <4> QED BY <1>3, <2>2, <3>1, <4>1, <4>2 DEF Expects
      <3>2. CASE ~Given(c)
        BY <1>4, <2>2, <3>2 DEF Expects
      <3> QED BY <3>1, <3>2
    <2> HIDE DEF Given
    <2> QED BY <1>0, <2>1, <2>2, DeviceStays
  <1> QED BY <1>5, <1>7, <1>8 DEF Answering

\* A call that expects no answer goes on: other calls keep what they had.
LEMMA CallKeeps ==
  ASSUME ServerNames, Answering, NEW c \in Callers, NEW v \in CallStates \cup {Server!Idle},
         call' = [call EXCEPT ![c] = v], call[c].pc \notin {"sent", "answered"}, CallerOk(c)',
         lock' \in [Sessions -> Callers \cup {Nobody}],
         \A d \in Callers \ {c} : call[d].pc \in {"spacing", "sent", "answered", "failed"} =>
           lock'[call[d].session] = lock[call[d].session],
         UNCHANGED <<drawn, atDevice, behind, registry, astray>>
  PROVE  Answering'
  <1>1. call'[c] = v /\ \A d \in Callers \ {c} : call'[d] = call[d]
    BY DEF Answering, Typed
  <1>2. Typed'
    BY DEF Answering, Typed, Server!Idle
  <1>3. ASSUME NEW d \in Callers, d # c
        PROVE  CallerOk(d)'
    BY <1>1, <1>3, CallerStays DEF Answering, Typed
  <1>4. ASSUME NEW t \in Sessions
        PROVE  DeviceOk(t)'
    <2>1. \A d \in Callers : \A r \in atDevice'[t] : Expects(d, t, r.id) => Expects(d, t, r.id)'
      BY <1>1 DEF Expects
    <2> QED BY <2>1, DeviceStays DEF Answering, Typed
  <1> QED BY <1>2, <1>3, <1>4 DEF Answering

LEMMA AskKeeps ==
  ASSUME ServerNames, Answering, NEW c \in Callers, NEW how \in Hows, NEW s \in Sessions,
         NEW unit \in Inverters \cup {Nobody}, NEW key \in Keys, Server!Ask(c, how, s, unit, key)
  PROVE  Answering'
  <1> DEFINE v == [pc |-> "waiting", how |-> how, session |-> s, unit |-> unit,
                   key |-> key, id |-> 0, by |-> 0]
  <1>1. /\ call[c].pc = "idle" /\ call' = [call EXCEPT ![c] = v]
        /\ UNCHANGED <<lock, drawn, atDevice, behind, registry, astray>>
    BY DEF Server!Ask, Server!links
  <1>2. v \in CallStates /\ v.pc = "waiting" /\ v.by = 0
    BY DEF CallStates
  <1>3. call'[c] = v
    BY <1>1 DEF Answering, Typed
  <1> HIDE DEF v
  <1>4. CallerOk(c)'
    BY <1>2, <1>3 DEF CallerOk
  <1> QED BY <1>1, <1>2, <1>4, CallKeeps DEF Answering, Typed

\* A command takes its session's lock, and pauses.
LEMMA PauseKeeps ==
  ASSUME ServerNames, Answering, NEW c \in Callers, call[c].pc = "waiting",
         lock[call[c].session] = Nobody, call' = [call EXCEPT ![c].pc = "spacing"],
         lock' = [lock EXCEPT ![call[c].session] = c],
         UNCHANGED <<drawn, atDevice, behind, registry, astray>>
  PROVE  Answering'
  <1> DEFINE s == call[c].session
             v == [call[c] EXCEPT !.pc = "spacing"]
  <1>1. call[c] \in CallStates /\ s \in Sessions /\ CallerOk(c) /\ call[c].by = 0
    BY CallsAreTyped DEF Answering, CallerOk
  <1>2. v \in CallStates /\ v.pc = "spacing" /\ v.by = 0 /\ v.session = s
    BY <1>1 DEF CallStates
  <1>3. call' = [call EXCEPT ![c] = v] /\ call'[c] = v
    BY DEF Answering, Typed
  <1>4. lock' \in [Sessions -> Callers \cup {Nobody}] /\ lock'[s] = c
    BY <1>1 DEF Answering, Typed
  <1>5. ASSUME NEW d \in Callers \ {c}, call[d].pc \in {"spacing", "sent", "answered", "failed"}
        PROVE  lock'[call[d].session] = lock[call[d].session]
    <2>1. lock[call[d].session] = d /\ call[d].session \in Sessions
      BY <1>5, CallsAreTyped DEF Answering, CallerOk
    <2>2. call[d].session # s
      BY <2>1 DEF ServerNames
    <2> QED BY <1>1, <2>1, <2>2 DEF Answering, Typed
  <1> HIDE DEF s, v
  <1>6. CallerOk(c)'
    BY <1>2, <1>3, <1>4 DEF CallerOk
  <1> QED BY <1>2, <1>3, <1>4, <1>5, <1>6, CallKeeps

\* A request is written: its caller waits for the answer under the lock, or has
\* already gone.
LEMMA SendKeeps ==
  ASSUME ServerNames, Answering, NEW c \in Callers, Server!Send(c),
         \/ call[c].pc = "waiting" /\ lock[call[c].session] = Nobody
         \/ call[c].pc = "spacing",
         UNCHANGED <<behind, registry>>
  PROVE  Answering'
  <1> DEFINE s == call[c].session
             i == drawn + 1
             q == [id |-> i, number |-> Server!Number(i), unit |-> call[c].unit,
                   key |-> call[c].key,
                   target |-> IF call[c].how = "command" THEN "inverter" ELSE call[c].how]
             sent == [call[c] EXCEPT !.id = i, !.pc = "sent"]
  <1>1. /\ call[c] \in CallStates /\ s \in Sessions /\ CallerOk(c) /\ call[c].by = 0
        /\ drawn \in Nat /\ i \in Nat \ {0} /\ lock[s] \in {Nobody, c}
    BY CallsAreTyped DEF Answering, CallerOk, Typed
  <1>2. drawn' = i /\ drawn < drawn' /\ astray \subseteq astray'
    BY <1>1 DEF Server!Send, Server!Release
  <1>3. sent \in CallStates /\ sent.pc = "sent" /\ sent.by = 0 /\ sent.id = i /\ sent.session = s
    BY <1>1 DEF CallStates
  <1>4. PICK v \in {sent, Server!Idle}, w \in {c, Nobody} :
          /\ call' = [call EXCEPT ![c] = v] /\ lock' = [lock EXCEPT ![s] = w]
          /\ v = sent => w = c
          /\ v = Server!Idle => i \in astray'
    <2>1. CASE /\ call' = [call EXCEPT ![c].id = i, ![c].pc = "sent"]
               /\ lock' = [lock EXCEPT ![s] = c]
      <3>1. call' = [call EXCEPT ![c] = sent]
        BY <2>1 DEF Answering, Typed
      <3>2. sent # Server!Idle
        BY <1>3 DEF Server!Idle
      <3> QED BY <2>1, <3>1, <3>2
    <2>2. CASE Server!Release(c) /\ astray' = astray \cup {i}
      <3>1. sent # Server!Idle
        BY <1>3 DEF Server!Idle
      <3> QED BY <2>2, <3>1 DEF Server!Release
    <2> QED BY <2>1, <2>2 DEF Server!Send
  <1>5. Server!Number(i) \in Nat
    BY <1>1, Division DEF ServerNames, Server!Number
  <1>6. q \in Requests /\ q.id = i /\ q.number = Server!Number(i)
    BY <1>1, <1>5 DEF Requests, CallStates, Hows
  <1>7. atDevice' \in {atDevice, [atDevice EXCEPT ![s] = @ \cup {q}]}
    BY DEF Server!Send
  <1> HIDE DEF q, sent, s, i
  <1>8. /\ call'[c] = v /\ \A d \in Callers \ {c} : call'[d] = call[d]
        /\ \A t \in Sessions \ {s} : lock'[t] = lock[t] /\ atDevice'[t] = atDevice[t]
        /\ lock'[s] = w
        /\ \A r \in atDevice'[s] : r \in atDevice[s] \/ r = q
    BY <1>1, <1>4, <1>7 DEF Answering, Typed
  <1>9. Typed'
    <2>1. call' \in [Callers -> CallStates \cup {Server!Idle}]
      BY <1>3, <1>4 DEF Answering, Typed
    <2>2. lock' \in [Sessions -> Callers \cup {Nobody}]
      BY <1>4 DEF Answering, Typed
    <2>3. atDevice' \in [Sessions -> SUBSET Requests]
      BY <1>1, <1>6, <1>7 DEF Answering, Typed
    <2> QED BY <1>1, <1>2, <2>1, <2>2, <2>3 DEF Answering, Typed, Server!Idle
  <1>10. \A r \in atDevice[s] : r.id \in Nat /\ r.id <= drawn
    BY <1>1 DEF Answering, Typed, DeviceOk, Requests
  <1>11. CallerOk(c)'
    <2>1. CASE v = sent
      <3>1. i \in 1..drawn' /\ \A r \in atDevice'[s] : r.id <= i
        BY <1>1, <1>2, <1>6, <1>8, <1>10 DEF i
      <3> QED BY <1>3, <1>4, <1>8, <2>1, <3>1 DEF CallerOk
    <2>2. CASE v = Server!Idle
      BY <1>8, <2>2 DEF CallerOk, Server!Idle
    <2> QED BY <2>1, <2>2
  <1>12. ASSUME NEW d \in Callers, d # c
         PROVE  CallerOk(d)'
    <2>1. call'[d] = call[d]
      BY <1>8, <1>12
    <2>2. ASSUME call[d].pc \in {"spacing", "sent", "answered", "failed"}
          PROVE  call[d].session \in Sessions \ {s}
      <3>1. lock[call[d].session] = d /\ call[d].session \in Sessions
        BY <2>2, CallsAreTyped DEF Answering, CallerOk
      <3> QED BY <1>1, <1>12, <3>1 DEF ServerNames
    <2> QED BY <1>1, <1>2, <1>8, <2>1, <2>2, CallerStays
  <1>13. ASSUME NEW t \in Sessions
         PROVE  DeviceOk(t)'
    <2>1. ASSUME NEW d \in Callers, NEW r \in atDevice[t], Expects(d, t, r.id)
          PROVE  Expects(d, t, r.id)'
      <3>1. d # c
        BY <2>1 DEF Expects
      <3> QED BY <1>8, <2>1, <3>1 DEF Expects
    <2>2. CASE t # s
      BY <1>1, <1>2, <1>8, <2>1, <2>2, DeviceStays
    <2>3. CASE t = s
      <3>1. ASSUME NEW r \in atDevice'[t]
            PROVE  /\ r.id <= drawn' /\ r.number = Server!Number(r.id)
                   /\ r.id \in astray' \/ \E d \in Callers : Expects(d, t, r.id)'
        <4>1. CASE r \in atDevice[s]
          <5>1. r.id <= drawn'
            BY <1>1, <1>2, <1>10, <4>1 DEF i
          <5>2. /\ r.number = Server!Number(r.id)
                /\ r.id \in astray \/ \E d \in Callers : Expects(d, s, r.id)
            BY <1>1, <4>1 DEF Answering, DeviceOk
          <5> QED BY <1>2, <2>1, <2>3, <4>1, <5>1, <5>2
        <4>2. CASE r = q
          <5>1. r.id = i /\ r.number = Server!Number(i) /\ i <= drawn'
            BY <1>1, <1>2, <1>6, <4>2
          <5>2. CASE v = sent
            BY <1>1, <1>3, <1>8, <2>3, <5>1, <5>2 DEF Expects
          <5>3. CASE v = Server!Idle
            BY <1>4, <5>1, <5>3
          <5> QED BY <5>1, <5>2, <5>3
        <4> QED BY <1>8, <2>3, <4>1, <4>2
      <3>2. ASSUME NEW r \in atDevice'[t], NEW p \in atDevice'[t], r.id = p.id
            PROVE  r = p
        <4>1. \A x \in atDevice[s] : x.id # q.id
          BY <1>1, <1>6, <1>10 DEF i
        <4> QED BY <1>1, <1>8, <2>3, <3>2, <4>1 DEF Answering, DeviceOk
      <3>3. DeviceOk(t)' <=>
              /\ \A r \in atDevice'[t] :
                   /\ r.id <= drawn' /\ r.number = Server!Number(r.id)
                   /\ r.id \in astray' \/ \E d \in Callers : Expects(d, t, r.id)'
              /\ \A r, p \in atDevice'[t] : r.id = p.id => r = p
        BY DEF DeviceOk, Server!Number
      <3> QED BY <3>1, <3>2, <3>3
    <2> QED BY <2>2, <2>3
  <1> QED BY <1>9, <1>11, <1>12, <1>13 DEF Answering

LEMMA ServerKeepsAnswering ==
  ASSUME ServerNames, Answering, [Server!Next]_Server!vars
  PROVE  Answering'
  <1>1. drawn \in Nat /\ drawn <= drawn
    BY DEF Answering, Typed
  <1>2. CASE UNCHANGED Server!vars
    BY <1>1, <1>2, QuietKeeps DEF Server!vars, Answering, Typed
  <1>3. ASSUME NEW s \in Sessions, Server!Accept(s) \/ Server!Discard(s)
        PROVE  Answering'
    BY <1>1, <1>3, QuietKeeps DEF Server!Accept, Server!Discard, Answering, Typed
  <1>4. ASSUME NEW s \in Sessions, Server!Clock(s)
        PROVE  Answering'
    <2>1. drawn' \in Nat /\ drawn <= drawn'
      BY <1>1, <1>4 DEF Server!Clock
    <2> QED BY <1>4, <2>1, QuietKeeps DEF Server!Clock, Answering, Typed
  <1>5. ASSUME NEW s \in Sessions, NEW l \in Loggers, NEW i \in Inverters, NEW both \in BOOLEAN,
               Server!Announce(s, l, IF both THEN {i} ELSE {})
        PROVE  Answering'
    <2>1. behind' \in [Sessions -> SUBSET Inverters]
      BY <1>5 DEF Server!Announce, Answering, Typed
    <2>2. registry' \in [Loggers -> Sessions \cup {Nobody}]
      BY <1>5 DEF Server!Announce, Answering, Typed
    <2> QED BY <1>1, <1>5, <2>1, <2>2, QuietKeeps DEF Server!Announce
  <1>6. ASSUME NEW c \in Callers, NEW key \in Keys, NEW l \in Loggers,
               Server!AskLogger(c, l, key)
        PROVE  Answering'
    <2>1. registry[l] \in Sessions
      BY <1>6 DEF Server!AskLogger, Answering, Typed
    <2> QED BY <1>6, <2>1, AskKeeps DEF Server!AskLogger, Hows
  <1>7. ASSUME NEW c \in Callers, NEW key \in Keys, NEW s \in Sessions, NEW i \in Inverters,
               Server!AskInverter(c, s, i, key) \/ Server!AskCommand(c, s, i, key)
        PROVE  Answering'
    BY <1>7, AskKeeps DEF Server!AskInverter, Server!AskCommand, Hows
  <1>8. ASSUME NEW c \in Callers, Server!Enter(c)
        PROVE  Answering'
    <2>1. CASE Server!Send(c)
      BY <1>8, <2>1, SendKeeps DEF Server!Enter, Server!links
    <2>2. CASE ~Server!Send(c)
      BY <1>8, <2>2, PauseKeeps DEF Server!Enter, Server!links
    <2> QED BY <2>1, <2>2
  <1>9. ASSUME NEW c \in Callers, Server!CommandSend(c)
        PROVE  Answering'
    <2>1. CASE Server!Send(c)
      BY <1>9, <2>1, SendKeeps DEF Server!CommandSend, Server!links
    <2>2. CASE Server!Release(c) /\ UNCHANGED <<drawn, atDevice, astray>>
      <3>1. call[c].pc = "spacing"
        BY <1>9 DEF Server!CommandSend
      <3> QED BY <1>9, <2>2, <3>1, ReleaseKeeps DEF Server!CommandSend, Server!links, Expects
    <2> QED BY <1>9, <2>1, <2>2 DEF Server!CommandSend
  <1>10. ASSUME NEW c \in Callers, Server!GiveUp(c)
         PROVE  Answering'
    <2>1. UNCHANGED <<drawn, atDevice, behind, registry>>
      BY <1>10 DEF Server!GiveUp, Server!links
    <2>2. CASE call[c].pc = "sent" /\ Server!Release(c) /\ astray' = astray \cup {call[c].id}
      BY <2>1, <2>2, ReleaseKeeps DEF Expects
    <2>3. CASE /\ call[c].pc = "waiting" /\ call' = [call EXCEPT ![c] = Server!Idle]
               /\ UNCHANGED <<lock, astray>>
      <3>1. CallerOk(c)'
        BY <2>3 DEF Answering, Typed, CallerOk, Server!Idle
      <3> QED BY <2>1, <2>3, <3>1, CallKeeps DEF Answering, Typed
    <2> QED BY <1>10, <2>2, <2>3 DEF Server!GiveUp
  <1>11. ASSUME NEW c \in Callers, Server!Return(c)
         PROVE  Answering'
    BY <1>11, ReleaseKeeps DEF Server!Return, Server!links, Expects
  <1>12. ASSUME NEW s \in Sessions, NEW r \in atDevice[s], Server!Reply(s, r)
         PROVE  Answering'
    BY <1>12, ReplyKeeps
  <1>13. ASSUME NEW s \in Sessions, Server!End(s)
         PROVE  Answering'
    BY <1>13, EndKeeps
  <1> QED BY <1>2, <1>3, <1>4, <1>5, <1>6, <1>7, <1>8, <1>9, <1>10, <1>11, <1>12, <1>13
          DEF Server!Next

\* An answer is the reply to the caller's own request, or to an earlier one whose caller
\* did not get it; for a command only after the numbers went round.
THEOREM AnswersAreTrue == ServerNames /\ Server!Spec => []Server!AnswersAreOwnOrLate
  <1> DEFINE Inv == ServerNames /\ Answering
  <1>1. ServerNames /\ Server!Init => Inv
    BY ServerStartsAnswering
  <1>2. Inv /\ [Server!Next]_Server!vars => Inv'
    BY ServerKeepsAnswering
  <1>3. Inv => Server!AnswersAreOwnOrLate
    BY DEF Answering, CallerOk, Server!AnswersAreOwnOrLate
  <1> QED BY <1>1, <1>2, <1>3, PTL DEF Server!Spec

-----------------------------------------------------------------------------
(* The evidence of writes.                                                 *)

Sent(i) == i \in 1..Len(requests)
AuditRequests ==
  [source : {"local", "cloud"}, what : {"read", "write"}, address : Registers,
   value : Values \cup {Unknown}, key : {"local", "cloud"} \X (Nat \cup CloudNumbers),
   state : {"sent", "done", "refused"}]
AuditRows == [address : Registers, expected : Values \cup {Unknown}, sequence : Nat,
              cloud : [sequence : Nat, value : Values \cup {Unknown}],
              finding : {"none", "matches", "cloud", "unconfirmed"}]
AuditTyped ==
  /\ requests \in Seq(AuditRequests)
  /\ pending \in Seq(Nat) /\ registers \in Seq(AuditRows)

\* Local numbers are used once, and a number of the cloud that may be used again is known.
Full == Audit!Cardinality(cloud_requests) >= MaxCloud
KeyIs(i) ==
  \/ requests[i].source = "local" /\ requests[i].key = <<"local", i>>
  \/ \E n \in CloudNumbers : requests[i].source = "cloud" /\ requests[i].key = <<"cloud", n>>
                             /\ (n \in cloud_requests \/ Full)

\* A request that is pending is the only one under its key.
Only(i) == Sent(i) /\ \A j \in 1..Len(requests) : requests[j].key = requests[i].key => j = i

\* What a row says is what happened: the writes it names were carried out, and where it
\* names the cloud there was a write of another value, and a reading after it.
Done(i, source, what, address) ==
  /\ Sent(i) /\ requests[i].source = source /\ requests[i].what = what
  /\ requests[i].state = "done" /\ requests[i].address = address
RowFits(row) ==
  /\ Done(row.sequence, "local", "write", row.address)
  /\ row.cloud.sequence > row.sequence =>
       Done(row.cloud.sequence, "cloud", "write", row.address)
         /\ requests[row.cloud.sequence].value = row.cloud.value
  /\ row.finding = "cloud" =>
       \E i, j \in 1..Len(requests) :
         /\ i > row.sequence /\ j > i
         /\ Done(i, "cloud", "write", row.address) /\ requests[i].value # row.expected
         /\ Done(j, "local", "read", row.address)

AuditInvariant ==
  /\ AuditTyped
  /\ \A i \in 1..Len(requests) :
       KeyIs(i) /\ (requests[i].what = "read" => requests[i].source = "local")
  /\ \A k \in 1..Len(pending) : Only(pending[k])
  /\ \A k, l \in 1..Len(pending) : pending[k] = pending[l] => k = l
  /\ \A r \in replies : Sent(r.to) /\ (r.accepted => requests[r.to].state = "done")
  /\ \A k \in 1..Len(registers) : RowFits(registers[k])

LEMMA AuditStarts == Audit!Init => AuditInvariant
  <1> SUFFICES ASSUME Audit!Init PROVE AuditInvariant
    OBVIOUS
  <1>1. /\ requests = <<>> /\ pending = <<>> /\ registers = <<>> /\ replies = {}
    BY DEF Audit!Init
  <1>2. AuditTyped
    BY <1>1 DEF AuditTyped
  <1> QED BY <1>1, <1>2 DEF AuditInvariant

LEMMA RequestsAreTyped ==
  ASSUME AuditInvariant, NEW i \in 1..Len(requests)
  PROVE  /\ requests[i] \in AuditRequests
         /\ requests[i].source \in {"local", "cloud"} /\ requests[i].what \in {"read", "write"}
         /\ requests[i].address \in Registers /\ requests[i].value \in Values \cup {Unknown}
  <1>1. requests[i] \in AuditRequests
    BY DEF AuditInvariant, AuditTyped
  <1> QED BY <1>1 DEF AuditRequests

LEMMA OneTakenOut ==
  ASSUME NEW S, NEW q \in Seq(S), NEW i \in 1..Len(q)
  PROVE  /\ Audit!RemoveAt(q, i) \in Seq(S) /\ Len(Audit!RemoveAt(q, i)) = Len(q) - 1
         /\ \A m \in 1..(Len(q) - 1) : Audit!RemoveAt(q, i)[m] = IF m < i THEN q[m] ELSE q[m + 1]
  <1> DEFINE a == SubSeq(q, 1, i - 1)
             b == SubSeq(q, i + 1, Len(q))
  <1>1. Audit!RemoveAt(q, i) = a \o b
    BY DEF Audit!RemoveAt
  <1>2. a \in Seq(S) /\ Len(a) = i - 1 /\ \A m \in 1..(i - 1) : a[m] = q[m]
    BY SubSeqProperties
  <1>3. b \in Seq(S) /\ Len(b) = Len(q) - i /\ \A m \in 1..(Len(q) - i) : b[m] = q[i + m]
    BY SubSeqProperties
  <1> HIDE DEF a, b
  <1>4. /\ a \o b \in Seq(S) /\ Len(a \o b) = Len(a) + Len(b)
        /\ \A m \in 1..(Len(a) + Len(b)) :
             (a \o b)[m] = IF m <= Len(a) THEN a[m] ELSE b[m - Len(a)]
    BY <1>2, <1>3, ConcatProperties
  <1>5. ASSUME NEW m \in 1..(Len(q) - 1), m > i - 1
        PROVE  b[m - Len(a)] = q[m + 1]
    <2>1. m - (i - 1) \in 1..(Len(q) - i) /\ i + (m - (i - 1)) = m + 1
      BY <1>5
    <2> QED BY <1>2, <1>3, <2>1
  <1>6. ASSUME NEW m \in 1..(Len(q) - 1)
        PROVE  (a \o b)[m] = IF m < i THEN q[m] ELSE q[m + 1]
    <2>1. m \in 1..(Len(a) + Len(b)) /\ (m <= Len(a) <=> m < i)
      BY <1>2, <1>3
    <2>2. CASE m < i
      <3>1. (a \o b)[m] = a[m] /\ m \in 1..(i - 1)
        BY <1>4, <2>1, <2>2
      <3> QED BY <1>2, <2>2, <3>1
    <2>3. CASE ~(m < i)
      <3>1. (a \o b)[m] = b[m - Len(a)] /\ m > i - 1
        BY <1>4, <2>1, <2>3
      <3> QED BY <1>5, <2>3, <3>1
    <2> QED BY <2>2, <2>3
  <1>7. Len(a \o b) = Len(q) - 1
    BY <1>2, <1>3, <1>4
  <1> QED BY <1>1, <1>4, <1>6, <1>7

\* Without a key, what is pending are requests with other keys.
LEMMA WithoutKey ==
  ASSUME AuditInvariant, NEW key
  PROVE  /\ Audit!Without(key) \in Seq(Nat)
         /\ \A m \in 1..Len(Audit!Without(key)) : \E k \in 1..Len(pending) :
              Audit!Without(key)[m] = pending[k] /\ requests[pending[k]].key # key
         /\ \A m, l \in 1..Len(Audit!Without(key)) :
              Audit!Without(key)[m] = Audit!Without(key)[l] => m = l
  <1>1. /\ pending \in Seq(Nat) /\ \A k \in 1..Len(pending) : Only(pending[k])
        /\ \A k, l \in 1..Len(pending) : pending[k] = pending[l] => k = l
    BY DEF AuditInvariant, AuditTyped
  <1>2. CASE Audit!Matching(key) = {}
    BY <1>1, <1>2 DEF Audit!Without, Audit!Matching
  <1>3. CASE Audit!Matching(key) # {}
    <2> DEFINE n == CHOOSE k \in Audit!Matching(key) : TRUE
               q == Audit!RemoveAt(pending, n)
    <2>1. n \in 1..Len(pending) /\ requests[pending[n]].key = key
      BY <1>1, <1>3 DEF Audit!Matching
    <2>2. Audit!Without(key) = q
      BY <1>3 DEF Audit!Without
    <2> HIDE DEF n
    <2>3. /\ q \in Seq(Nat) /\ Len(q) = Len(pending) - 1
          /\ \A m \in 1..(Len(pending) - 1) : q[m] = IF m < n THEN pending[m] ELSE pending[m + 1]
      BY <1>1, <2>1, OneTakenOut
    <2> HIDE DEF q
    <2>4. \A k \in 1..Len(pending) : requests[pending[k]].key = key => k = n
      BY <1>1, <2>1 DEF Only, Sent
    <2>5. ASSUME NEW m \in 1..Len(q)
          PROVE  \E k \in 1..Len(pending) : k # n /\ q[m] = pending[k] /\ k = IF m < n THEN m ELSE m + 1
      <3>1. CASE m < n
        BY <1>1, <2>1, <2>3, <3>1
      <3>2. CASE ~(m < n)
        <4>1. m \in 1..(Len(pending) - 1) /\ q[m] = pending[m + 1]
          BY <2>3, <3>2
        <4>2. m + 1 \in 1..Len(pending) /\ m + 1 # n
          BY <1>1, <2>1, <3>2, <4>1
        <4> QED BY <3>2, <4>1, <4>2
      <3> QED BY <3>1, <3>2
    <2>6. ASSUME NEW m \in 1..Len(q), NEW l \in 1..Len(q), q[m] = q[l]
          PROVE  m = l
      <3>1. PICK k \in 1..Len(pending) : q[m] = pending[k] /\ k = IF m < n THEN m ELSE m + 1
        BY <2>5
      <3>2. PICK h \in 1..Len(pending) : q[l] = pending[h] /\ h = IF l < n THEN l ELSE l + 1
        BY <2>5
      <3>3. k = h
        BY <1>1, <2>6, <3>1, <3>2
      <3> QED BY <2>1, <2>3, <3>1, <3>2, <3>3
    <2> QED BY <2>2, <2>3, <2>4, <2>5, <2>6
  <1> QED BY <1>2, <1>3

\* The sequence s and then e, perhaps without the first.
IsRest(p, s, e) ==
  /\ p \in Seq(Nat)
  /\ \E d \in {0, 1} : \A m \in 1..Len(p) :
       m + d \in 1..(Len(s) + 1) /\ p[m] = IF m + d = Len(s) + 1 THEN e ELSE s[m + d]

LEMMA AppendedRest ==
  ASSUME NEW q \in Seq(Nat), NEW e \in Nat, NEW p, p = Append(q, e) \/ p = Tail(Append(q, e))
  PROVE  IsRest(p, q, e)
  <1> DEFINE a == Append(q, e)
  <1>1. a \in Seq(Nat) /\ Len(a) = Len(q) + 1 /\ Len(q) \in Nat
        /\ \A m \in 1..Len(a) : a[m] = IF m = Len(q) + 1 THEN e ELSE q[m]
    OBVIOUS
  <1>2. CASE p = Tail(a)
    <2> HIDE DEF a
    <2>1. p \in Seq(Nat) /\ Len(p) = Len(q) /\ \A m \in 1..Len(q) : p[m] = a[m + 1]
      BY <1>1, <1>2
    <2>2. \A m \in 1..Len(q) : m + 1 \in 1..Len(a)
      BY <1>1
    <2> QED BY <1>1, <2>1, <2>2 DEF IsRest
  <1>3. CASE p = a
    <2> HIDE DEF a
    <2>1. \A m \in 1..Len(a) : m + 0 = m
      BY <1>1
    <2> QED BY <1>1, <1>3, <2>1 DEF IsRest
  <1> QED BY <1>2, <1>3

\* What was sent stays what it is, and what is done stays done.
Longer ==
  /\ Len(requests) <= Len(requests')
  /\ \A i \in 1..Len(requests) :
       /\ requests'[i].source = requests[i].source /\ requests'[i].what = requests[i].what
       /\ requests'[i].address = requests[i].address /\ requests'[i].value = requests[i].value
       /\ requests'[i].key = requests[i].key
       /\ requests[i].state = "done" => requests'[i].state = "done"

LEMMA RowsStay ==
  ASSUME Longer, NEW row, RowFits(row)
  PROVE  RowFits(row)'
  <1>1. \A i \in 1..Len(requests) : i \in 1..Len(requests')
    BY DEF Longer
  <1>2. ASSUME NEW i, NEW source, NEW what, NEW address, Done(i, source, what, address)
        PROVE  Done(i, source, what, address)' /\ requests'[i].value = requests[i].value
               /\ i \in 1..Len(requests')
    BY <1>1, <1>2 DEF Done, Sent, Longer
  <1>3. Done(row.sequence, "local", "write", row.address)'
    BY <1>2 DEF RowFits
  <1>4. row.cloud.sequence > row.sequence =>
          (Done(row.cloud.sequence, "cloud", "write", row.address)
             /\ requests[row.cloud.sequence].value = row.cloud.value)'
    BY <1>2 DEF RowFits
  <1>5. ASSUME row.finding = "cloud"
        PROVE  \E i, j \in 1..Len(requests') :
                 /\ i > row.sequence /\ j > i
                 /\ Done(i, "cloud", "write", row.address)' /\ requests'[i].value # row.expected
                 /\ Done(j, "local", "read", row.address)'
    <2>1. PICK i \in 1..Len(requests), j \in 1..Len(requests) :
            /\ i > row.sequence /\ j > i
            /\ Done(i, "cloud", "write", row.address) /\ requests[i].value # row.expected
            /\ Done(j, "local", "read", row.address)
      BY <1>5 DEF RowFits
    <2> QED BY <1>1, <1>2, <2>1
  <1> QED BY <1>3, <1>4, <1>5 DEF RowFits

\* A request is sent: what is pending are requests of before with other keys, and this one
\* if its key is known to be new.
LEMMA RequestSent ==
  ASSUME AuditInvariant, NEW source \in {"local", "cloud"}, NEW what \in {"read", "write"},
         NEW a \in Registers, NEW v \in Values \cup {Unknown}, NEW number \in Nat \cup CloudNumbers,
         requests' = Append(requests, Audit!Request(source, what, a, v, number)),
         cloud_requests \subseteq cloud_requests', Full => Full',
         what = "read" => source = "local",
         \/ source = "local" /\ number = Len(requests) + 1
         \/ source = "cloud" /\ number \in CloudNumbers /\ (number \in cloud_requests' \/ Full'),
         \/ pending' = Audit!Without(<<source, number>>)
         \/ /\ \A i \in 1..Len(requests) : requests[i].key # <<source, number>>
            /\ Audit!Expect(<<source, number>>),
         UNCHANGED <<replies, registers>>
  PROVE  AuditInvariant'
  <1> DEFINE key == <<source, number>>
             r == Audit!Request(source, what, a, v, number)
  <1>0. PICK n \in Nat : n = Len(requests) + 1
    BY DEF AuditInvariant, AuditTyped
  <1>1. r \in AuditRequests /\ r.key = key /\ r.source = source /\ r.what = what
    BY DEF Audit!Request, AuditRequests
  <1> HIDE DEF r
  <1>2. /\ Len(requests) \in Nat /\ Len(requests') = n /\ requests'[n] = r
        /\ \A i \in 1..Len(requests) : requests'[i] = requests[i]
        /\ requests' \in Seq(AuditRequests)
    BY <1>0, <1>1 DEF AuditInvariant, AuditTyped, r
  <1>3. Longer
    BY <1>2 DEF Longer
  <1>4. ASSUME NEW i \in 1..Len(requests')
        PROVE  KeyIs(i)' /\ (requests'[i].what = "read" => requests'[i].source = "local")
    <2>1. CASE i = n
      BY <1>0, <1>1, <1>2, <2>1 DEF KeyIs
    <2>2. CASE i # n
      <3>1. i \in 1..Len(requests) /\ requests'[i] = requests[i]
        BY <1>2, <2>2
      <3>2. KeyIs(i) /\ (requests[i].what = "read" => requests[i].source = "local")
        BY <3>1 DEF AuditInvariant
      <3> QED BY <3>1, <3>2 DEF KeyIs
    <2> QED BY <2>1, <2>2
  <1>5. PICK q \in Seq(Nat) :
          /\ q = Audit!Without(key)
          /\ \A m \in 1..Len(q) : \E k \in 1..Len(pending) :
               q[m] = pending[k] /\ requests[pending[k]].key # key
          /\ \A m, l \in 1..Len(q) : q[m] = q[l] => m = l
    BY WithoutKey
  <1>6. ASSUME NEW m \in 1..Len(q)
        PROVE  Only(q[m])' /\ q[m] # n /\ q[m] \in 1..Len(requests)
    <2>1. Only(q[m]) /\ requests[q[m]].key # key
      BY <1>5 DEF AuditInvariant
    <2>2. q[m] \in 1..Len(requests) /\ \A j \in 1..Len(requests) :
            requests[j].key = requests[q[m]].key => j = q[m]
      BY <2>1 DEF Only, Sent
    <2>3. \A j \in 1..Len(requests') : requests'[j].key = requests'[q[m]].key => j = q[m]
      <3>1. ASSUME NEW j \in 1..Len(requests'), requests'[j].key = requests'[q[m]].key
            PROVE  j = q[m]
        <4>1. requests'[q[m]] = requests[q[m]]
          BY <1>2, <2>2
        <4>2. CASE j = n
          BY <1>1, <1>2, <2>1, <3>1, <4>1, <4>2
        <4>3. CASE j # n
          <5>1. j \in 1..Len(requests) /\ requests'[j] = requests[j]
            BY <1>2, <4>3
          <5> QED BY <2>2, <3>1, <4>1, <5>1
        <4> QED BY <4>2, <4>3
      <3> QED BY <3>1
    <2> QED BY <1>2, <2>2, <2>3 DEF Only, Sent
  <1>7. /\ pending' \in Seq(Nat) /\ \A k \in 1..Len(pending') : Only(pending[k])'
        /\ \A k, l \in 1..Len(pending') : pending'[k] = pending'[l] => k = l
    <2>1. CASE pending' = Audit!Without(key)
      BY <1>5, <1>6, <2>1
    <2>2. CASE /\ \A i \in 1..Len(requests) : requests[i].key # key
               /\ Audit!Expect(key)
      <3>1. pending' = Append(q, n) \/ pending' = Tail(Append(q, n))
        BY <1>0, <1>5, <2>2 DEF Audit!Expect, Audit!Bounded
      <3>2. /\ pending' \in Seq(Nat)
            /\ \E d \in {0, 1} : \A m \in 1..Len(pending') :
                 m + d \in 1..(Len(q) + 1) /\ pending'[m] = IF m + d = Len(q) + 1 THEN n ELSE q[m + d]
        <4>1. IsRest(pending', q, n)
          BY <1>0, <1>5, <3>1, AppendedRest
        <4> QED BY <4>1 DEF IsRest
      <3>3. PICK d \in {0, 1} : \A m \in 1..Len(pending') :
                 m + d \in 1..(Len(q) + 1) /\ pending'[m] = IF m + d = Len(q) + 1 THEN n ELSE q[m + d]
        BY <3>2
      <3>4. Only(n)'
        <4>1. \A j \in 1..Len(requests') : requests'[j].key = requests'[n].key => j = n
          <5>1. ASSUME NEW j \in 1..Len(requests'), j # n
                PROVE  requests'[j].key # key
            <6>1. j \in 1..Len(requests) /\ requests'[j] = requests[j]
              BY <1>2, <5>1
            <6> QED BY <2>2, <6>1
          <5> HIDE DEF key
          <5> QED BY <1>0, <1>1, <1>2, <5>1
        <4> QED BY <1>2, <4>1 DEF Only, Sent
      <3>5. ASSUME NEW k \in 1..Len(pending')
            PROVE  /\ Only(pending[k])'
                   /\ \/ k + d = Len(q) + 1 /\ pending'[k] = n
                      \/ k + d \in 1..Len(q) /\ pending'[k] = q[k + d] /\ pending'[k] # n
        <4>1. CASE k + d = Len(q) + 1
          BY <3>3, <3>4, <4>1
        <4>2. CASE k + d # Len(q) + 1
          <5>1. k + d \in 1..Len(q) /\ pending'[k] = q[k + d]
            BY <3>3, <4>2
          <5> QED BY <1>6, <5>1
        <4> QED BY <4>1, <4>2
      <3>6. ASSUME NEW k \in 1..Len(pending'), NEW l \in 1..Len(pending'), pending'[k] = pending'[l]
            PROVE  k = l
        <4>1. k + d = l + d
          <5>1. CASE k + d = Len(q) + 1
            BY <1>5, <3>3, <3>5, <3>6, <5>1
          <5>2. CASE k + d # Len(q) + 1
            <6>1. k + d \in 1..Len(q) /\ pending'[k] = q[k + d] /\ pending'[k] # n
              BY <1>5, <3>3, <3>5, <5>2
            <6>2. l + d \in 1..Len(q) /\ pending'[l] = q[l + d]
              BY <3>5, <3>6, <6>1
            <6> QED BY <1>5, <3>6, <6>1, <6>2
          <5> QED BY <5>1, <5>2
        <4> QED BY <4>1
      <3> QED BY <3>2, <3>5, <3>6
    <2> QED BY <2>1, <2>2
  <1>8. \A s \in replies' : Sent(s.to)' /\ (s.accepted => requests'[s.to].state = "done")
    BY <1>2 DEF AuditInvariant, Sent
  <1>9. \A k \in 1..Len(registers') : RowFits(registers[k])'
    <2>1. SUFFICES ASSUME NEW k \in 1..Len(registers)
                   PROVE  RowFits(registers[k])'
      OBVIOUS
    <2>2. PICK row : row = registers[k] /\ registers'[k] = row
      OBVIOUS
    <2>3. RowFits(row)
      BY <2>2 DEF AuditInvariant
    <2>4. RowFits(row)'
      BY <1>3, <2>3, RowsStay
    <2> QED BY <2>2, <2>4, SMTT(60) DEF RowFits, Done, Sent
  <1>10. AuditTyped'
    BY <1>2, <1>7 DEF AuditTyped, AuditInvariant
  <1> QED BY <1>4, <1>7, <1>8, <1>9, <1>10 DEF AuditInvariant

LEMMA WriteOrReadSent ==
  ASSUME AuditInvariant, NEW what \in {"read", "write"}, NEW a \in Registers,
         NEW v \in Values \cup {Unknown}, Audit!SentLocal(what, a, v)
  PROVE  AuditInvariant'
  <1>1. /\ requests' = Append(requests, Audit!Request("local", what, a, v, Len(requests) + 1))
        /\ Audit!Expect(<<"local", Len(requests) + 1>>)
        /\ UNCHANGED <<cloud_requests, replies, registers>>
    BY DEF Audit!SentLocal, Audit!Enter
  <1>2. PICK n \in Nat : n = Len(requests) + 1
    BY DEF AuditInvariant, AuditTyped
  <1>3. PICK source \in {"local", "cloud"} : source = "local"
    OBVIOUS
  <1>4. ASSUME NEW i \in 1..Len(requests)
        PROVE  requests[i].key # <<source, n>>
    <2>1. KeyIs(i) /\ i # n
      BY <1>2 DEF AuditInvariant
    <2> QED BY <1>3, <2>1 DEF KeyIs
  <1>5. Full => Full'
    BY <1>1 DEF Full
  <1> QED BY <1>1, <1>2, <1>3, <1>4, <1>5, RequestSent

LEMMA CloudWriteSent ==
  ASSUME AuditInvariant, NEW a \in Registers, NEW v \in Values, NEW n \in CloudNumbers,
         Audit!SentByCloud(a, v, n)
  PROVE  AuditInvariant'
  <1>1. /\ requests' = Append(requests, Audit!Request("cloud", "write", a, v, n))
        /\ UNCHANGED <<replies, registers>>
        /\ \/ /\ n \in cloud_requests \/ Full
              /\ pending' = Audit!Without(<<"cloud", n>>) /\ UNCHANGED cloud_requests
           \/ /\ n \notin cloud_requests /\ ~Full
              /\ Audit!Expect(<<"cloud", n>>) /\ cloud_requests' = cloud_requests \cup {n}
    <2>1. Audit!Ambiguous(n) <=> n \in cloud_requests \/ Full
      BY DEF Audit!Ambiguous, Full
    <2>2. /\ requests' = Append(requests, Audit!Request("cloud", "write", a, v, n))
          /\ UNCHANGED <<replies, registers>>
      BY DEF Audit!SentByCloud, Audit!Enter
    <2>3. IF Audit!Ambiguous(n)
            THEN pending' = Audit!Without(<<"cloud", n>>) /\ UNCHANGED cloud_requests
            ELSE Audit!Expect(<<"cloud", n>>) /\ cloud_requests' = cloud_requests \cup {n}
      BY DEF Audit!SentByCloud
    <2> QED BY <2>1, <2>2, <2>3
  <1>2. PICK source \in {"local", "cloud"}, what \in {"read", "write"}, w \in Values \cup {Unknown},
             number \in Nat \cup CloudNumbers :
          source = "cloud" /\ what = "write" /\ w = v /\ number = n
    OBVIOUS
  <1>3. CASE /\ n \in cloud_requests \/ Full
             /\ pending' = Audit!Without(<<"cloud", n>>) /\ UNCHANGED cloud_requests
    <2>1. (Full => Full') /\ (n \in cloud_requests' \/ Full')
      BY <1>3 DEF Full
    <2> QED BY <1>1, <1>2, <1>3, <2>1, RequestSent
  <1>4. CASE /\ n \notin cloud_requests /\ ~Full
             /\ Audit!Expect(<<"cloud", n>>) /\ cloud_requests' = cloud_requests \cup {n}
    <2>1. ASSUME NEW i \in 1..Len(requests)
          PROVE  requests[i].key # <<source, number>>
      <3>1. KeyIs(i)
        BY DEF AuditInvariant
      <3> QED BY <1>2, <1>4, <3>1 DEF KeyIs
    <2> QED BY <1>1, <1>2, <1>4, <2>1, RequestSent
  <1> QED BY <1>1, <1>3, <1>4

LEMMA RequestExecuted ==
  ASSUME AuditInvariant, NEW i \in DOMAIN requests, NEW answer, Audit!Execute(i, answer)
  PROVE  AuditInvariant'
  <1> DEFINE done == answer # "refused"
             r == [requests[i] EXCEPT !.state = IF done THEN "done" ELSE "refused"]
  <1>1. /\ requests[i].state = "sent" /\ requests' = [requests EXCEPT ![i] = r]
        /\ \E body : replies' = replies \cup {[to |-> i, accepted |-> done, body |-> body]}
        /\ UNCHANGED <<pending, registers, cloud_requests>>
    BY DEF Audit!Execute
  <1>2. requests \in Seq(AuditRequests) /\ i \in 1..Len(requests) /\ requests[i] \in AuditRequests
    BY DEF AuditInvariant, AuditTyped
  <1>3. /\ r \in AuditRequests /\ r.source = requests[i].source /\ r.what = requests[i].what
        /\ r.address = requests[i].address /\ r.value = requests[i].value
        /\ r.key = requests[i].key /\ r.state = IF done THEN "done" ELSE "refused"
    BY <1>2 DEF AuditRequests
  <1> HIDE DEF r
  <1>4. /\ requests' \in Seq(AuditRequests) /\ Len(requests') = Len(requests) /\ Len(requests) \in Nat
        /\ \A j \in 1..Len(requests) : requests'[j] = IF j = i THEN r ELSE requests[j]
    BY <1>1, <1>2, <1>3
  <1>5. Longer
    BY <1>1, <1>3, <1>4 DEF Longer
  <1>6. AuditTyped'
    BY <1>1, <1>4 DEF AuditTyped, AuditInvariant
  <1>7. ASSUME NEW j \in 1..Len(requests')
        PROVE  KeyIs(j)' /\ (requests'[j].what = "read" => requests'[j].source = "local")
    <2>1. KeyIs(j) /\ (requests[j].what = "read" => requests[j].source = "local")
      BY <1>4 DEF AuditInvariant
    <2> QED BY <1>1, <1>4, <1>5, <2>1 DEF KeyIs, Full, Longer
  <1>8. \A k \in 1..Len(pending') : Only(pending[k])'
    <2>1. SUFFICES ASSUME NEW k \in 1..Len(pending)
                   PROVE  Only(pending[k])'
      BY <1>1
    <2>2. Only(pending[k])
      BY DEF AuditInvariant
    <2> QED BY <1>1, <1>4, <1>5, <2>2 DEF Only, Sent, Longer
  <1>9. \A s \in replies' : Sent(s.to)' /\ (s.accepted => requests'[s.to].state = "done")
    <2>1. PICK body : replies' = replies \cup {[to |-> i, accepted |-> done, body |-> body]}
      BY <1>1
    <2>2. \A s \in replies : Sent(s.to)' /\ (s.accepted => requests'[s.to].state = "done")
      BY <1>4, <1>5 DEF AuditInvariant, Sent, Longer
    <2>3. Sent(i)' /\ (done => requests'[i].state = "done")
      BY <1>2, <1>3, <1>4 DEF Sent
    <2>4. ASSUME NEW s \in replies'
          PROVE  Sent(s.to)' /\ (s.accepted => requests'[s.to].state = "done")
      <3>1. CASE s \in replies
        BY <2>2, <3>1
      <3>2. CASE s = [to |-> i, accepted |-> done, body |-> body]
        BY <2>3, <3>2
      <3> QED BY <2>1, <3>1, <3>2
    <2> QED BY <2>4
  <1>10. \A k \in 1..Len(registers') : RowFits(registers[k])'
    <2>1. SUFFICES ASSUME NEW k \in 1..Len(registers)
                   PROVE  RowFits(registers[k])'
      BY <1>1
    <2>2. PICK row : row = registers[k]
      OBVIOUS
    <2>3. RowFits(row)'
      BY <1>5, <2>2, RowsStay DEF AuditInvariant
    <2> QED BY <1>1, <2>2, <2>3 DEF RowFits, Done, Sent
  <1> QED BY <1>1, <1>6, <1>7, <1>8, <1>9, <1>10 DEF AuditInvariant

RowsHold(s) == s \in Seq(AuditRows) /\ \A k \in 1..Len(s) : RowFits(s[k])

LEMMA RowReplaced ==
  ASSUME NEW s, RowsHold(s), NEW n \in 1..Len(s), NEW row \in AuditRows, RowFits(row)
  PROVE  RowsHold([s EXCEPT ![n] = row])
  <1>1. s \in Seq(AuditRows)
    BY DEF RowsHold
  <1>2. /\ [s EXCEPT ![n] = row] \in Seq(AuditRows) /\ Len([s EXCEPT ![n] = row]) = Len(s)
        /\ \A k \in 1..Len(s) : [s EXCEPT ![n] = row][k] = IF k = n THEN row ELSE s[k]
    BY <1>1
  <1> QED BY <1>2 DEF RowsHold

LEMMA RowAdded ==
  ASSUME NEW s, RowsHold(s), NEW row \in AuditRows, RowFits(row)
  PROVE  RowsHold(Audit!Bounded(Append(s, row), MaxRegisters))
  <1> DEFINE a == Append(s, row)
  <1>1. s \in Seq(AuditRows)
    BY DEF RowsHold
  <1>2. /\ a \in Seq(AuditRows) /\ Len(a) = Len(s) + 1 /\ Len(s) \in Nat
        /\ \A k \in 1..Len(a) : a[k] = IF k = Len(s) + 1 THEN row ELSE s[k]
    BY <1>1
  <1> HIDE DEF a
  <1>3. ASSUME NEW k \in 1..Len(a)
        PROVE  RowFits(a[k])
    <2>1. CASE k = Len(s) + 1
      BY <1>2, <2>1
    <2>2. CASE k # Len(s) + 1
      <3>1. k \in 1..Len(s) /\ a[k] = s[k]
        BY <1>2, <2>2
      <3> QED BY <3>1 DEF RowsHold
    <2> QED BY <2>1, <2>2
  <1>4. Tail(a) \in Seq(AuditRows) /\ Len(Tail(a)) = Len(s)
        /\ \A k \in 1..Len(s) : k + 1 \in 1..Len(a) /\ Tail(a)[k] = a[k + 1]
    BY <1>2
  <1>5. RowsHold(a) /\ RowsHold(Tail(a))
    BY <1>2, <1>3, <1>4 DEF RowsHold
  <1> QED BY <1>5 DEF Audit!Bounded, a

LEMMA RowHasAddress ==
  ASSUME AuditInvariant, NEW a, Audit!HasRow(a)
  PROVE  /\ Audit!Row(a) \in 1..Len(registers) /\ registers[Audit!Row(a)].address = a
         /\ registers[Audit!Row(a)] \in AuditRows /\ RowFits(registers[Audit!Row(a)])
  <1>1. registers \in Seq(AuditRows) /\ DOMAIN registers = 1..Len(registers)
    BY DEF AuditInvariant, AuditTyped
  <1>2. Audit!Row(a) \in 1..Len(registers) /\ registers[Audit!Row(a)].address = a
    BY <1>1 DEF Audit!HasRow, Audit!Row
  <1> QED BY <1>1, <1>2 DEF AuditInvariant

\* A reading that is heard.
LEMMA ReadingHeard ==
  ASSUME AuditInvariant, NEW i, NEW value,
         Done(i, "local", "read", requests[i].address), Audit!ReadHeard(i, value)
  PROVE  RowsHold(registers')
  <1>1. RowsHold(registers) /\ i \in 1..Len(requests) /\ i \in Nat
    BY DEF AuditInvariant, AuditTyped, RowsHold, Done, Sent
  <1>2. CASE registers' = registers
    BY <1>1, <1>2 DEF RowsHold
  <1>3. CASE registers' # registers
    <2>1. Audit!HasRow(requests[i].address)
      BY <1>3 DEF Audit!ReadHeard
    <2>2. PICK n \in 1..Len(registers) :
            /\ n = Audit!Row(requests[i].address) /\ registers[n].address = requests[i].address
            /\ registers[n] \in AuditRows /\ RowFits(registers[n])
      BY <2>1, RowHasAddress
    <2>3. PICK row \in AuditRows : row = registers[n]
      BY <2>2
    <2> DEFINE f == Audit!Finding(row, i, value)
               new == [row EXCEPT !.finding = f]
    <2>4. registers' = [registers EXCEPT ![n] = new]
      BY <1>3, <2>2, <2>3 DEF Audit!ReadHeard
    <2>5. /\ f \in {"matches", "cloud", "unconfirmed"}
          /\ f = "cloud" => /\ value # row.expected /\ row.cloud.sequence > row.sequence
                            /\ i > row.cloud.sequence /\ value = row.cloud.value
      BY DEF Audit!Finding, Audit!Explained
    <2> HIDE DEF f
    <2>6. /\ new \in AuditRows /\ new.sequence = row.sequence /\ new.cloud = row.cloud
          /\ new.address = row.address /\ new.expected = row.expected /\ new.finding = f
      BY <2>5 DEF AuditRows
    <2> HIDE DEF new
    <2>7. RowFits(row) /\ row.address = requests[i].address
      BY <2>2, <2>3
    <2>8. ASSUME f = "cloud"
          PROVE  \E c, j \in 1..Len(requests) :
                   /\ c > row.sequence /\ j > c
                   /\ Done(c, "cloud", "write", row.address) /\ requests[c].value # row.expected
                   /\ Done(j, "local", "read", row.address)
      <3>1. /\ row.cloud.sequence > row.sequence /\ i > row.cloud.sequence
            /\ row.cloud.value # row.expected
        BY <2>5, <2>8
      <3>2. Done(row.cloud.sequence, "cloud", "write", row.address)
            /\ requests[row.cloud.sequence].value = row.cloud.value
        BY <2>7, <3>1 DEF RowFits
      <3>3. row.cloud.sequence \in 1..Len(requests)
        BY <3>2 DEF Done, Sent
      <3> QED BY <1>1, <2>7, <3>1, <3>2, <3>3
    <2>9. RowFits(new)
      BY <2>6, <2>7, <2>8 DEF RowFits
    <2> QED BY <1>1, <2>4, <2>6, <2>9, RowReplaced
  <1> QED BY <1>2, <1>3

\* The inverter acknowledged a local write: what was known of its register is forgotten.
LEMMA LocalAcknowledged ==
  ASSUME AuditInvariant, NEW i, Done(i, "local", "write", requests[i].address),
         Audit!LocalWriteHeard(i)
  PROVE  RowsHold(registers')
  <1> DEFINE row == [address |-> requests[i].address, expected |-> requests[i].value,
                     sequence |-> i, cloud |-> Audit!NoCloud, finding |-> "none"]
  <1>1. RowsHold(registers) /\ i \in 1..Len(requests) /\ i \in Nat
    BY DEF AuditInvariant, AuditTyped, RowsHold, Done, Sent
  <1>2. requests[i].address \in Registers /\ requests[i].value \in Values \cup {Unknown}
    BY <1>1, RequestsAreTyped
  <1>3. row \in AuditRows
    BY <1>1, <1>2 DEF AuditRows, Audit!NoCloud
  <1>4. RowFits(row)
    BY <1>1 DEF RowFits, Audit!NoCloud
  <1>5. registers' = IF Audit!HasRow(requests[i].address)
                       THEN [registers EXCEPT ![Audit!Row(requests[i].address)] = row]
                       ELSE Audit!Bounded(Append(registers, row), MaxRegisters)
    BY DEF Audit!LocalWriteHeard
  <1> HIDE DEF row
  <1>6. CASE Audit!HasRow(requests[i].address)
    <2>1. PICK n \in 1..Len(registers) : n = Audit!Row(requests[i].address)
      BY <1>6, RowHasAddress
    <2>2. registers' = [registers EXCEPT ![n] = row]
      BY <1>5, <1>6, <2>1
    <2> QED BY <1>1, <1>3, <1>4, <2>2, RowReplaced
  <1>7. CASE ~Audit!HasRow(requests[i].address)
    BY <1>1, <1>3, <1>4, <1>5, <1>7, RowAdded
  <1> QED BY <1>6, <1>7

\* The inverter acknowledged a write of the cloud.
LEMMA CloudAcknowledged ==
  ASSUME AuditInvariant, NEW i, Done(i, "cloud", "write", requests[i].address),
         Audit!CloudWriteHeard(i)
  PROVE  RowsHold(registers')
  <1>1. RowsHold(registers) /\ i \in 1..Len(requests) /\ i \in Nat
    BY DEF AuditInvariant, AuditTyped, RowsHold, Done, Sent
  <1>2. CASE registers' = registers
    BY <1>1, <1>2 DEF RowsHold
  <1>3. CASE registers' # registers
    <2>1. Audit!HasRow(requests[i].address)
      BY <1>3 DEF Audit!CloudWriteHeard
    <2>2. PICK n \in 1..Len(registers) :
            /\ n = Audit!Row(requests[i].address) /\ registers[n].address = requests[i].address
            /\ registers[n] \in AuditRows /\ RowFits(registers[n])
      BY <2>1, RowHasAddress
    <2>3. PICK row \in AuditRows : row = registers[n]
      BY <2>2
    <2> DEFINE new == [row EXCEPT !.cloud = [sequence |-> i, value |-> requests[i].value]]
    <2>4. registers' = [registers EXCEPT ![n] = new]
      BY <1>3, <2>2, <2>3 DEF Audit!CloudWriteHeard
    <2>5. requests[i].value \in Values \cup {Unknown}
      BY <1>1, RequestsAreTyped
    <2>6. /\ new \in AuditRows /\ new.sequence = row.sequence /\ new.finding = row.finding
          /\ new.address = row.address /\ new.expected = row.expected
          /\ new.cloud.sequence = i /\ new.cloud.value = requests[i].value
      BY <1>1, <2>5 DEF AuditRows
    <2> HIDE DEF new
    <2>7. RowFits(row) /\ row.address = requests[i].address
      BY <2>2, <2>3
    <2>8. RowFits(new)
      BY <2>6, <2>7 DEF RowFits
    <2> QED BY <1>1, <2>4, <2>6, <2>8, RowReplaced
  <1> QED BY <1>2, <1>3

LEMMA ReplyHeard ==
  ASSUME AuditInvariant, NEW r \in replies, NEW late \in BOOLEAN, Audit!Reply(r, late)
  PROVE  AuditInvariant'
  <1>1. PICK key : key = requests[r.to].key
    OBVIOUS
  <1>2. /\ replies' = replies \ {r} /\ pending' = Audit!Without(key)
        /\ UNCHANGED <<requests, cloud_requests>>
    BY <1>1 DEF Audit!Reply
  <1>3. /\ pending' \in Seq(Nat) /\ \A k \in 1..Len(pending') : Only(pending[k])'
        /\ \A k, l \in 1..Len(pending') : pending'[k] = pending'[l] => k = l
    <2> DEFINE q == Audit!Without(key)
    <2>0. /\ q \in Seq(Nat)
          /\ \A m \in 1..Len(q) : \E k \in 1..Len(pending) :
               q[m] = pending[k] /\ requests[pending[k]].key # key
          /\ \A m, l \in 1..Len(q) : q[m] = q[l] => m = l
      BY WithoutKey, Zenon
    <2> HIDE DEF q
    <2>1. /\ q \in Seq(Nat)
          /\ \A m \in 1..Len(q) : \E k \in 1..Len(pending) : q[m] = pending[k]
          /\ \A m, l \in 1..Len(q) : q[m] = q[l] => m = l
      BY <2>0
    <2>2. \A m \in 1..Len(q) : Only(q[m])
      BY <2>1 DEF AuditInvariant
    <2>3. pending' = q
      BY <1>2 DEF q
    <2> QED BY <1>2, <2>1, <2>2, <2>3 DEF Only, Sent
  <1>4. RowsHold(registers')
    <2>1. CASE registers' = registers
      BY <2>1 DEF AuditInvariant, AuditTyped, RowsHold
    <2>2. CASE registers' # registers
      <3>1. Audit!Matching(key) # {}
        BY <1>1, <2>2 DEF Audit!Reply
      <3>2. PICK n \in Audit!Matching(key) : n = CHOOSE k \in Audit!Matching(key) : TRUE
        BY <3>1
      <3>3. PICK i : i = pending[n]
        OBVIOUS
      <3>4. i \in 1..Len(requests) /\ requests[i].key = key /\ Only(i)
        <4>1. n \in 1..Len(pending) /\ requests[pending[n]].key = key
          BY <3>2 DEF Audit!Matching, AuditInvariant, AuditTyped
        <4>2. Only(pending[n])
          BY <4>1 DEF AuditInvariant
        <4> QED BY <3>3, <4>1, <4>2 DEF Only, Sent
      <3>5. r.to = i /\ (r.accepted => requests[i].state = "done")
        BY <1>1, <3>4 DEF AuditInvariant, Only, Sent
      <3>6. \/ requests[i].what = "read" /\ r.accepted /\ Audit!ReadHeard(i, r.body)
            \/ /\ requests[i].what = "write" /\ r.accepted
               /\ IF requests[i].source = "local" THEN Audit!LocalWriteHeard(i)
                                                  ELSE Audit!CloudWriteHeard(i)
        BY <1>1, <2>2, <3>1, <3>2, <3>3, Zenon DEF Audit!Reply, Audit!Acknowledges
      <3>7. /\ requests[i].source \in {"local", "cloud"}
            /\ requests[i].what = "read" => requests[i].source = "local"
        BY <3>4, RequestsAreTyped DEF AuditInvariant
      <3>8. Done(i, requests[i].source, requests[i].what, requests[i].address)
        BY <3>4, <3>5, <3>6 DEF Done, Sent
      <3> QED BY <3>6, <3>7, <3>8, ReadingHeard, LocalAcknowledged, CloudAcknowledged
    <2> QED BY <2>1, <2>2
  <1>5. AuditTyped'
    BY <1>2, <1>3, <1>4 DEF AuditTyped, AuditInvariant, RowsHold
  <1>6. \A i \in 1..Len(requests') :
          KeyIs(i)' /\ (requests'[i].what = "read" => requests'[i].source = "local")
    BY <1>2 DEF AuditInvariant, KeyIs, Full
  <1>7. \A s \in replies' : Sent(s.to)' /\ (s.accepted => requests'[s.to].state = "done")
    BY <1>2 DEF AuditInvariant, Sent
  <1>8. \A k \in 1..Len(registers') : RowFits(registers[k])'
    BY <1>2, <1>4 DEF RowsHold, RowFits, Done, Sent
  <1> QED BY <1>3, <1>5, <1>6, <1>7, <1>8 DEF AuditInvariant

LEMMA AuditKeeps ==
  ASSUME AuditInvariant, [Audit!Next]_Audit!vars
  PROVE  AuditInvariant'
  <1>1. CASE UNCHANGED Audit!vars
    <2>1. UNCHANGED <<requests, pending, registers, replies, cloud_requests>>
      BY <1>1 DEF Audit!vars
    <2>2. AuditTyped'
      BY <2>1 DEF AuditInvariant, AuditTyped
    <2>3. \A i \in 1..Len(requests') :
            KeyIs(i)' /\ (requests'[i].what = "read" => requests'[i].source = "local")
      BY <2>1 DEF AuditInvariant, KeyIs, Full
    <2>4. \A k \in 1..Len(pending') : Only(pending[k])'
      BY <2>1 DEF AuditInvariant, Only, Sent
    <2>5. \A r \in replies' : Sent(r.to)' /\ (r.accepted => requests'[r.to].state = "done")
      BY <2>1 DEF AuditInvariant, Sent
    <2>6. \A k \in 1..Len(registers') : RowFits(registers[k])'
      <3>1. SUFFICES ASSUME NEW k \in 1..Len(registers)
                     PROVE  RowFits(registers[k])'
        BY <2>1
      <3>2. RowFits(registers[k])
        BY DEF AuditInvariant
      <3> QED BY <2>1, <3>2 DEF RowFits, Done, Sent
    <2>7. \A k, l \in 1..Len(pending') : pending'[k] = pending'[l] => k = l
      BY <2>1 DEF AuditInvariant
    <2> QED BY <2>2, <2>3, <2>4, <2>5, <2>6, <2>7 DEF AuditInvariant
  <1>2. ASSUME NEW a \in Registers, NEW v \in Values, Audit!SentLocal("write", a, v)
        PROVE  AuditInvariant'
    <2>1. PICK what \in {"read", "write"}, w \in Values \cup {Unknown} : what = "write" /\ w = v
      OBVIOUS
    <2> QED BY <1>2, <2>1, WriteOrReadSent
  <1>3. ASSUME NEW a \in Registers, NEW v \in Values, NEW n \in CloudNumbers,
               Audit!SentByCloud(a, v, n)
        PROVE  AuditInvariant'
    BY <1>3, CloudWriteSent
  <1>4. ASSUME NEW a \in Registers, Audit!SentLocal("read", a, Unknown)
        PROVE  AuditInvariant'
    <2>1. PICK what \in {"read", "write"}, w \in Values \cup {Unknown} : what = "read" /\ w = Unknown
      OBVIOUS
    <2> QED BY <1>4, <2>1, WriteOrReadSent
  <1>5. ASSUME NEW i \in DOMAIN requests, NEW answer, Audit!Execute(i, answer)
        PROVE  AuditInvariant'
    BY <1>5, RequestExecuted
  <1>6. ASSUME NEW r \in replies, NEW late \in BOOLEAN, Audit!Reply(r, late)
        PROVE  AuditInvariant'
    BY <1>6, ReplyHeard
  <1> QED BY <1>1, <1>2, <1>3, <1>4, <1>5, <1>6 DEF Audit!Next

(* The cloud is named only with proof, whatever the registers, values and  *)
(* transaction numbers and however many requests the tables hold: the      *)
(* reply that is heard is that of the request compared with, since the     *)
(* audit gives up a number used twice (write_audit.py:41-46, 68-78).       *)
THEOREM CloudIsProved == Audit!Spec => []Audit!CloudIsNamedWithProof
  <1>1. ASSUME AuditInvariant, Audit!Status = "cloud"
        PROVE  \E k \in DOMAIN registers :
                 LET row == registers[k]
                 IN /\ row.finding = "cloud"
                    /\ requests[row.sequence].source = "local" /\ requests[row.sequence].state = "done"
                    /\ \E i \in (row.sequence + 1)..Len(requests), j \in 1..Len(requests) :
                         /\ requests[i].source = "cloud" /\ requests[i].state = "done"
                         /\ requests[i].address = row.address /\ requests[i].value # row.expected
                         /\ j > i /\ requests[j].what = "read" /\ requests[j].state = "done"
                         /\ requests[j].address = row.address
    <2>1. "cloud" \in Audit!Findings
      BY <1>1 DEF Audit!Status
    <2>2. PICK k \in DOMAIN registers : registers[k].finding = "cloud"
      BY <2>1 DEF Audit!Findings
    <2>3. k \in 1..Len(registers) /\ registers[k] \in AuditRows
      BY <1>1 DEF AuditInvariant, AuditTyped
    <2>4. RowFits(registers[k]) /\ registers[k].sequence \in Nat
      BY <1>1, <2>3 DEF AuditInvariant, AuditRows
    <2>5. PICK i \in 1..Len(requests), j \in 1..Len(requests) :
            /\ i > registers[k].sequence /\ j > i
            /\ Done(i, "cloud", "write", registers[k].address)
            /\ requests[i].value # registers[k].expected
            /\ Done(j, "local", "read", registers[k].address)
      BY <2>2, <2>4 DEF RowFits
    <2>6. i \in (registers[k].sequence + 1)..Len(requests)
      BY <2>4, <2>5
    <2> QED BY <2>2, <2>4, <2>5, <2>6 DEF RowFits, Done
  <1>2. AuditInvariant => Audit!CloudIsNamedWithProof
    BY <1>1 DEF Audit!CloudIsNamedWithProof
  <1>3. AuditInvariant /\ [Audit!Next]_Audit!vars => AuditInvariant'
    BY AuditKeeps
  <1> QED BY <1>2, <1>3, AuditStarts, PTL DEF Audit!Spec

-----------------------------------------------------------------------------
(* Passive capture.                                                        *)

\* Sequence numbers tell positions within half their range apart, which is more than a window
\* and a segment. Every size a header may announce is that of the header at least. Frames
\* follow one another.
CaptureNames ==
  /\ Modulus \in Nat \ {0} /\ Initial \in Nat /\ Length \in Nat /\ HeaderSize \in Nat \ {0}
  /\ Reach \in Nat \ {0} /\ Reach <= Modulus \div 2 /\ MaxSegment \in Nat /\ MaxSegment <= Modulus \div 2
  /\ \A p \in 0..(Length - 1) : Size[p] \in Nat /\ (Size[p] = 0 \/ Size[p] >= HeaderSize)
  /\ Starts \subseteq 0..(Length - 1)
  /\ \A s \in Starts : Size[s] # 0 /\ (s + Size[s] \in Starts \/ s + Size[s] >= Length)
  /\ \A s, t \in Starts : s < t => s + Size[s] <= t

\* The bytes from a position on, kept under its number.
Held(q, bytes, low, high) ==
  \E a, b \in 0..Length :
    /\ q = Capture!NumberOf(a) /\ bytes = Capture!Bytes(a, b)
    /\ low < a /\ a < high /\ a < b /\ b - a <= MaxSegment
Waits(w, low, high) == IsFiniteSet(DOMAIN w) /\ \A q \in DOMAIN w : Held(q, w[q], low, high)

\* All frames between two positions, in order.
Whole(wires, o, p) ==
  /\ wires \in Seq(Seq(Nat))
  /\ {wires[k] : k \in 1..Len(wires)} = Capture!Between(o, p)
  /\ \A j, k \in 1..Len(wires) : j < k => wires[j][1] < wires[k][1]

\* What the parser keeps behind position p begins at some s, and is not a frame yet.
Parsed(o, p, kept, wires) ==
  \E s \in 0..p :
    /\ o <= s /\ kept = Capture!Bytes(s, p)
    /\ s < p => p - s < HeaderSize \/ p - s < Size[s]
    /\ o \in Starts => (s \in Starts \/ s = Length) /\ Whole(wires, o, s)

CaptureInvariant ==
  tracked => \E p \in 0..Length :
    /\ origin \in 0..p /\ taken = Capture!Bytes(origin, p) /\ expected = Capture!NumberOf(p)
    /\ Waits(waiting, p, p + Reach)
    /\ Parsed(origin, p, buffer, frames)

LEMMA FromEachToTheNext ==
  ASSUME NEW S, 0 \in S, \A k \in Nat : k \in S => k + 1 \in S
  PROVE  \A n \in Nat : n \in S
  <1> SUFFICES ASSUME NEW n \in Nat, n \notin S PROVE FALSE
    OBVIOUS
  <1> DEFINE f == [k \in 0..n |-> IF k \in S THEN k + 1 ELSE k]
  <1>1. f \in [0..n -> 1..n]
    <2>1. ASSUME NEW k \in 0..n
          PROVE  (IF k \in S THEN k + 1 ELSE k) \in 1..n
      <3>1. CASE k \in S
        BY <3>1
      <3>2. CASE k \notin S
        <4>1. k # 0
          BY <3>2
        <4> QED BY <3>2, <4>1
      <3> QED BY <3>1, <3>2
    <2> QED BY <2>1
  <1>2. /\ IsFiniteSet(0..n) /\ Cardinality(0..n) = n + 1
        /\ IsFiniteSet(1..n) /\ Cardinality(1..n) = n
    BY FS_Interval
  <1>3. PICK x \in 0..n, y \in 0..n : x # y /\ f[x] = f[y]
    <2>1. Cardinality(1..n) < Cardinality(0..n)
      BY <1>2
    <2> HIDE DEF f
    <2> QED BY <1>1, <1>2, <2>1, FS_PigeonHole
  <1>4. (IF x \in S THEN x + 1 ELSE x) = (IF y \in S THEN y + 1 ELSE y)
    BY <1>3
  <1> HIDE DEF f
  <1>5. CASE x \in S
    BY <1>3, <1>4, <1>5
  <1>6. CASE x \notin S
    BY <1>3, <1>4, <1>6
  <1> QED BY <1>5, <1>6

\* Bytes in a row.
LEMMA BytesOf ==
  ASSUME NEW a \in Nat, NEW b \in Nat, a <= b
  PROVE  /\ Capture!Bytes(a, b) \in Seq(Nat) /\ Len(Capture!Bytes(a, b)) = b - a
         /\ \A k \in 1..(b - a) : Capture!Bytes(a, b)[k] = a + k - 1
         /\ a < b => Capture!Bytes(a, b)[1] = a /\ Capture!Bytes(a, b) # <<>>
         /\ Capture!Bytes(a, a) = <<>>
  <1> DEFINE s == Capture!Bytes(a, b)
  <1>1. b - a \in Nat
    OBVIOUS
  <1>2. PICK n \in Nat : n = b - a
    BY <1>1
  <1>3. s = [k \in 1..n |-> a + k - 1]
    BY <1>2 DEF Capture!Bytes
  <1> HIDE DEF s
  <1>4. \A k \in 1..n : a + k - 1 \in Nat
    OBVIOUS
  <1>5. s \in Seq(Nat) /\ Len(s) = n /\ \A k \in 1..n : s[k] = a + k - 1
    BY <1>3, <1>4
  <1>6. a < b => s[1] = a /\ s # <<>>
    <2>1. SUFFICES ASSUME a < b PROVE s[1] = a /\ s # <<>>
      OBVIOUS
    <2>2. 1 \in 1..n /\ n # 0
      BY <1>2, <2>1
    <2>3. s[1] = a
      BY <1>5, <2>2
    <2>4. s # <<>>
      BY <1>5, <2>2
    <2> QED BY <2>3, <2>4
  <1>7. Capture!Bytes(a, a) = <<>>
    <2>1. a - a = 0
      OBVIOUS
    <2> QED BY <2>1 DEF Capture!Bytes
  <1> QED BY <1>2, <1>5, <1>6, <1>7 DEF s

LEMMA BytesJoined ==
  ASSUME NEW a \in Nat, NEW b \in Nat, NEW c \in Nat, a <= b, b <= c
  PROVE  Capture!Bytes(a, b) \o Capture!Bytes(b, c) = Capture!Bytes(a, c)
  <1>1. PICK s, t, u : s = Capture!Bytes(a, b) /\ t = Capture!Bytes(b, c) /\ u = Capture!Bytes(a, c)
    OBVIOUS
  <1>2. s \in Seq(Nat) /\ Len(s) = b - a /\ \A k \in 1..(b - a) : s[k] = a + k - 1
    BY <1>1, BytesOf
  <1>3. t \in Seq(Nat) /\ Len(t) = c - b /\ \A k \in 1..(c - b) : t[k] = b + k - 1
    BY <1>1, BytesOf
  <1>4. u \in Seq(Nat) /\ Len(u) = c - a /\ \A k \in 1..(c - a) : u[k] = a + k - 1
    <2>1. a <= c
      OBVIOUS
    <2> QED BY <1>1, <2>1, BytesOf
  <1>5. s \o t \in Seq(Nat) /\ Len(s \o t) = c - a
        /\ \A k \in 1..(c - a) : (s \o t)[k] = IF k <= b - a THEN s[k] ELSE t[k - (b - a)]
    <2>1. /\ s \o t \in Seq(Nat) /\ Len(s \o t) = Len(s) + Len(t)
          /\ \A k \in 1..(Len(s) + Len(t)) : (s \o t)[k] = IF k <= Len(s) THEN s[k] ELSE t[k - Len(s)]
      BY <1>2, <1>3, ConcatProperties
    <2>2. Len(s) + Len(t) = c - a
      BY <1>2, <1>3
    <2> QED BY <1>2, <2>1, <2>2
  <1>6. ASSUME NEW k \in 1..(c - a)
        PROVE  (s \o t)[k] = u[k]
    <2>1. CASE k <= b - a
      <3>1. k \in 1..(b - a)
        BY <2>1
      <3> QED BY <1>2, <1>4, <1>5, <2>1, <3>1
    <2>2. CASE ~(k <= b - a)
      <3>1. k - (b - a) \in 1..(c - b) /\ b + (k - (b - a)) - 1 = a + k - 1
        BY <2>2
      <3> QED BY <1>3, <1>4, <1>5, <2>2, <3>1
    <2> QED BY <2>1, <2>2
  <1>7. s \o t = u
    <2>1. PICK v : v = s \o t
      OBVIOUS
    <2>2. v \in Seq(Nat) /\ u \in Seq(Nat) /\ Len(v) = Len(u) /\ \A k \in 1..Len(v) : v[k] = u[k]
      BY <1>4, <1>5, <1>6, <2>1
    <2>3. v = u
      BY <2>2
    <2> QED BY <2>1, <2>3
  <1> QED BY <1>1, <1>7

\* Their beginning, and what is left.
LEMMA BytesCut ==
  ASSUME NEW a \in Nat, NEW b \in Nat, NEW n \in Nat, a + n <= b
  PROVE  /\ SubSeq(Capture!Bytes(a, b), 1, n) = Capture!Bytes(a, a + n)
         /\ Capture!Drop(Capture!Bytes(a, b), n) = Capture!Bytes(a + n, b)
  <1>0. PICK m \in Nat : m = a + n /\ a <= m /\ m <= b /\ m - a = n /\ b - m = b - a - n /\ a <= b
    OBVIOUS
  <1>1. PICK s, t, u : s = Capture!Bytes(a, b) /\ t = Capture!Bytes(a, m) /\ u = Capture!Bytes(m, b)
    OBVIOUS
  <1>2. s \in Seq(Nat) /\ Len(s) = b - a /\ \A k \in 1..(b - a) : s[k] = a + k - 1
    BY <1>0, <1>1, BytesOf
  <1>3. t \in Seq(Nat) /\ Len(t) = n /\ \A k \in 1..n : t[k] = a + k - 1
    <2>1. t \in Seq(Nat) /\ Len(t) = m - a /\ \A k \in 1..(m - a) : t[k] = a + k - 1
      BY <1>0, <1>1, BytesOf
    <2> QED BY <1>0, <2>1
  <1>4. u \in Seq(Nat) /\ Len(u) = b - a - n /\ \A k \in 1..(b - a - n) : u[k] = a + n + k - 1
    <2>1. u \in Seq(Nat) /\ Len(u) = b - m /\ \A k \in 1..(b - m) : u[k] = m + k - 1
      BY <1>0, <1>1, BytesOf
    <2> QED BY <1>0, <2>1
  <1>5. SubSeq(s, 1, n) = t
    <2>1. PICK v : v = SubSeq(s, 1, n)
      OBVIOUS
    <2>2. v \in Seq(Nat) /\ Len(v) = n /\ \A k \in 1..n : v[k] = s[k]
      <3>1. \A i \in 1..n : s[i] \in Nat
        BY <1>2
      <3>2. v = [i \in 1..n |-> s[i]]
        BY <1>2, <2>1
      <3> QED BY <3>1, <3>2
    <2>3. ASSUME NEW k \in 1..n
          PROVE  v[k] = t[k]
      <3>1. k \in 1..(b - a)
        OBVIOUS
      <3> QED BY <1>2, <1>3, <2>2, <3>1
    <2> QED BY <1>3, <2>1, <2>2, <2>3
  <1>6. SubSeq(s, n + 1, Len(s)) = u
    <2>1. PICK v : v = SubSeq(s, n + 1, Len(s))
      OBVIOUS
    <2>2. v \in Seq(Nat) /\ Len(v) = b - a - n /\ \A k \in 1..(b - a - n) : v[k] = s[n + k]
      <3>1. \A i \in 1..(b - a - n) : s[n + i] \in Nat
        BY <1>2
      <3>2. v = [i \in 1..(b - a - n) |-> s[n + i]]
        BY <1>2, <2>1
      <3>3. b - a - n \in Nat
        OBVIOUS
      <3> QED BY <3>1, <3>2, <3>3
    <2>3. ASSUME NEW k \in 1..(b - a - n)
          PROVE  v[k] = u[k]
      <3>1. n + k \in 1..(b - a) /\ a + (n + k) - 1 = a + n + k - 1
        OBVIOUS
      <3> QED BY <1>2, <1>4, <2>2, <3>1
    <2>4. u \in Seq(Nat) /\ Len(u) = Len(v) /\ \A k \in 1..Len(v) : v[k] = u[k]
      BY <1>4, <2>2, <2>3
    <2>5. u = v
      BY <2>2, <2>4
    <2> QED BY <2>1, <2>5
  <1> QED BY <1>0, <1>1, <1>5, <1>6 DEF Capture!Drop

-----------------------------------------------------------------------------
\* Sequence numbers.

LEMMA RemainderOf ==
  ASSUME NEW N \in Nat \ {0}, NEW x \in Int, NEW k \in Int, NEW r \in 0..(N - 1), x = N * k + r
  PROVE  x % N = r
  <1>1. PICK q \in Int, m \in 0..(N - 1) : m = x % N /\ x = N * q + m
    <2>1. PICK q : q = x \div N
      OBVIOUS
    <2>2. PICK m : m = x % N
      OBVIOUS
    <2>3. x \div N \in Int /\ x % N \in 0..(N - 1) /\ x = N * (x \div N) + (x % N)
      BY Z3
    <2>4. q \in Int /\ m \in 0..(N - 1) /\ x = N * q + m
      BY <2>1, <2>2, <2>3, Zenon
    <2> QED BY <2>2, <2>4
  <1>2. PICK A \in Int, B \in Int : A = N * k /\ B = N * q
    BY Z3
  <1>3. A + r = B + m
    BY <1>1, <1>2
  <1>4. ~(k < q)
    <2>1. SUFFICES ASSUME k < q PROVE FALSE
      OBVIOUS
    <2>2. B - A >= N
      BY <1>2, <2>1, Turns
    <2> QED BY <1>2, <1>3, <2>2
  <1>5. ~(q < k)
    <2>1. SUFFICES ASSUME q < k PROVE FALSE
      OBVIOUS
    <2>2. A - B >= N
      BY <1>2, <2>1, Turns
    <2> QED BY <1>2, <1>3, <2>2
  <1>6. q = k
    BY <1>4, <1>5
  <1>7. A = B
    BY <1>2, <1>6
  <1> QED BY <1>1, <1>2, <1>3, <1>7

\* A position and its number.
LEMMA NumberAt ==
  ASSUME CaptureNames, NEW p \in Nat
  PROVE  \E k \in Int : Capture!NumberOf(p) \in 0..(Modulus - 1)
                        /\ Initial + p = Modulus * k + Capture!NumberOf(p)
  <1>1. Initial + p \in Nat /\ Modulus \in Nat \ {0}
    BY DEF CaptureNames
  <1>2. PICK k : k = (Initial + p) \div Modulus
    OBVIOUS
  <1>3. PICK r : r = (Initial + p) % Modulus
    OBVIOUS
  <1>4. PICK x \in Nat : x = Initial + p
    BY <1>1
  <1>5. r \in 0..(Modulus - 1) /\ k \in Nat /\ x = Modulus * k + r
    BY <1>1, <1>2, <1>3, <1>4, Division
  <1> QED BY <1>3, <1>4, <1>5 DEF Capture!NumberOf

\* Sequence numbers tell nearby positions apart.
LEMMA DistanceOf ==
  ASSUME CaptureNames, NEW a \in Nat, NEW p \in Nat, a - p < Modulus \div 2, p - a <= Modulus \div 2
  PROVE  Capture!Distance(Capture!NumberOf(a), Capture!NumberOf(p)) = a - p
  <1>1. Modulus \in Nat \ {0}
    BY DEF CaptureNames
  <1>2. PICK h \in Nat : h = Modulus \div 2 /\ 2 * h <= Modulus
    BY <1>1
  <1>3. PICK k \in Int, m \in 0..(Modulus - 1) : m = Capture!NumberOf(a) /\ Initial + a = Modulus * k + m
    BY NumberAt
  <1>4. PICK l \in Int, n \in 0..(Modulus - 1) : n = Capture!NumberOf(p) /\ Initial + p = Modulus * l + n
    BY NumberAt
  <1>5. PICK A \in Int, B \in Int, C \in Int : A = Modulus * k /\ B = Modulus * l /\ C = Modulus * (l - k)
    BY <1>1, Z3
  <1>6. C = B - A
    BY <1>1, <1>5, Z3
  <1>7. (m - n + h) = C + (a - p + h)
    <2>1. Initial + a = A + m /\ Initial + p = B + n /\ Initial \in Nat
      BY <1>3, <1>4, <1>5 DEF CaptureNames
    <2> QED BY <1>2, <1>5, <1>6, <2>1
  <1>8. a - p + h \in 0..(Modulus - 1)
    BY <1>1, <1>2
  <1>9. (m - n + h) % Modulus = a - p + h
    <2>1. PICK x \in Int, r \in 0..(Modulus - 1), j \in Int : x = m - n + h /\ r = a - p + h /\ j = l - k
      BY <1>2, <1>8
    <2>2. x = Modulus * j + r
      BY <1>5, <1>7, <2>1
    <2>3. x % Modulus = r
      BY <1>1, <2>2, RemainderOf
    <2> QED BY <2>1, <2>3
  <1>10. Capture!Distance(m, n) = ((m - n + h) % Modulus) - h
    BY <1>2 DEF Capture!Distance
  <1>11. (a - p + h) - h = a - p
    BY <1>2
  <1> QED BY <1>3, <1>4, <1>9, <1>10, <1>11

\* The number of the byte behind n bytes more.
LEMMA NumberBehind ==
  ASSUME CaptureNames, NEW p \in Nat, NEW n \in Nat
  PROVE  (Capture!NumberOf(p) + n) % Modulus = Capture!NumberOf(p + n)
  <1>1. Modulus \in Nat \ {0} /\ Initial \in Nat
    BY DEF CaptureNames
  <1>2. PICK k \in Int, m \in 0..(Modulus - 1) : m = Capture!NumberOf(p) /\ Initial + p = Modulus * k + m
    BY NumberAt
  <1>3. PICK l \in Int, r \in 0..(Modulus - 1) :
          r = Capture!NumberOf(p + n) /\ Initial + (p + n) = Modulus * l + r
    BY NumberAt
  <1>4. PICK A \in Int, B \in Int, C \in Int : A = Modulus * k /\ B = Modulus * l /\ C = Modulus * (l - k)
    BY <1>1, Z3
  <1>5. C = B - A
    BY <1>1, <1>4, Z3
  <1>6. m + n = C + r
    BY <1>1, <1>2, <1>3, <1>4, <1>5
  <1>7. PICK j \in Int : j = l - k
    OBVIOUS
  <1>8. PICK x \in Int : x = m + n
    OBVIOUS
  <1>9. x = Modulus * j + r
    BY <1>4, <1>6, <1>7, <1>8
  <1>10. x % Modulus = r
    BY <1>1, <1>9, RemainderOf
  <1> QED BY <1>2, <1>3, <1>8, <1>10

\* Among things at distances that are not below some number one is nearest.
LEMMA NearestIs ==
  ASSUME NEW T, NEW x \in T, NEW d, NEW low \in Int, \A q \in T : d[q] \in Int /\ d[q] >= low
  PROVE  \E q \in T : \A r \in T : d[q] <= d[r]
  <1> SUFFICES ASSUME \A q \in T : \E r \in T : d[r] < d[q]
               PROVE  FALSE
    <2>1. ASSUME NEW q \in T, NEW r \in T, ~(d[q] <= d[r])
          PROVE  d[r] < d[q]
      BY <2>1
    <2> QED BY <2>1
  <1> DEFINE S == {k \in Nat : \A q \in T : d[q] >= low + k}
  <1>1. 0 \in S
    OBVIOUS
  <1>2. ASSUME NEW k \in Nat, k \in S
        PROVE  k + 1 \in S
    <2>1. ASSUME NEW q \in T
          PROVE  d[q] >= low + (k + 1)
      <3>1. PICK r \in T : d[r] < d[q]
        OBVIOUS
      <3>2. d[r] >= low + k /\ d[r] \in Int /\ d[q] \in Int
        BY <1>2
      <3> QED BY <3>1, <3>2
    <2> QED BY <2>1
  <1> HIDE DEF S
  <1>3. \A k \in Nat : k \in S
    BY <1>1, <1>2, FromEachToTheNext
  <1>4. PICK k \in Nat : k = d[x] - low + 1
    OBVIOUS
  <1>5. d[x] >= low + k
    BY <1>3 DEF S
  <1> QED BY <1>4, <1>5

-----------------------------------------------------------------------------
\* The loops are recursive functions: there are some.

SplitIn(turns, kept, chunk, wires) ==
  /\ turns[0].ok = TRUE /\ turns[0].pending = kept
  /\ turns[0].chunk = chunk /\ turns[0].wires = wires
  /\ \A n \in 0..Len(chunk) : n # 0 => turns[n] = Capture!Piece(turns[n - 1])
  /\ Capture!Split(kept, chunk, wires) = turns[Len(chunk)]

LEMMA SplitTurns ==
  ASSUME NEW kept, NEW chunk, NEW wires, Len(chunk) \in Nat
  PROVE  \E turns : SplitIn(turns, kept, chunk, wires)
  <1> DEFINE first == [ok |-> TRUE, pending |-> kept, chunk |-> chunk, wires |-> wires]
             turns[n \in 0..Len(chunk)] ==
               IF n = 0 THEN [ok |-> TRUE, pending |-> kept, chunk |-> chunk, wires |-> wires]
               ELSE Capture!Piece(turns[n - 1])
  <1>1. Capture!Split(kept, chunk, wires) = turns[Len(chunk)]
    BY Zenon DEF Capture!Split
  <1>2. turns = [n \in 0..Len(chunk) |->
                   IF n = 0 THEN [ok |-> TRUE, pending |-> kept, chunk |-> chunk, wires |-> wires]
                   ELSE Capture!Piece(turns[n - 1])]
    <2>1. \E g : g = [n \in 0..Len(chunk) |->
                     IF n = 0 THEN [ok |-> TRUE, pending |-> kept, chunk |-> chunk, wires |-> wires]
                     ELSE Capture!Piece(g[n - 1])]
      <3> DEFINE Value(g, n) == IF n = 0 THEN first ELSE Capture!Piece(g[n - 1])
                 T == {m \in Nat : \E g : g = [n \in 0..m |-> Value(g, n)]}
      <3>1. 0 \in T
        <4> DEFINE g == [n \in 0..0 |-> first]
        <4>1. \A n \in 0..0 : Value(g, n) = first
          OBVIOUS
        <4>2. g = [n \in 0..0 |-> Value(g, n)]
          BY <4>1
        <4> QED BY <4>2
      <3>2. ASSUME NEW m \in Nat, m \in T
            PROVE  m + 1 \in T
        <4>1. PICK g : g = [n \in 0..m |-> Value(g, n)]
          BY <3>2
        <4> DEFINE h == [n \in 0..(m + 1) |-> IF n = m + 1 THEN Value(g, n) ELSE g[n]]
        <4>2. ASSUME NEW n \in 0..(m + 1)
              PROVE  h[n] = Value(h, n)
          <5>1. n # 0 => n - 1 \in 0..m /\ h[n - 1] = g[n - 1]
            OBVIOUS
          <5>2. Value(h, n) = Value(g, n)
            <6>1. CASE n = 0
              BY <6>1
            <6>2. CASE n # 0
              <7>1. h[n - 1] = g[n - 1]
                BY <5>1, <6>2
              <7> HIDE DEF h
              <7> QED BY <6>2, <7>1
            <6> QED BY <6>1, <6>2
          <5>3. h[n] = Value(g, n)
            <6>1. CASE n = m + 1
              BY <6>1
            <6>2. CASE n # m + 1
              <7>1. n \in 0..m /\ h[n] = g[n]
                BY <6>2
              <7> HIDE DEF h, Value
              <7> QED BY <4>1, <7>1
            <6> QED BY <6>1, <6>2
          <5> QED BY <5>2, <5>3
        <4>3. h = [n \in 0..(m + 1) |-> h[n]]
          OBVIOUS
        <4> HIDE DEF h, Value
        <4>4. h = [n \in 0..(m + 1) |-> Value(h, n)]
          BY <4>2, <4>3
        <4> QED BY <4>4
      <3> HIDE DEF T
      <3>3. Len(chunk) \in T
        BY <3>1, <3>2, FromEachToTheNext
      <3>4. \E g : g = [n \in 0..Len(chunk) |-> Value(g, n)]
        BY <3>3 DEF T
      <3> QED BY <3>4, Zenon DEF first, Value
    <2> HIDE DEF first
    <2> QED BY <2>1, Zenon
  <1> HIDE DEF first, turns
  <1>3. \A n \in 0..Len(chunk) : turns[n] = IF n = 0 THEN first ELSE Capture!Piece(turns[n - 1])
    <2>1. turns = [n \in 0..Len(chunk) |-> IF n = 0 THEN first ELSE Capture!Piece(turns[n - 1])]
      BY <1>2, Zenon DEF first
    <2> QED BY <2>1
  <1>4. turns[0] = first
    BY <1>3
  <1>5. \A n \in 0..Len(chunk) : n # 0 => turns[n] = Capture!Piece(turns[n - 1])
    BY <1>3
  <1>6. /\ turns[0].ok = TRUE /\ turns[0].pending = kept
        /\ turns[0].chunk = chunk /\ turns[0].wires = wires
    BY <1>4 DEF first
  <1> QED BY <1>1, <1>5, <1>6, Zenon DEF SplitIn

ConsumedIn(turns, most, data, s) ==
  /\ turns[0].data = data /\ turns[0].stream = s
  /\ \A n \in 0..most : n # 0 => turns[n] = Capture!Turn(turns[n - 1])
  /\ Capture!Consume(data, s) = turns[most].stream

LEMMA ConsumeTurns ==
  ASSUME NEW data, NEW s, NEW most \in Nat, most = Cardinality(DOMAIN s.waiting) + 1
  PROVE  \E turns : ConsumedIn(turns, most, data, s)
  <1> DEFINE first == [data |-> data, stream |-> s]
             turns[n \in 0..(Capture!Cardinality(DOMAIN s.waiting) + 1)] ==
               IF n = 0 THEN [data |-> data, stream |-> s] ELSE Capture!Turn(turns[n - 1])
  <1>0. Capture!Cardinality(DOMAIN s.waiting) + 1 = most
    BY DEF Capture!Cardinality, Cardinality
  <1>1. Capture!Consume(data, s) = turns[Capture!Cardinality(DOMAIN s.waiting) + 1].stream
    BY Zenon DEF Capture!Consume
  <1>2. turns = [n \in 0..(Capture!Cardinality(DOMAIN s.waiting) + 1) |->
                   IF n = 0 THEN [data |-> data, stream |-> s] ELSE Capture!Turn(turns[n - 1])]
    <2>1. Capture!Cardinality(DOMAIN s.waiting) + 1 \in Nat
      BY <1>0, Zenon
    <2>2. \E g : g = [n \in 0..(Capture!Cardinality(DOMAIN s.waiting) + 1) |->
                     IF n = 0 THEN [data |-> data, stream |-> s] ELSE Capture!Turn(g[n - 1])]
      <3> DEFINE Value(g, n) == IF n = 0 THEN first ELSE Capture!Turn(g[n - 1])
                 T == {m \in Nat : \E g : g = [n \in 0..m |-> Value(g, n)]}
      <3>1. 0 \in T
        <4> DEFINE g == [n \in 0..0 |-> first]
        <4>1. \A n \in 0..0 : Value(g, n) = first
          OBVIOUS
        <4>2. g = [n \in 0..0 |-> Value(g, n)]
          BY <4>1
        <4> QED BY <4>2
      <3>2. ASSUME NEW m \in Nat, m \in T
            PROVE  m + 1 \in T
        <4>1. PICK g : g = [n \in 0..m |-> Value(g, n)]
          BY <3>2
        <4> DEFINE h == [n \in 0..(m + 1) |-> IF n = m + 1 THEN Value(g, n) ELSE g[n]]
        <4>2. ASSUME NEW n \in 0..(m + 1)
              PROVE  h[n] = Value(h, n)
          <5>1. n # 0 => n - 1 \in 0..m /\ h[n - 1] = g[n - 1]
            OBVIOUS
          <5>2. Value(h, n) = Value(g, n)
            <6>1. CASE n = 0
              BY <6>1
            <6>2. CASE n # 0
              <7>1. h[n - 1] = g[n - 1]
                BY <5>1, <6>2
              <7> HIDE DEF h
              <7> QED BY <6>2, <7>1
            <6> QED BY <6>1, <6>2
          <5>3. h[n] = Value(g, n)
            <6>1. CASE n = m + 1
              BY <6>1
            <6>2. CASE n # m + 1
              <7>1. n \in 0..m /\ h[n] = g[n]
                BY <6>2
              <7> HIDE DEF h, Value
              <7> QED BY <4>1, <7>1
            <6> QED BY <6>1, <6>2
          <5> QED BY <5>2, <5>3
        <4>3. h = [n \in 0..(m + 1) |-> h[n]]
          OBVIOUS
        <4> HIDE DEF h, Value
        <4>4. h = [n \in 0..(m + 1) |-> Value(h, n)]
          BY <4>2, <4>3
        <4> QED BY <4>4
      <3> HIDE DEF T
      <3>3. Capture!Cardinality(DOMAIN s.waiting) + 1 \in T
        <4>1. Capture!Cardinality(DOMAIN s.waiting) + 1 \in Nat
          BY <2>1, Zenon
        <4> HIDE DEF Value
        <4>2. \A k \in Nat : k \in T
          BY <3>1, <3>2, FromEachToTheNext
        <4> QED BY <4>1, <4>2, Zenon
      <3>4. \E g : g = [n \in 0..(Capture!Cardinality(DOMAIN s.waiting) + 1) |-> Value(g, n)]
        BY <3>3 DEF T
      <3> QED BY <3>4, Zenon DEF first, Value
    <2> HIDE DEF first
    <2> QED BY <2>2, Zenon
  <1> HIDE DEF first, turns
  <1>3. \A n \in 0..most : turns[n] = IF n = 0 THEN first ELSE Capture!Turn(turns[n - 1])
    <2>1. turns = [n \in 0..most |-> IF n = 0 THEN first ELSE Capture!Turn(turns[n - 1])]
      BY <1>0, <1>2, Zenon DEF first
    <2> QED BY <2>1
  <1>4. turns[0] = first
    BY <1>3
  <1>5. \A n \in 0..most : n # 0 => turns[n] = Capture!Turn(turns[n - 1])
    BY <1>3
  <1>6. turns[0].data = data /\ turns[0].stream = s
    BY <1>4 DEF first
  <1> QED BY <1>0, <1>1, <1>5, <1>6, Zenon DEF ConsumedIn

-----------------------------------------------------------------------------
\* The frames between two positions.

LEMMA FrameAt ==
  ASSUME CaptureNames, NEW s \in Starts
  PROVE  s \in Nat /\ s < Length /\ Size[s] \in Nat /\ Size[s] >= HeaderSize /\ HeaderSize \in Nat \ {0}
  <1>1. s \in 0..(Length - 1) /\ Length \in Nat /\ HeaderSize \in Nat \ {0}
    BY DEF CaptureNames
  <1>2. Size[s] # 0 /\ Size[s] \in Nat /\ (Size[s] = 0 \/ Size[s] >= HeaderSize)
    BY <1>1 DEF CaptureNames
  <1> QED BY <1>1, <1>2

LEMMA FramesBetween ==
  ASSUME NEW o, NEW p, NEW x
  PROVE  x \in Capture!Between(o, p) <=>
           \E s \in Starts : o <= s /\ s + Size[s] <= p /\ x = Capture!Bytes(s, s + Size[s])
  BY Zenon DEF Capture!Between

\* A frame follows the ones before it.
LEMMA FrameBehind ==
  ASSUME CaptureNames, NEW o \in Nat, NEW s \in Starts, o <= s
  PROVE  Capture!Between(o, s + Size[s]) = Capture!Between(o, s) \cup {Capture!Bytes(s, s + Size[s])}
  <1>1. s \in Nat /\ Size[s] \in Nat /\ Size[s] > 0
    BY FrameAt
  <1>2. ASSUME NEW t \in Starts
        PROVE  t + Size[t] <= s + Size[s] <=> (t + Size[t] <= s \/ t = s)
    <2>1. t \in Nat /\ Size[t] \in Nat /\ Size[t] > 0
      BY FrameAt
    <2>2. (t < s => t + Size[t] <= s) /\ (s < t => s + Size[s] <= t)
      BY DEF CaptureNames
    <2> QED BY <1>1, <2>1, <2>2
  <1>3. ASSUME NEW x
        PROVE  x \in Capture!Between(o, s + Size[s])
                 <=> x \in Capture!Between(o, s) \/ x = Capture!Bytes(s, s + Size[s])
    <2>1. (\E t \in Starts : o <= t /\ t + Size[t] <= s + Size[s] /\ x = Capture!Bytes(t, t + Size[t]))
            <=> \/ \E t \in Starts : o <= t /\ t + Size[t] <= s /\ x = Capture!Bytes(t, t + Size[t])
                \/ x = Capture!Bytes(s, s + Size[s])
      BY <1>2, Zenon
    <2>2. x \in Capture!Between(o, s + Size[s])
            <=> \E t \in Starts : o <= t /\ t + Size[t] <= s + Size[s] /\ x = Capture!Bytes(t, t + Size[t])
      BY FramesBetween
    <2>3. x \in Capture!Between(o, s)
            <=> \E t \in Starts : o <= t /\ t + Size[t] <= s /\ x = Capture!Bytes(t, t + Size[t])
      BY FramesBetween
    <2> QED BY <2>1, <2>2, <2>3, Zenon
  <1> QED BY <1>3, Zenon

\* None ends within a frame.
LEMMA FrameWithin ==
  ASSUME CaptureNames, NEW o \in Nat, NEW s \in Starts, NEW p \in Nat, s <= p, p < s + Size[s]
  PROVE  Capture!Between(o, p) = Capture!Between(o, s)
  <1>1. s \in Nat /\ Size[s] \in Nat /\ Size[s] > 0
    BY FrameAt
  <1>2. ASSUME NEW t \in Starts
        PROVE  t + Size[t] <= p <=> t + Size[t] <= s
    <2>1. t \in Nat /\ Size[t] \in Nat /\ Size[t] > 0
      BY FrameAt
    <2>2. (t < s => t + Size[t] <= s) /\ (s < t => s + Size[s] <= t)
      BY DEF CaptureNames
    <2> QED BY <1>1, <2>1, <2>2
  <1>3. ASSUME NEW x
        PROVE  x \in Capture!Between(o, p) <=> x \in Capture!Between(o, s)
    <2>1. (\E t \in Starts : o <= t /\ t + Size[t] <= p /\ x = Capture!Bytes(t, t + Size[t]))
            <=> \E t \in Starts : o <= t /\ t + Size[t] <= s /\ x = Capture!Bytes(t, t + Size[t])
      BY <1>2, Zenon
    <2>2. x \in Capture!Between(o, p)
            <=> \E t \in Starts : o <= t /\ t + Size[t] <= p /\ x = Capture!Bytes(t, t + Size[t])
      BY FramesBetween
    <2>3. x \in Capture!Between(o, s)
            <=> \E t \in Starts : o <= t /\ t + Size[t] <= s /\ x = Capture!Bytes(t, t + Size[t])
      BY FramesBetween
    <2> QED BY <2>1, <2>2, <2>3, Zenon
  <1> QED BY <1>3, Zenon

\* The next frame, behind all the others.
LEMMA OneMore ==
  ASSUME CaptureNames, NEW o \in Nat, NEW s \in Starts, o <= s, NEW wires, Whole(wires, o, s)
  PROVE  Whole(Append(wires, Capture!Bytes(s, s + Size[s])), o, s + Size[s])
  <1>1. s \in Nat /\ Size[s] \in Nat /\ Size[s] > 0
    BY FrameAt
  <1>2. PICK wire \in Seq(Nat) : wire = Capture!Bytes(s, s + Size[s]) /\ wire[1] = s
    <2>1. PICK e \in Nat : e = s + Size[s] /\ s < e /\ s <= e
      BY <1>1
    <2>2. Capture!Bytes(s, e) \in Seq(Nat) /\ Capture!Bytes(s, e)[1] = s
      BY <1>1, <2>1, BytesOf
    <2> QED BY <2>1, <2>2, Zenon
  <1>0. PICK more : more = Append(wires, wire)
    OBVIOUS
  <1>3. PICK n \in Nat : n = Len(wires)
    <2>1. wires \in Seq(Seq(Nat))
      BY Zenon DEF Whole
    <2>2. Len(wires) \in Nat
      BY <2>1
    <2> QED BY <2>2, Zenon
  <1>4. wires \in Seq(Seq(Nat)) /\ {wires[k] : k \in 1..n} = Capture!Between(o, s)
        /\ \A j, k \in 1..n : j < k => wires[j][1] < wires[k][1]
    BY <1>3, Zenon DEF Whole
  <1>5. /\ more \in Seq(Seq(Nat)) /\ Len(more) = n + 1 /\ more[n + 1] = wire
        /\ \A k \in 1..n : more[k] = wires[k]
    BY <1>0, <1>3, <1>4
  <1>6. {more[k] : k \in 1..(n + 1)} = Capture!Between(o, s + Size[s])
    <2>1. \A k \in 1..(n + 1) : k \in 1..n \/ k = n + 1
      BY <1>3
    <2>2. n + 1 \in 1..(n + 1) /\ \A k \in 1..n : k \in 1..(n + 1)
      BY <1>3
    <2>3. {more[k] : k \in 1..(n + 1)} = {wires[k] : k \in 1..n} \cup {wire}
      BY <1>5, <2>1, <2>2, Zenon
    <2> QED BY <1>2, <1>4, <2>3, FrameBehind, Zenon
  <1>7. ASSUME NEW k \in 1..n
        PROVE  wires[k][1] < s
    <2>1. wires[k] \in Capture!Between(o, s)
      BY <1>4, Zenon
    <2>2. PICK t \in Starts : o <= t /\ t + Size[t] <= s /\ wires[k] = Capture!Bytes(t, t + Size[t])
      BY <2>1, FramesBetween
    <2>3. t \in Nat /\ Size[t] \in Nat /\ Size[t] > 0
      BY FrameAt
    <2>4. PICK e \in Nat : e = t + Size[t] /\ t < e /\ t <= e
      BY <2>3
    <2>5. Capture!Bytes(t, e)[1] = t
      BY <2>3, <2>4, BytesOf
    <2>6. wires[k][1] = t
      BY <2>2, <2>4, <2>5, Zenon
    <2> QED BY <1>1, <2>2, <2>3, <2>6
  <1>8. ASSUME NEW j \in 1..(n + 1), NEW k \in 1..(n + 1), j < k
        PROVE  more[j][1] < more[k][1]
    <2>1. j \in 1..n
      BY <1>3, <1>8
    <2>2. CASE k \in 1..n
      <3>1. wires[j][1] < wires[k][1] /\ more[j] = wires[j] /\ more[k] = wires[k]
        BY <1>4, <1>5, <1>8, <2>1, <2>2, Zenon
      <3> QED BY <3>1
    <2>3. CASE k = n + 1
      <3>1. more[j] = wires[j] /\ more[k] = wire /\ wire[1] = s /\ wires[j][1] < s
        BY <1>2, <1>5, <1>7, <2>1, <2>3, Zenon
      <3> QED BY <3>1
    <2> QED BY <1>3, <2>2, <2>3
  <1>9. Whole(more, o, s + Size[s])
    BY <1>5, <1>6, <1>8, Zenon DEF Whole
  <1> QED BY <1>0, <1>2, <1>9, Zenon
-----------------------------------------------------------------------------
\* The parser.

LEMMA BytesFrom ==
  ASSUME NEW a \in Nat, NEW b \in Nat, a <= b
  PROVE  /\ Len(Capture!Bytes(a, b)) = b - a
         /\ a < b => Capture!Bytes(a, b)[1] = a /\ Capture!Bytes(a, b) # <<>>
  BY BytesOf

\* A turn of its loop takes bytes, and keeps what the parser keeps.
LEMMA PieceTaken ==
  ASSUME CaptureNames, NEW o \in Nat, NEW m \in Nat, NEW E \in Nat, o <= m, m < E, E <= Length,
         NEW loop
  PROVE  LET next == Capture!Piece(loop)
         IN loop.ok /\ loop.chunk = Capture!Bytes(m, E) /\ Parsed(o, m, loop.pending, loop.wires) =>
              /\ next.ok \in BOOLEAN
              /\ next.ok => \E l \in Nat : /\ m < l /\ l <= E /\ next.chunk = Capture!Bytes(l, E)
                                           /\ Parsed(o, l, next.pending, next.wires)
  <1>a. SUFFICES ASSUME loop.ok, loop.chunk = Capture!Bytes(m, E), Parsed(o, m, loop.pending, loop.wires)
                 PROVE  /\ Capture!Piece(loop).ok \in BOOLEAN
                        /\ Capture!Piece(loop).ok =>
                             \E l \in Nat : /\ m < l /\ l <= E
                                            /\ Capture!Piece(loop).chunk = Capture!Bytes(l, E)
                                            /\ Parsed(o, l, Capture!Piece(loop).pending, Capture!Piece(loop).wires)
    BY Zenon
  <1>0. HeaderSize \in Nat \ {0} /\ Length \in Nat
    BY DEF CaptureNames
  <1>1. PICK s \in 0..m :
          /\ o <= s /\ loop.pending = Capture!Bytes(s, m)
          /\ s < m => m - s < HeaderSize \/ m - s < Size[s]
          /\ o \in Starts => (s \in Starts \/ s = Length) /\ Whole(loop.wires, o, s)
    BY <1>a DEF Parsed
  <1>2. PICK kept, chunk, wires : kept = loop.pending /\ chunk = loop.chunk /\ wires = loop.wires
    OBVIOUS
  <1>3. s \in Nat /\ s <= m /\ s < E /\ s < Length /\ s \in 0..(Length - 1)
    BY <1>0
  <1>4. PICK size \in Nat : size = Size[s] /\ (size = 0 \/ size >= HeaderSize)
    BY <1>3 DEF CaptureNames
  <1>5. Len(kept) = m - s /\ (s < m => kept[1] = s)
    <2>1. Len(Capture!Bytes(s, m)) = m - s /\ (s < m => Capture!Bytes(s, m)[1] = s)
      BY <1>3, BytesFrom
    <2> QED BY <1>1, <1>2, <2>1, Zenon
  <1>6. Len(chunk) = E - m /\ chunk # <<>>
    <2>1. m <= E
      OBVIOUS
    <2>2. Len(Capture!Bytes(m, E)) = E - m /\ Capture!Bytes(m, E) # <<>>
      BY <2>1, BytesFrom
    <2> QED BY <1>a, <1>2, <2>2, Zenon
  <1>7. PICK target \in Nat :
          /\ target = IF Len(kept) < HeaderSize THEN HeaderSize ELSE Size[kept[1]]
          /\ m - s < target /\ target = IF m - s < HeaderSize THEN HeaderSize ELSE size
    <2>1. CASE m - s < HeaderSize
      BY <1>0, <1>5, <2>1
    <2>2. CASE ~(m - s < HeaderSize)
      <3>1. s < m
        BY <1>0, <1>3, <2>2
      <3>2. kept[1] = s /\ m - s < size
        BY <1>1, <1>4, <1>5, <2>2, <3>1
      <3>3. Size[kept[1]] = size
        BY <1>4, <3>2, Zenon
      <3> QED BY <1>5, <2>2, <3>2, <3>3
    <2> QED BY <2>1, <2>2
  <1>8. PICK missing \in Nat : missing = target - Len(kept) /\ missing = target - (m - s) /\ missing > 0
    BY <1>3, <1>5, <1>7
  <1>9. PICK amount \in Nat :
          /\ amount = IF missing < Len(chunk) THEN missing ELSE Len(chunk)
          /\ amount > 0 /\ amount <= E - m /\ amount <= missing
    <2>1. PICK n \in Nat : n = Len(chunk) /\ n = E - m /\ n > 0
      BY <1>6
    <2>2. PICK a : a = IF missing < n THEN missing ELSE n
      OBVIOUS
    <2>3. a \in Nat /\ a > 0 /\ a <= n /\ a <= missing
      BY <1>8, <2>1, <2>2
    <2> QED BY <2>1, <2>2, <2>3, Zenon
  <1>10. PICK l \in Nat : l = m + amount /\ m < l /\ m <= l /\ l <= E /\ s < l /\ s <= l
    <2>1. amount > 0 /\ amount <= E - m
      BY <1>9, Zenon
    <2>2. PICK l : l = m + amount
      OBVIOUS
    <2>3. l \in Nat /\ m < l /\ m <= l /\ l <= E
      BY <2>1, <2>2
    <2>4. s < l /\ s <= l
      BY <1>3, <2>3
    <2> QED BY <2>2, <2>3, <2>4, Zenon
  <1>11. SubSeq(chunk, 1, amount) = Capture!Bytes(m, l) /\ Capture!Drop(chunk, amount) = Capture!Bytes(l, E)
    <2>1. m + amount <= E
      BY <1>9
    <2>2. /\ SubSeq(Capture!Bytes(m, E), 1, amount) = Capture!Bytes(m, m + amount)
          /\ Capture!Drop(Capture!Bytes(m, E), amount) = Capture!Bytes(m + amount, E)
      <3>1. \A n \in Nat : m + n <= E => /\ SubSeq(Capture!Bytes(m, E), 1, n) = Capture!Bytes(m, m + n)
                                        /\ Capture!Drop(Capture!Bytes(m, E), n) = Capture!Bytes(m + n, E)
        BY BytesCut, Zenon
      <3> QED BY <2>1, <3>1, Zenon
    <2> QED BY <1>a, <1>2, <1>10, <2>2, Zenon
  <1>12. PICK grown : grown = kept \o SubSeq(chunk, 1, amount) /\ grown = Capture!Bytes(s, l)
    <2>1. Capture!Bytes(s, m) \o Capture!Bytes(m, l) = Capture!Bytes(s, l)
      BY <1>3, <1>10, BytesJoined, Zenon
    <2> QED BY <1>1, <1>2, <1>11, <2>1, Zenon
  <1>13. Len(grown) = l - s /\ grown[1] = s /\ Size[grown[1]] = size
    <2>1. Len(Capture!Bytes(s, l)) = l - s /\ Capture!Bytes(s, l)[1] = s
      BY <1>3, <1>10, BytesFrom
    <2> QED BY <1>4, <1>12, <2>1, Zenon
  <1>14. l - s <= target
    BY <1>3, <1>8, <1>9, <1>10
  <1> DEFINE ok == Len(grown) < HeaderSize \/ Size[grown[1]] # 0
             complete == Len(grown) >= HeaderSize /\ Len(grown) = Size[grown[1]]
  <1>15. Capture!Piece(loop) =
           [ok |-> ok, pending |-> IF complete THEN <<>> ELSE grown, chunk |-> Capture!Drop(chunk, amount),
            wires |-> IF complete THEN Capture!Returned(wires, grown) ELSE wires]
    <2>1. ~(chunk = <<>> \/ ~loop.ok)
      BY <1>a, <1>6
    <2> QED BY <1>2, <1>7, <1>8, <1>9, <1>12, <2>1, Zenon DEF Capture!Piece
  <1>16. ok \in BOOLEAN /\ (ok <=> l - s < HeaderSize \/ size # 0)
         /\ complete \in BOOLEAN /\ (complete <=> l - s >= HeaderSize /\ l - s = size)
    BY <1>13
  <1> HIDE DEF ok, complete
  <1>17. ASSUME ok, complete
         PROVE  Parsed(o, l, <<>>, Capture!Returned(wires, grown))
    <2>1. l - s = size /\ s + size = l /\ s + Size[s] = l
      BY <1>3, <1>4, <1>10, <1>16, <1>17
    <2>2. ASSUME o \in Starts
          PROVE  (l \in Starts \/ l = Length) /\ Whole(Capture!Returned(wires, grown), o, l)
      <3>1. s \in Starts /\ Whole(wires, o, s)
        BY <1>1, <1>2, <1>3, <2>2
      <3>2. l \in Starts \/ l >= Length
        BY <2>1, <3>1 DEF CaptureNames
      <3>3. l \in Starts \/ l = Length
        BY <1>0, <1>10, <3>2
      <3>4. Whole(Append(wires, Capture!Bytes(s, s + Size[s])), o, s + Size[s])
        BY <1>1, <3>1, OneMore
      <3>5. Capture!Returned(wires, grown) = Append(wires, Capture!Bytes(s, s + Size[s]))
        BY <1>12, <1>13, <2>1, <3>1 DEF Capture!Returned
      <3>6. Whole(Capture!Returned(wires, grown), o, l)
        BY <2>1, <3>4, <3>5, Zenon
      <3> QED BY <3>3, <3>6
    <2>3. <<>> = Capture!Bytes(l, l)
      BY <1>10, BytesOf
    <2>4. l \in 0..l /\ o <= l /\ ~(l < l)
      BY <1>10
    <2> QED BY <2>2, <2>3, <2>4 DEF Parsed
  <1>18. ASSUME ok, ~complete
         PROVE  Parsed(o, l, grown, wires)
    <2>1. l - s < HeaderSize \/ l - s < Size[s]
      BY <1>0, <1>3, <1>4, <1>7, <1>10, <1>14, <1>16, <1>18
    <2>2. s \in 0..l
      BY <1>3, <1>10
    <2> QED BY <1>1, <1>2, <1>12, <2>1, <2>2 DEF Parsed
  <1>19. ASSUME ok
         PROVE  /\ m < l /\ l <= E /\ Capture!Piece(loop).chunk = Capture!Bytes(l, E)
                /\ Parsed(o, l, Capture!Piece(loop).pending, Capture!Piece(loop).wires)
    <2>1. Capture!Piece(loop).chunk = Capture!Bytes(l, E)
      BY <1>11, <1>15
    <2>2. CASE complete
      <3>1. Capture!Piece(loop).pending = <<>> /\ Capture!Piece(loop).wires = Capture!Returned(wires, grown)
        BY <1>15, <2>2
      <3> QED BY <1>10, <1>17, <1>19, <2>1, <2>2, <3>1, Zenon
    <2>3. CASE ~complete
      <3>1. Capture!Piece(loop).pending = grown /\ Capture!Piece(loop).wires = wires
        BY <1>15, <2>3
      <3> QED BY <1>10, <1>18, <1>19, <2>1, <2>3, <3>1, Zenon
    <2> QED BY <2>2, <2>3
  <1>20. Capture!Piece(loop).ok = ok
    BY <1>15
  <1> QED BY <1>16, <1>19, <1>20, Zenon

\* All turns take all bytes.
LEMMA SplitTaken ==
  ASSUME CaptureNames, NEW o \in Nat, NEW p \in Nat, NEW E \in Nat, o <= p, p <= E, E <= Length,
         NEW kept, NEW wires
  PROVE  LET got == Capture!Split(kept, Capture!Bytes(p, E), wires)
         IN Parsed(o, p, kept, wires) =>
              got.ok \in BOOLEAN /\ (got.ok => Parsed(o, E, got.pending, got.wires))
  <1>a. SUFFICES ASSUME Parsed(o, p, kept, wires)
                 PROVE  LET got == Capture!Split(kept, Capture!Bytes(p, E), wires)
                        IN got.ok \in BOOLEAN /\ (got.ok => Parsed(o, E, got.pending, got.wires))
    BY Zenon
  <1> DEFINE At(loop, l) == loop.chunk = Capture!Bytes(l, E) /\ Parsed(o, l, loop.pending, loop.wires)
             Good(loop, n) ==
               /\ loop.ok \in BOOLEAN
               /\ loop.ok => \E l \in Nat : p <= l /\ l <= E /\ (l = E \/ l - p >= n) /\ At(loop, l)
  <1>0. PICK chunk : chunk = Capture!Bytes(p, E)
    OBVIOUS
  <1>1. PICK most \in Nat : most = Len(chunk) /\ most = E - p
    <2>1. Len(Capture!Bytes(p, E)) = E - p /\ E - p \in Nat
      BY BytesFrom
    <2>2. Len(chunk) = E - p /\ Len(chunk) \in Nat
      BY <1>0, <2>1, Zenon
    <2> QED BY <2>2, Zenon
  <1>2. PICK turns :
           /\ turns[0].ok = TRUE /\ turns[0].pending = kept
           /\ turns[0].chunk = chunk /\ turns[0].wires = wires
           /\ \A n \in 0..most : n # 0 => turns[n] = Capture!Piece(turns[n - 1])
           /\ Capture!Split(kept, chunk, wires) = turns[most]
    <2>1. Len(chunk) \in Nat
      BY <1>1, Zenon
    <2>2. PICK turns : SplitIn(turns, kept, chunk, wires)
      BY <2>1, SplitTurns, Zenon
    <2> QED BY <1>1, <2>2, Zenon DEF SplitIn
  <1>3. Good(turns[0], 0)
    <2>1. /\ turns[0].ok = TRUE /\ turns[0].pending = kept
          /\ turns[0].chunk = chunk /\ turns[0].wires = wires
      BY <1>2
    <2>2. At(turns[0], p)
      BY <1>a, <1>0, <2>1, Zenon
    <2>3. p <= p /\ p - p >= 0
      OBVIOUS
    <2> QED BY <2>1, <2>2, <2>3, Zenon
  <1>4. ASSUME NEW n \in Nat, NEW loop, Good(loop, n)
        PROVE  Good(Capture!Piece(loop), n + 1)
    <2>1. CASE ~loop.ok
      <3>1. Capture!Piece(loop) = loop
        BY <2>1, Zenon DEF Capture!Piece
      <3> QED BY <1>4, <2>1, <3>1, Zenon
    <2>2. CASE loop.ok
      <3>1. PICK l \in Nat : p <= l /\ l <= E /\ (l = E \/ l - p >= n) /\ At(loop, l)
        BY <1>4, <2>2, Zenon
      <3>2. CASE l = E
        <4>1. loop.chunk = <<>>
          <5>1. Capture!Bytes(E, E) = <<>>
            BY BytesOf
          <5> QED BY <3>1, <3>2, <5>1, Zenon
        <4>2. Capture!Piece(loop) = loop
          BY <4>1, Zenon DEF Capture!Piece
        <4> QED BY <1>4, <3>1, <3>2, <4>2, Zenon
      <3>3. CASE l # E
        <4>1. l < E /\ o <= l /\ l - p >= n
          BY <3>1, <3>3
        <4>2. /\ Capture!Piece(loop).ok \in BOOLEAN
              /\ Capture!Piece(loop).ok =>
                   \E j \in Nat : /\ l < j /\ j <= E /\ Capture!Piece(loop).chunk = Capture!Bytes(j, E)
                                  /\ Parsed(o, j, Capture!Piece(loop).pending, Capture!Piece(loop).wires)
          BY <2>2, <3>1, <4>1, PieceTaken, Zenon
        <4>3. ASSUME NEW j \in Nat, l < j
              PROVE  p <= j /\ j - p >= n + 1
          BY <3>1, <4>1, <4>3
        <4> QED BY <4>2, <4>3, Zenon
      <3> QED BY <3>2, <3>3
    <2>3. loop.ok \in BOOLEAN
      BY <1>4, Zenon
    <2> QED BY <2>1, <2>2, <2>3, Zenon
  <1> HIDE DEF Good
  <1> DEFINE S == {n \in Nat : n \in 0..most => Good(turns[n], n)}
  <1>5. 0 \in S
    BY <1>3
  <1>6. ASSUME NEW n \in Nat, n \in S
        PROVE  n + 1 \in S
    <2>1. SUFFICES ASSUME n + 1 \in 0..most PROVE Good(turns[n + 1], n + 1)
      OBVIOUS
    <2>2. n \in 0..most /\ n + 1 # 0 /\ (n + 1) - 1 = n
      BY <2>1
    <2>3. turns[n + 1] = Capture!Piece(turns[n])
      BY <1>2, <2>1, <2>2, Zenon
    <2>4. Good(turns[n], n)
      BY <1>6, <2>2
    <2> QED BY <1>4, <2>3, <2>4, Zenon
  <1> HIDE DEF S
  <1>7. \A n \in Nat : n \in S
    BY <1>5, <1>6, FromEachToTheNext
  <1>8. Good(turns[most], most)
    BY <1>7 DEF S
  <1>9. ASSUME turns[most].ok
        PROVE  Parsed(o, E, turns[most].pending, turns[most].wires)
    <2>1. PICK l \in Nat : p <= l /\ l <= E /\ (l = E \/ l - p >= most) /\ At(turns[most], l)
      BY <1>8, <1>9, Zenon DEF Good
    <2>2. l = E
      BY <1>1, <2>1
    <2> QED BY <2>1, <2>2, Zenon
  <1>10. turns[most].ok \in BOOLEAN
    BY <1>8, Zenon DEF Good
  <1> QED BY <1>0, <1>2, <1>9, <1>10, Zenon
-----------------------------------------------------------------------------
\* What waits.

\* A block that waits, seen from position E.
Seen(w, q, E, low, high, a, b) ==
  /\ q = Capture!NumberOf(a) /\ w[q] = Capture!Bytes(a, b) /\ Len(w[q]) = b - a
  /\ Capture!Distance(q, Capture!NumberOf(E)) = a - E
  /\ low < a /\ a < high /\ a < b /\ b - a <= MaxSegment

LEMMA BlockSeen ==
  ASSUME CaptureNames, NEW E \in Nat, NEW low \in Int, NEW high \in Nat, low >= E - MaxSegment,
         high <= E + Reach, NEW w, NEW q, Held(q, w[q], low, high)
  PROVE  \E a, b \in 0..Length : Seen(w, q, E, low, high, a, b)
  <1>0. Modulus \in Nat \ {0} /\ Length \in Nat /\ MaxSegment \in Nat /\ Reach \in Nat
    BY DEF CaptureNames
  <1>1. PICK half \in Nat : half = Modulus \div 2 /\ Reach <= half /\ MaxSegment <= half
    BY <1>0 DEF CaptureNames
  <1>2. PICK a \in 0..Length, b \in 0..Length :
          /\ q = Capture!NumberOf(a) /\ w[q] = Capture!Bytes(a, b)
          /\ low < a /\ a < high /\ a < b /\ b - a <= MaxSegment
    BY Zenon DEF Held
  <1>3. a \in Nat /\ b \in Nat /\ a <= b /\ a - E < half /\ E - a <= half
    BY <1>0, <1>1, <1>2
  <1>4. Capture!Distance(Capture!NumberOf(a), Capture!NumberOf(E)) = a - E
    <2>1. a - E < Modulus \div 2 /\ E - a <= Modulus \div 2
      BY <1>1, <1>3
    <2> QED BY <1>3, <2>1, DistanceOf
  <1>5. Len(Capture!Bytes(a, b)) = b - a
    BY <1>3, BytesFrom
  <1>6. Seen(w, q, E, low, high, a, b)
    BY <1>2, <1>4, <1>5, Zenon DEF Seen
  <1> QED BY <1>6, Zenon

\* Of what waits, what is beyond some position.
LEMMA WaitingBeyond ==
  ASSUME NEW w, NEW low \in Int, NEW high, Waits(w, low, high), NEW left, left \subseteq DOMAIN w, NEW bound \in Int,
         \A r \in left : Held(r, w[r], bound, high)
  PROVE  Waits([r \in left |-> w[r]], bound, high)
  <1>1. IsFiniteSet(left)
    <2>1. IsFiniteSet(DOMAIN w)
      BY DEF Waits
    <2> QED BY <2>1, FS_Subset
  <1>2. PICK v : v = [r \in left |-> w[r]]
    OBVIOUS
  <1>3. DOMAIN v = left /\ \A r \in left : v[r] = w[r]
    BY <1>2
  <1>4. Waits(v, bound, high)
    BY <1>1, <1>3, Zenon DEF Waits
  <1> QED BY <1>2, <1>4

LEMMA NextTaken ==
  ASSUME CaptureNames, NEW E \in Nat, E <= Length, NEW high \in Nat, high <= E + Reach,
         NEW w, Waits(w, E - MaxSegment, high)
  PROVE  LET block == Capture!NextBlock(w, Capture!NumberOf(E))
         IN \E G \in Nat :
              /\ E <= G /\ G <= Length /\ G - E <= MaxSegment /\ block.data = Capture!Bytes(E, G)
              /\ E = G => Waits(block.w, E, high)
              /\ E < G => /\ Waits(block.w, G - MaxSegment, high)
                          /\ Cardinality(DOMAIN block.w) < Cardinality(DOMAIN w)
  <1>0. Length \in Nat /\ MaxSegment \in Nat /\ Reach \in Nat
    BY DEF CaptureNames
  <1>1. PICK low \in Int : low = E - MaxSegment
    BY <1>0
  <1>2. PICK next : next = Capture!NumberOf(E)
    OBVIOUS
  <1>3. PICK d : d = [q \in DOMAIN w |-> Capture!Distance(q, next)]
    OBVIOUS
  <1>4. ASSUME NEW q \in DOMAIN w
        PROVE  \E a, b \in 0..Length : Seen(w, q, E, low, high, a, b) /\ d[q] = a - E
    <2>1. Held(q, w[q], low, high)
      BY <1>1, Zenon DEF Waits
    <2>2. low >= E - MaxSegment
      BY <1>0, <1>1
    <2>3. PICK a \in 0..Length, b \in 0..Length : Seen(w, q, E, low, high, a, b)
      BY <2>1, <2>2, BlockSeen
    <2>4. d[q] = Capture!Distance(q, next)
      BY <1>3
    <2>5. d[q] = a - E
      BY <1>2, <2>3, <2>4, Zenon DEF Seen
    <2> QED BY <2>3, <2>5, Zenon
  <1>5. PICK fresh : fresh = Capture!Fresh(w, next)
    OBVIOUS
  <1>6. \A q : q \in fresh <=> q \in DOMAIN w /\ d[q] <= 0 /\ -d[q] < Len(w[q])
    BY <1>3, <1>5 DEF Capture!Fresh, Capture!Reached
  <1>7. PICK q : q = Capture!Nearest(fresh, next)
    OBVIOUS
  <1>8. PICK left : left = IF fresh = {} THEN DOMAIN w \ Capture!Reached(w, next)
                           ELSE {r \in DOMAIN w : Capture!Distance(r, next) > Capture!Distance(q, next)}
    OBVIOUS
  <1>9. PICK block : block = Capture!NextBlock(w, next)
    OBVIOUS
  <1>10. block = [w |-> [r \in left |-> w[r]],
                  data |-> IF fresh = {} THEN <<>> ELSE Capture!Drop(w[q], -Capture!Distance(q, next))]
    BY <1>5, <1>7, <1>8, <1>9, Zenon DEF Capture!NextBlock
  <1>11. /\ block.w = [r \in left |-> w[r]]
         /\ block.data = IF fresh = {} THEN <<>> ELSE Capture!Drop(w[q], -Capture!Distance(q, next))
    BY <1>10
  <1>12. CASE fresh = {}
    <2>1. \A r : r \in left <=> r \in DOMAIN w /\ ~(d[r] <= 0)
      BY <1>3, <1>8, <1>12 DEF Capture!Reached
    <2>2. ASSUME NEW r \in left
          PROVE  Held(r, w[r], E, high)
      <3>1. PICK a \in 0..Length, b \in 0..Length : Seen(w, r, E, low, high, a, b) /\ d[r] = a - E
        BY <1>4, <2>1, Zenon
      <3>2. E < a
        BY <1>0, <2>1, <3>1
      <3> QED BY <3>1, <3>2, Zenon DEF Seen, Held
    <2>3. Waits(block.w, E, high)
      <3>1. left \subseteq DOMAIN w
        BY <2>1
      <3>2. Waits(w, low, high)
        BY <1>1, Zenon
      <3>3. Waits([r \in left |-> w[r]], E, high)
        BY <2>2, <3>1, <3>2, WaitingBeyond
      <3> QED BY <1>11, <3>3, Zenon
    <2>4. block.data = Capture!Bytes(E, E)
      <3>1. Capture!Bytes(E, E) = <<>>
        BY BytesOf
      <3> QED BY <1>11, <1>12, <3>1, Zenon
    <2>5. E <= E /\ E - E <= MaxSegment /\ ~(E < E)
      BY <1>0
    <2> QED BY <1>2, <1>9, <2>3, <2>4, <2>5, Zenon
  <1>13. CASE fresh # {}
    <2>1. q \in fresh /\ \A r \in fresh : d[q] <= d[r]
      <3>1. \A r \in fresh : d[r] \in Int /\ d[r] >= -MaxSegment
        <4>1. SUFFICES ASSUME NEW r \in fresh PROVE d[r] \in Int /\ d[r] >= -MaxSegment
          OBVIOUS
        <4>2. PICK a \in 0..Length, b \in 0..Length : Seen(w, r, E, low, high, a, b) /\ d[r] = a - E
          BY <1>4, <1>6, Zenon
        <4>3. low < a
          BY <4>2, Zenon DEF Seen
        <4> QED BY <1>0, <1>1, <4>2, <4>3
      <3>2. PICK r0 : r0 \in fresh
        BY <1>13
      <3>3. -MaxSegment \in Int
        BY <1>0
      <3>4. \E s \in fresh : \A r \in fresh : d[s] <= d[r]
        BY <3>1, <3>2, <3>3, NearestIs
      <3>5. \A r \in fresh : d[r] = Capture!Distance(r, next)
        BY <1>3, <1>6
      <3>6. \E s \in fresh : \A r \in fresh : Capture!Distance(s, next) <= Capture!Distance(r, next)
        BY <3>4, <3>5, Zenon
      <3>7. q \in fresh /\ \A r \in fresh : Capture!Distance(q, next) <= Capture!Distance(r, next)
        BY <1>7, <3>6, Zenon DEF Capture!Nearest
      <3> QED BY <3>5, <3>7, Zenon
    <2>2. q \in DOMAIN w /\ d[q] <= 0 /\ -d[q] < Len(w[q])
      BY <1>6, <2>1, Zenon
    <2>3. PICK a \in 0..Length, b \in 0..Length : Seen(w, q, E, low, high, a, b) /\ d[q] = a - E
      BY <1>4, <2>2, Zenon
    <2>4. /\ w[q] = Capture!Bytes(a, b) /\ Len(w[q]) = b - a /\ low < a /\ a < b /\ b - a <= MaxSegment
      BY <2>3, Zenon DEF Seen
    <2>5. a \in Nat /\ b \in Nat /\ a <= E /\ E < b /\ b <= Length /\ b - E <= MaxSegment /\ E <= b
      <3>1. a \in Nat /\ b \in Nat /\ b <= Length
        BY <1>0
      <3>2. a - E <= 0 /\ -(a - E) < b - a
        BY <2>2, <2>3, <2>4, Zenon
      <3> QED BY <1>0, <2>4, <3>1, <3>2
    <2>6. block.data = Capture!Bytes(E, b)
      <3>1. PICK n \in Nat : n = E - a /\ n = -(a - E) /\ a + n = E /\ a + n <= b
        BY <2>5
      <3>2. Capture!Drop(Capture!Bytes(a, b), n) = Capture!Bytes(a + n, b)
        <4>1. a \in Nat /\ b \in Nat /\ a + n <= b
          BY <2>5, <3>1
        <4>2. \A i, j, m \in Nat : i + m <= j => Capture!Drop(Capture!Bytes(i, j), m) = Capture!Bytes(i + m, j)
          BY BytesCut
        <4> QED BY <4>1, <4>2, Zenon
      <3>3. d[q] = Capture!Distance(q, next)
        BY <1>3, <2>2
      <3>4. -Capture!Distance(q, next) = n
        BY <2>3, <3>1, <3>3, Zenon
      <3> QED BY <1>11, <1>13, <2>4, <3>1, <3>2, <3>4, Zenon
    <2>7. \A r : r \in left <=> r \in DOMAIN w /\ d[r] > d[q]
      BY <1>3, <1>8, <1>13, <2>2
    <2>8. PICK bound \in Int : bound = b - MaxSegment /\ bound <= a
      BY <1>0, <2>4, <2>5
    <2>9. ASSUME NEW r \in left
          PROVE  Held(r, w[r], bound, high)
      <3>1. PICK x \in 0..Length, y \in 0..Length : Seen(w, r, E, low, high, x, y) /\ d[r] = x - E
        BY <1>4, <2>7, Zenon
      <3>2. bound < x
        <4>1. x - E > a - E
          BY <2>3, <2>7, <3>1, Zenon
        <4> QED BY <1>0, <2>8, <4>1
      <3> QED BY <3>1, <3>2, Zenon DEF Seen, Held
    <2>10. left \subseteq DOMAIN w /\ q \notin left
      <3>1. ~(d[q] > d[q])
        BY <1>0, <2>3
      <3> QED BY <2>7, <3>1
    <2>11. Waits(block.w, b - MaxSegment, high)
      <3>1. Waits(w, low, high)
        BY <1>1, Zenon
      <3>2. Waits([r \in left |-> w[r]], bound, high)
        BY <2>9, <2>10, <3>1, WaitingBeyond
      <3> QED BY <1>11, <2>8, <3>2, Zenon
    <2>12. Cardinality(DOMAIN block.w) < Cardinality(DOMAIN w)
      <3>1. IsFiniteSet(DOMAIN w)
        BY Zenon DEF Waits
      <3>2. /\ IsFiniteSet(DOMAIN w \ {q}) /\ Cardinality(DOMAIN w \ {q}) = Cardinality(DOMAIN w) - 1
        BY <2>2, <3>1, FS_RemoveElement
      <3>3. Cardinality(DOMAIN w) \in Nat /\ IsFiniteSet(left) /\ Cardinality(left) \in Nat
        BY <2>10, <3>1, FS_Subset, FS_CardinalityType
      <3>4. left \subseteq DOMAIN w \ {q}
        BY <2>10
      <3>5. Cardinality(left) <= Cardinality(DOMAIN w \ {q})
        BY <3>2, <3>4, FS_Subset
      <3>6. DOMAIN block.w = left
        BY <1>11
      <3>7. Cardinality(left) < Cardinality(DOMAIN w)
        BY <3>2, <3>3, <3>5
      <3> QED BY <3>6, <3>7, Zenon
    <2>13. E # b
      BY <2>5
    <2> QED BY <1>2, <1>9, <2>5, <2>6, <2>11, <2>12, <2>13, Zenon
  <1> QED BY <1>12, <1>13
-----------------------------------------------------------------------------
\* The loop over what waits.

\* A stream at position p, with data that ends at F: more than N blocks cannot wait.
Feeding(loop, o, p, F, high, N) ==
  LET s == loop.stream
  IN /\ o <= p /\ p <= F /\ F <= Length /\ F - p <= MaxSegment /\ high <= p + Reach
     /\ loop.data = Capture!Bytes(p, F)
     /\ s.origin = o /\ s.expected = Capture!NumberOf(p) /\ s.taken = Capture!Bytes(o, p)
     /\ Parsed(o, p, s.buffer, s.frames)
     /\ p = F => Waits(s.waiting, p, high)
     /\ p < F => Waits(s.waiting, F - MaxSegment, high) /\ Cardinality(DOMAIN s.waiting) <= N
Fed(loop, o, high, N) ==
  /\ loop.stream.ok \in BOOLEAN
  /\ loop.stream.ok => \E p, F \in Nat : Feeding(loop, o, p, F, high, N)

LEMMA TurnTaken ==
  ASSUME CaptureNames, NEW o \in Nat, NEW high \in Nat, NEW N \in Int, NEW loop, Fed(loop, o, high, N)
  PROVE  Fed(Capture!Turn(loop), o, high, N - 1)
         \/ /\ Capture!Turn(loop) = loop
            /\ loop.stream.ok => \E p \in Nat : Feeding(loop, o, p, p, high, N)
  <1>0. Length \in Nat /\ MaxSegment \in Nat /\ Reach \in Nat
    BY DEF CaptureNames
  <1>1. PICK s : s = loop.stream
    OBVIOUS
  <1>2. CASE ~s.ok
    <2>1. Capture!Turn(loop) = loop
      BY <1>1, <1>2, Zenon DEF Capture!Turn
    <2> QED BY <1>1, <1>2, <2>1
  <1>3. CASE s.ok
    <2>1. PICK p \in Nat, F \in Nat : Feeding(loop, o, p, F, high, N)
      BY <1>1, <1>3, Zenon DEF Fed
    <2>2. /\ o <= p /\ p <= F /\ F <= Length /\ F - p <= MaxSegment /\ high <= p + Reach
          /\ loop.data = Capture!Bytes(p, F)
          /\ s.origin = o /\ s.expected = Capture!NumberOf(p) /\ s.taken = Capture!Bytes(o, p)
          /\ Parsed(o, p, s.buffer, s.frames)
          /\ p < F => Waits(s.waiting, F - MaxSegment, high) /\ Cardinality(DOMAIN s.waiting) <= N
      BY <1>1, <2>1, Zenon DEF Feeding
    <2>3. CASE p = F
      <3>1. Capture!Bytes(p, p) = <<>>
        BY BytesOf
      <3>2. loop.data = <<>>
        BY <2>2, <2>3, <3>1, Zenon
      <3>3. Capture!Turn(loop) = loop
        BY <3>2, Zenon DEF Capture!Turn
      <3> QED BY <2>1, <2>3, <3>3, Zenon
    <2>4. CASE p # F
      <3>1. p < F /\ high <= F + Reach /\ o <= F
        BY <1>0, <2>2, <2>4
      <3>2. loop.data # <<>> /\ Len(loop.data) = F - p
        <4>1. Capture!Bytes(p, F) # <<>> /\ Len(Capture!Bytes(p, F)) = F - p
          BY <2>2, <3>1, BytesFrom
        <4> QED BY <2>2, <4>1, Zenon
      <3>3. PICK next : next = (s.expected + Len(loop.data)) % Modulus /\ next = Capture!NumberOf(F)
        <4>1. PICK n \in Nat : n = F - p /\ p + n = F
          BY <3>1
        <4>2. (Capture!NumberOf(p) + n) % Modulus = Capture!NumberOf(p + n)
          BY NumberBehind
        <4>3. (s.expected + Len(loop.data)) % Modulus = Capture!NumberOf(F)
          BY <2>2, <3>2, <4>1, <4>2, Zenon
        <4> QED BY <4>3, Zenon
      <3>4. PICK got : got = Capture!Split(s.buffer, loop.data, s.frames)
        OBVIOUS
      <3>5. PICK block : block = Capture!NextBlock(s.waiting, next)
        OBVIOUS
      <3>6. Capture!Turn(loop) =
              [data |-> block.data,
               stream |-> [ok |-> got.ok, origin |-> s.origin, expected |-> next, waiting |-> block.w,
                           buffer |-> got.pending, taken |-> s.taken \o loop.data, frames |-> got.wires]]
        BY <1>1, <1>3, <3>2, <3>3, <3>4, <3>5, Zenon DEF Capture!Turn
      <3>7. got.ok \in BOOLEAN /\ (got.ok => Parsed(o, F, got.pending, got.wires))
        <4>1. F <= Length /\ o <= p /\ p <= F /\ Parsed(o, p, s.buffer, s.frames)
          BY <2>2, Zenon
        <4>2. PICK kept, wires : kept = s.buffer /\ wires = s.frames
          OBVIOUS
        <4>3. PICK g : g = Capture!Split(kept, Capture!Bytes(p, F), wires)
          OBVIOUS
        <4>4. Parsed(o, p, kept, wires)
          BY <4>1, <4>2, Zenon
        <4>5. g.ok \in BOOLEAN /\ (g.ok => Parsed(o, F, g.pending, g.wires))
          BY <4>1, <4>3, <4>4, SplitTaken, Zenon
        <4>6. got = g
          BY <2>2, <3>4, <4>2, <4>3, Zenon
        <4> QED BY <4>5, <4>6, Zenon
      <3>8. PICK G \in Nat :
              /\ F <= G /\ G <= Length /\ G - F <= MaxSegment /\ block.data = Capture!Bytes(F, G)
              /\ F = G => Waits(block.w, F, high)
              /\ F < G => /\ Waits(block.w, G - MaxSegment, high)
                          /\ Cardinality(DOMAIN block.w) < Cardinality(DOMAIN s.waiting)
        <4>1. PICK w : w = s.waiting
          OBVIOUS
        <4>2. block = Capture!NextBlock(w, Capture!NumberOf(F))
          BY <3>3, <3>5, <4>1, Zenon
        <4>3. Waits(w, F - MaxSegment, high) /\ F <= Length /\ high <= F + Reach
          BY <2>2, <3>1, <4>1, Zenon
        <4>4. LET next_block == Capture!NextBlock(w, Capture!NumberOf(F))
              IN \E G \in Nat :
                   /\ F <= G /\ G <= Length /\ G - F <= MaxSegment /\ next_block.data = Capture!Bytes(F, G)
                   /\ F = G => Waits(next_block.w, F, high)
                   /\ F < G => /\ Waits(next_block.w, G - MaxSegment, high)
                               /\ Cardinality(DOMAIN next_block.w) < Cardinality(DOMAIN w)
          BY <4>3, NextTaken, Zenon
        <4> QED BY <4>1, <4>2, <4>4, Zenon
      <3>9. s.taken \o loop.data = Capture!Bytes(o, F)
        <4>1. Capture!Bytes(o, p) \o Capture!Bytes(p, F) = Capture!Bytes(o, F)
          BY <2>2, BytesJoined, Zenon
        <4> QED BY <2>2, <4>1, Zenon
      <3>10. F < G => Cardinality(DOMAIN block.w) <= N - 1
        <4>1. SUFFICES ASSUME F < G PROVE Cardinality(DOMAIN block.w) <= N - 1
          OBVIOUS
        <4>2. PICK i, j : i = Cardinality(DOMAIN block.w) /\ j = Cardinality(DOMAIN s.waiting)
          OBVIOUS
        <4>3. i < j /\ j <= N
          BY <2>2, <3>1, <3>8, <4>1, <4>2, Zenon
        <4>4. i \in Nat /\ j \in Nat
          <5>1. IsFiniteSet(DOMAIN block.w) /\ IsFiniteSet(DOMAIN s.waiting)
            BY <2>2, <3>1, <3>8, <4>1, Zenon DEF Waits
          <5> QED BY <4>2, <5>1, FS_CardinalityType
        <4> QED BY <4>2, <4>3, <4>4
      <3>11. PICK t : t = Capture!Turn(loop)
        OBVIOUS
      <3>12. /\ t.data = block.data /\ t.stream.ok = got.ok /\ t.stream.origin = s.origin
             /\ t.stream.expected = next /\ t.stream.waiting = block.w /\ t.stream.buffer = got.pending
             /\ t.stream.taken = s.taken \o loop.data /\ t.stream.frames = got.wires
        <4>1. /\ t.data = block.data
              /\ t.stream = [ok |-> got.ok, origin |-> s.origin, expected |-> next, waiting |-> block.w,
                             buffer |-> got.pending, taken |-> s.taken \o loop.data, frames |-> got.wires]
          <5>1. PICK u : u = [ok |-> got.ok, origin |-> s.origin, expected |-> next, waiting |-> block.w,
                              buffer |-> got.pending, taken |-> s.taken \o loop.data, frames |-> got.wires]
            OBVIOUS
          <5>2. t = [data |-> block.data, stream |-> u]
            BY <3>6, <3>11, <5>1, Zenon
          <5>3. t.data = block.data /\ t.stream = u
            BY <5>2
          <5> QED BY <5>1, <5>3, Zenon
        <4>2. PICK taken_now : taken_now = s.taken \o loop.data
          OBVIOUS
        <4>3. t.stream = [ok |-> got.ok, origin |-> s.origin, expected |-> next, waiting |-> block.w,
                          buffer |-> got.pending, taken |-> taken_now, frames |-> got.wires]
          BY <4>1, <4>2, Zenon
        <4>4. /\ t.stream.ok = got.ok /\ t.stream.origin = s.origin
              /\ t.stream.expected = next /\ t.stream.waiting = block.w /\ t.stream.buffer = got.pending
              /\ t.stream.taken = taken_now /\ t.stream.frames = got.wires
          BY <4>3
        <4> QED BY <4>1, <4>2, <4>4, Zenon
      <3>13. got.ok => Feeding(t, o, F, G, high, N - 1)
        BY <2>2, <3>1, <3>3, <3>7, <3>8, <3>9, <3>10, <3>12, Zenon DEF Feeding
      <3>14. Fed(t, o, high, N - 1)
        BY <3>7, <3>12, <3>13, Zenon DEF Fed
      <3> QED BY <3>11, <3>14, Zenon
    <2> QED BY <2>3, <2>4
  <1>4. s.ok \in BOOLEAN
    BY <1>1, Zenon DEF Fed
  <1> QED BY <1>2, <1>3, <1>4

StreamAt(s, p) ==
  /\ s.ok = TRUE /\ s.origin \in 0..p /\ s.expected = Capture!NumberOf(p)
  /\ s.taken = Capture!Bytes(s.origin, p) /\ Parsed(s.origin, p, s.buffer, s.frames)
  /\ Waits(s.waiting, p, p + Reach)
GoneOn(after, o) ==
  after.ok => \E q \in Nat :
    /\ o <= q /\ q <= Length /\ after.origin = o /\ after.expected = Capture!NumberOf(q)
    /\ after.taken = Capture!Bytes(o, q) /\ Parsed(o, q, after.buffer, after.frames)
    /\ Waits(after.waiting, q, q + Reach)

\* All turns: nothing is left that the stream has reached.
LEMMA ConsumeTaken ==
  ASSUME CaptureNames, NEW p \in Nat, NEW F \in Nat, p <= F, F <= Length, F - p <= MaxSegment, NEW s
  PROVE  StreamAt(s, p) => GoneOn(Capture!Consume(Capture!Bytes(p, F), s), s.origin)
  <1>b. SUFFICES ASSUME StreamAt(s, p)
                 PROVE  GoneOn(Capture!Consume(Capture!Bytes(p, F), s), s.origin)
    BY Zenon
  <1>c. PICK o : o = s.origin
    OBVIOUS
  <1>a. /\ s.ok = TRUE /\ s.origin = o /\ o \in Nat /\ o <= p /\ s.expected = Capture!NumberOf(p)
        /\ s.taken = Capture!Bytes(o, p) /\ Parsed(o, p, s.buffer, s.frames)
        /\ Waits(s.waiting, p, p + Reach)
    <2>1. /\ s.ok = TRUE /\ o \in 0..p /\ s.expected = Capture!NumberOf(p)
          /\ s.taken = Capture!Bytes(o, p) /\ Parsed(o, p, s.buffer, s.frames)
          /\ Waits(s.waiting, p, p + Reach)
      BY <1>b, <1>c, Zenon DEF StreamAt
    <2>2. o \in Nat /\ o <= p
      BY <2>1
    <2> QED BY <1>c, <2>1, <2>2, Zenon
  <1>0. Length \in Nat /\ MaxSegment \in Nat /\ Reach \in Nat
    BY DEF CaptureNames
  <1>1. PICK data : data = Capture!Bytes(p, F)
    OBVIOUS
  <1>2. PICK N \in Nat : N = Cardinality(DOMAIN s.waiting)
    <2>1. IsFiniteSet(DOMAIN s.waiting)
      BY <1>a, Zenon DEF Waits
    <2> QED BY <2>1, FS_CardinalityType
  <1>3. PICK most \in Nat : most = N + 1
    OBVIOUS
  <1>4. PICK high \in Nat : high = p + Reach
    BY <1>0
  <1>5. PICK turns :
          /\ turns[0].data = data /\ turns[0].stream = s
          /\ \A n \in 0..most : n # 0 => turns[n] = Capture!Turn(turns[n - 1])
          /\ Capture!Consume(data, s) = turns[most].stream
    <2>1. PICK turns : ConsumedIn(turns, most, data, s)
      BY <1>2, <1>3, ConsumeTurns, Zenon
    <2> QED BY <2>1, Zenon DEF ConsumedIn
  <1>6. Fed(turns[0], o, high, N)
    <2>1. PICK t : t = turns[0]
      OBVIOUS
    <2>2. t.data = data /\ t.stream = s
      BY <1>5, <2>1, Zenon
    <2>3. Waits(s.waiting, F - MaxSegment, high)
      <3>1. F - MaxSegment <= p /\ F - MaxSegment \in Int
        BY <1>0
      <3>2. ASSUME NEW q \in DOMAIN s.waiting
            PROVE  Held(q, s.waiting[q], F - MaxSegment, high)
        <4>1. Held(q, s.waiting[q], p, high)
          BY <1>a, <1>4, Zenon DEF Waits
        <4>2. PICK a \in 0..Length, b \in 0..Length :
                /\ q = Capture!NumberOf(a) /\ s.waiting[q] = Capture!Bytes(a, b)
                /\ p < a /\ a < high /\ a < b /\ b - a <= MaxSegment
          BY <4>1, Zenon DEF Held
        <4>3. F - MaxSegment < a
          BY <1>0, <3>1, <4>2
        <4> QED BY <4>2, <4>3, Zenon DEF Held
      <3>3. IsFiniteSet(DOMAIN s.waiting)
        BY <1>a, Zenon DEF Waits
      <3> QED BY <3>2, <3>3, Zenon DEF Waits
    <2>4. Waits(s.waiting, p, high)
      BY <1>a, <1>4, Zenon
    <2>5. high <= p + Reach /\ N <= N
      BY <1>0, <1>4
    <2>6. Feeding(t, o, p, F, high, N)
      BY <1>a, <1>1, <1>2, <2>2, <2>3, <2>4, <2>5, Zenon DEF Feeding
    <2>7. Fed(t, o, high, N)
      BY <1>a, <2>2, <2>6, Zenon DEF Fed
    <2> QED BY <2>1, <2>7, Zenon
  <1> DEFINE Emptied(loop) == /\ Capture!Turn(loop) = loop
                              /\ loop.stream.ok => \E q \in Nat : Feeding(loop, o, q, q, high, N)
             S == {n \in Nat : n \in 0..most => Fed(turns[n], o, high, N - n) \/ Emptied(turns[n])}
  <1>7. 0 \in S
    <2>1. N - 0 = N
      OBVIOUS
    <2> QED BY <1>6, <2>1
  <1>8. ASSUME NEW n \in Nat, n \in S
        PROVE  n + 1 \in S
    <2>1. SUFFICES ASSUME n + 1 \in 0..most
                   PROVE  Fed(turns[n + 1], o, high, N - (n + 1)) \/ Emptied(turns[n + 1])
      OBVIOUS
    <2>2. n \in 0..most /\ n + 1 # 0 /\ (n + 1) - 1 = n /\ N - (n + 1) = (N - n) - 1 /\ N - n \in Int /\ N - n <= N
      BY <2>1
    <2>3. turns[n + 1] = Capture!Turn(turns[n])
      BY <1>5, <2>1, <2>2, Zenon
    <2>4. Fed(turns[n], o, high, N - n) \/ Emptied(turns[n])
      BY <1>8, <2>2
    <2>5. CASE Emptied(turns[n])
      BY <2>3, <2>5, Zenon
    <2>6. CASE Fed(turns[n], o, high, N - n)
      <3>0. PICK left \in Int : left = N - n /\ left <= N
        BY <2>2
      <3>1. PICK loop : loop = turns[n] /\ left = N - n /\ left <= N
        BY <3>0, Zenon
      <3>2. Fed(loop, o, high, left)
        BY <2>6, <3>1, Zenon
      <3>3. \/ Fed(Capture!Turn(loop), o, high, left - 1)
            \/ /\ Capture!Turn(loop) = loop
               /\ loop.stream.ok => \E q \in Nat : Feeding(loop, o, q, q, high, left)
        BY <1>a, <3>2, TurnTaken, Zenon
      <3>4. ASSUME NEW q \in Nat, Feeding(loop, o, q, q, high, left)
            PROVE  Feeding(loop, o, q, q, high, N)
        <4>1. ~(q < q)
          OBVIOUS
        <4> QED BY <3>4, <4>1, Zenon DEF Feeding
      <3> QED BY <2>2, <2>3, <3>1, <3>3, <3>4, Zenon
    <2> QED BY <2>4, <2>5, <2>6
  <1> HIDE DEF S
  <1>9. \A n \in Nat : n \in S
    BY <1>7, <1>8, FromEachToTheNext
  <1>10. Fed(turns[most], o, high, N - most) \/ Emptied(turns[most])
    BY <1>9 DEF S
  <1> HIDE DEF Emptied
  <1>11. PICK after : after = turns[most].stream
    OBVIOUS
  <1>12. ASSUME after.ok
         PROVE  \E q \in Nat : Feeding(turns[most], o, q, q, high, N)
    <2>1. CASE Emptied(turns[most])
      BY <1>11, <1>12, <2>1, Zenon DEF Emptied
    <2>2. CASE Fed(turns[most], o, high, N - most)
      <3>1. PICK q \in Nat, G \in Nat : Feeding(turns[most], o, q, G, high, N - most)
        BY <1>11, <1>12, <2>2, Zenon DEF Fed
      <3>2. q <= G /\ (q < G => Cardinality(DOMAIN after.waiting) <= N - most /\ Waits(after.waiting, G - MaxSegment, high))
        BY <1>11, <3>1, Zenon DEF Feeding
      <3>3. ~(q < G)
        <4>1. SUFFICES ASSUME q < G PROVE FALSE
          OBVIOUS
        <4>2. PICK i : i = Cardinality(DOMAIN after.waiting)
          OBVIOUS
        <4>3. IsFiniteSet(DOMAIN after.waiting) /\ i <= N - most
          BY <3>2, <4>1, <4>2, Zenon DEF Waits
        <4>4. i \in Nat
          BY <4>2, <4>3, FS_CardinalityType
        <4> QED BY <1>3, <4>3, <4>4
      <3>4. q = G
        BY <3>2, <3>3
      <3>5. ~(q < q)
        OBVIOUS
      <3>6. Feeding(turns[most], o, q, q, high, N)
        BY <3>1, <3>4, <3>5, Zenon DEF Feeding
      <3> QED BY <3>6, Zenon
    <2> QED BY <1>10, <2>1, <2>2
  <1>13. ASSUME NEW q \in Nat, Feeding(turns[most], o, q, q, high, N)
         PROVE  /\ o <= q /\ q <= Length /\ after.origin = o /\ after.expected = Capture!NumberOf(q)
                /\ after.taken = Capture!Bytes(o, q) /\ Parsed(o, q, after.buffer, after.frames)
                /\ Waits(after.waiting, q, q + Reach)
    <2>1. /\ o <= q /\ q <= Length /\ high <= q + Reach
          /\ after.origin = o /\ after.expected = Capture!NumberOf(q)
          /\ after.taken = Capture!Bytes(o, q) /\ Parsed(o, q, after.buffer, after.frames)
          /\ Waits(after.waiting, q, high)
      BY <1>11, <1>13, Zenon DEF Feeding
    <2>2. Waits(after.waiting, q, q + Reach)
      <3>1. ASSUME NEW r \in DOMAIN after.waiting
            PROVE  Held(r, after.waiting[r], q, q + Reach)
        <4>1. PICK a \in 0..Length, b \in 0..Length :
                /\ r = Capture!NumberOf(a) /\ after.waiting[r] = Capture!Bytes(a, b)
                /\ q < a /\ a < high /\ a < b /\ b - a <= MaxSegment
          BY <2>1, Zenon DEF Waits, Held
        <4>2. a < q + Reach
          BY <1>0, <2>1, <4>1
        <4> QED BY <4>1, <4>2, Zenon DEF Held
      <3>2. IsFiniteSet(DOMAIN after.waiting)
        BY <2>1, Zenon DEF Waits
      <3> QED BY <3>1, <3>2, Zenon DEF Waits
    <2> QED BY <2>1, <2>2, Zenon
  <1>14. Capture!Consume(Capture!Bytes(p, F), s) = after
    BY <1>1, <1>5, <1>11, Zenon
  <1> QED BY <1>c, <1>12, <1>13, <1>14, Zenon DEF GoneOn

-----------------------------------------------------------------------------
\* A stream begins well.
LEMMA StreamBegins ==
  ASSUME CaptureNames, NEW p \in 0..Length, NEW s, s.ok = TRUE, s.origin = p, s.expected = Capture!NumberOf(p),
         s.waiting = <<>>, s.buffer = <<>>, s.taken = <<>>, s.frames = <<>>
  PROVE  StreamAt(s, p)
  <1>1. p \in Nat /\ p \in 0..p /\ p <= p /\ ~(p < p)
    BY DEF CaptureNames
  <1>2. Capture!Bytes(p, p) = <<>>
    BY <1>1, BytesOf
  <1>3. Whole(<<>>, p, p)
    <2>1. ASSUME NEW x, x \in Capture!Between(p, p)
          PROVE  FALSE
      <3>1. PICK t \in Starts : p <= t /\ t + Size[t] <= p
        BY <2>1, FramesBetween
      <3>2. t \in Nat /\ Size[t] \in Nat /\ Size[t] > 0
        BY FrameAt
      <3> QED BY <1>1, <3>1, <3>2
    <2>2. /\ <<>> \in Seq(Seq(Nat)) /\ Len(<<>>) = 0
          /\ \A k \in 1..0 : FALSE
      OBVIOUS
    <2>3. {<<>>[k] : k \in 1..0} = {}
      BY <2>2, Zenon
    <2>4. Capture!Between(p, p) = {}
      BY <2>1, Zenon
    <2> QED BY <2>2, <2>3, <2>4, Zenon DEF Whole
  <1>4. Parsed(p, p, <<>>, <<>>)
    BY <1>1, <1>2, <1>3, Zenon DEF Parsed
  <1>5. Waits(<<>>, p, p + Reach)
    <2>1. DOMAIN <<>> = {}
      OBVIOUS
    <2>2. IsFiniteSet({})
      BY FS_EmptySet
    <2> QED BY <2>1, <2>2, Zenon DEF Waits
  <1> QED BY <1>1, <1>2, <1>4, <1>5, Zenon DEF StreamAt

\* A block more waits.
LEMMA OneWaits ==
  ASSUME CaptureNames, NEW p \in Nat, NEW high, NEW w, Waits(w, p, high), NEW a \in 0..Length, NEW b \in 0..Length,
         p < a, a < high, a < b, b - a <= MaxSegment
  PROVE  Waits(Capture!Awaited(w, Capture!NumberOf(a), Capture!Bytes(a, b)), p, high)
  <1>1. PICK q : q = Capture!NumberOf(a)
    OBVIOUS
  <1>2. PICK data : data = Capture!Bytes(a, b)
    OBVIOUS
  <1>3. PICK v : v = Capture!Awaited(w, q, data)
    OBVIOUS
  <1>4. DOMAIN v = DOMAIN w \cup {q} /\ \A r \in DOMAIN v : v[r] = IF r \in DOMAIN w THEN w[r] ELSE data
    BY <1>3 DEF Capture!Awaited
  <1>5. IsFiniteSet(DOMAIN v)
    <2>1. IsFiniteSet(DOMAIN w)
      BY Zenon DEF Waits
    <2>2. IsFiniteSet(DOMAIN w \cup {q})
      BY <2>1, FS_AddElement
    <2> QED BY <1>4, <2>2, Zenon
  <1>6. ASSUME NEW r \in DOMAIN v
        PROVE  Held(r, v[r], p, high)
    <2>1. CASE r \in DOMAIN w
      <3>1. Held(r, w[r], p, high) /\ v[r] = w[r]
        BY <1>4, <2>1, Zenon DEF Waits
      <3> QED BY <3>1, Zenon
    <2>2. CASE r \notin DOMAIN w
      <3>1. r = q /\ v[r] = data
        BY <1>4, <2>2, Zenon
      <3> QED BY <1>1, <1>2, <3>1, Zenon DEF Held
    <2> QED BY <2>1, <2>2
  <1>7. Waits(v, p, high)
    BY <1>5, <1>6, Zenon DEF Waits
  <1> QED BY <1>1, <1>2, <1>3, <1>7, Zenon

\* A segment seen by a stream at position p.
LEMMA SegmentSeen ==
  ASSUME CaptureNames, NEW p \in 0..Length, NEW a \in 0..Length, NEW b \in 0..Length, a <= b, b - a <= MaxSegment,
         a < p + Reach, p < a + Reach, NEW syn, NEW fin, StreamAt(Capture!Stream(a, syn), p),
         Capture!See(a, b, syn, fin)
  PROVE  CaptureInvariant'
  <1>0. Length \in Nat /\ MaxSegment \in Nat /\ Reach \in Nat \ {0} /\ a \in Nat /\ b \in Nat /\ p \in Nat
    BY DEF CaptureNames
  <1>1. PICK s : s = Capture!Stream(a, syn)
    OBVIOUS
  <1>2. PICK o : o = s.origin
    OBVIOUS
  <1>3. /\ s.ok = TRUE /\ s.origin = o /\ o \in 0..p /\ s.expected = Capture!NumberOf(p)
        /\ s.taken = Capture!Bytes(o, p) /\ Parsed(o, p, s.buffer, s.frames)
        /\ Waits(s.waiting, p, p + Reach)
    BY <1>1, <1>2, Zenon DEF StreamAt
  <1>4. o \in Nat /\ o <= p
    BY <1>0, <1>3
  <1>5. PICK distance : distance = Capture!Distance(Capture!NumberOf(a), s.expected)
    OBVIOUS
  <1>6. distance = a - p
    <2>1. PICK half \in Nat : half = Modulus \div 2 /\ Reach <= half
      BY DEF CaptureNames
    <2>2. a - p < Modulus \div 2 /\ p - a <= Modulus \div 2
      BY <1>0, <2>1
    <2>3. Capture!Distance(Capture!NumberOf(a), Capture!NumberOf(p)) = a - p
      BY <1>0, <2>2, DistanceOf
    <2> QED BY <1>3, <1>5, <2>3, Zenon
  <1>7. PICK data : data = Capture!Bytes(a, b)
    OBVIOUS
  <1>8. PICK fresh : fresh = IF distance >= 0 THEN data
                             ELSE IF -distance < b - a THEN Capture!Drop(data, -distance) ELSE <<>>
    OBVIOUS
  <1>9. PICK after : after = Capture!Consume(fresh, s)
    OBVIOUS
  <1>10. IF distance > 0
           THEN IF Capture!Cardinality(DOMAIN s.waiting) >= MaxWaiting THEN Capture!Forgotten
                ELSE Capture!Become(IF data = <<>> THEN s
                                    ELSE [s EXCEPT !.waiting = Capture!Awaited(@, Capture!NumberOf(a), data)],
                                    s.origin)
           ELSE IF after.ok /\ ~fin THEN Capture!Become(after, s.origin) ELSE Capture!Forgotten
    BY <1>1, <1>5, <1>7, <1>8, <1>9, Zenon DEF Capture!See
  <1>11. CASE Capture!Forgotten
    BY <1>11 DEF Capture!Forgotten, CaptureInvariant
  <1>12. ASSUME NEW t, NEW q \in Nat, o <= q, q <= Length, Capture!Become(t, o), t.expected = Capture!NumberOf(q),
                t.taken = Capture!Bytes(o, q), Parsed(o, q, t.buffer, t.frames), Waits(t.waiting, q, q + Reach)
         PROVE  CaptureInvariant'
    <2>1. /\ origin' = o /\ expected' = t.expected /\ waiting' = t.waiting
          /\ buffer' = t.buffer /\ taken' = t.taken /\ frames' = t.frames
      BY <1>12, Zenon DEF Capture!Become
    <2>2. q \in 0..Length /\ o \in 0..q
      BY <1>0, <1>4, <1>12
    <2> QED BY <1>12, <2>1, <2>2, Zenon DEF CaptureInvariant
  <1>13. CASE distance > 0 /\ ~Capture!Forgotten
    <2>1. PICK t : /\ Capture!Become(t, o)
                   /\ t = IF data = <<>> THEN s
                          ELSE [s EXCEPT !.waiting = Capture!Awaited(@, Capture!NumberOf(a), data)]
      BY <1>3, <1>10, <1>13, Zenon
    <2>2. p < a
      BY <1>0, <1>6, <1>13
    <2>3. CASE data = <<>>
      <3>1. t = s
        BY <2>1, <2>3, Zenon
      <3>2. p <= Length
        BY <1>0
      <3> QED BY <1>0, <1>3, <1>4, <1>12, <2>1, <3>1, <3>2, Zenon
    <2>4. CASE data # <<>>
      <3>1. a < b
        <4>1. Capture!Bytes(a, a) = <<>>
          BY <1>0, BytesOf
        <4>2. a # b
          BY <1>7, <2>4, <4>1, Zenon
        <4> QED BY <1>0, <4>2
      <3>2. Waits(Capture!Awaited(s.waiting, Capture!NumberOf(a), Capture!Bytes(a, b)), p, p + Reach)
        BY <1>0, <1>3, <2>2, <3>1, OneWaits, Zenon
      <3>3. t = [s EXCEPT !.waiting = Capture!Awaited(@, Capture!NumberOf(a), data)]
        BY <2>1, <2>4, Zenon
      <3>4. PICK w : w = Capture!Awaited(s.waiting, Capture!NumberOf(a), data)
        OBVIOUS
      <3>5. t = [s EXCEPT !.waiting = w]
        BY <3>3, <3>4, Zenon
      <3>6. DOMAIN s = {"ok", "origin", "expected", "waiting", "buffer", "taken", "frames"}
        BY <1>1 DEF Capture!Stream
      <3>7. /\ t.expected = s.expected /\ t.taken = s.taken /\ t.buffer = s.buffer /\ t.frames = s.frames
            /\ t.waiting = w
        BY <3>5, <3>6
      <3>8. p <= Length
        BY <1>0
      <3>9. /\ t.expected = Capture!NumberOf(p) /\ t.taken = Capture!Bytes(o, p)
            /\ Parsed(o, p, t.buffer, t.frames) /\ Waits(t.waiting, p, p + Reach)
        BY <1>3, <1>7, <3>2, <3>4, <3>7, Zenon
      <3> QED BY <1>0, <1>4, <1>12, <2>1, <3>8, <3>9, Zenon
    <2> QED BY <2>3, <2>4
  <1>14. CASE ~(distance > 0) /\ ~Capture!Forgotten
    <2>1. after.ok /\ Capture!Become(after, o)
      BY <1>3, <1>10, <1>14, Zenon
    <2>2. a <= p
      BY <1>0, <1>6, <1>14
    <2>3. PICK F \in Nat : p <= F /\ F <= Length /\ F - p <= MaxSegment /\ fresh = Capture!Bytes(p, F)
      <3>1. CASE a = p
        <4>1. distance >= 0
          BY <1>0, <1>6, <3>1
        <4>2. fresh = Capture!Bytes(p, b)
          BY <1>7, <1>8, <3>1, <4>1, Zenon
        <4>3. p <= b /\ b <= Length /\ b - p <= MaxSegment
          BY <1>0, <3>1
        <4> QED BY <1>0, <4>2, <4>3, Zenon
      <3>2. CASE a # p /\ p < b
        <4>1. PICK n \in Nat : n = p - a /\ n = -distance /\ a + n = p /\ a + n <= b
          BY <1>0, <1>6, <2>2, <3>2
        <4>2. ~(distance >= 0) /\ -distance < b - a
          BY <1>0, <1>6, <2>2, <3>2
        <4>3. Capture!Drop(Capture!Bytes(a, b), n) = Capture!Bytes(a + n, b)
          <5>1. \A i, j, m \in Nat : i + m <= j => Capture!Drop(Capture!Bytes(i, j), m) = Capture!Bytes(i + m, j)
            BY BytesCut
          <5> QED BY <1>0, <4>1, <5>1, Zenon
        <4>4. fresh = Capture!Bytes(p, b)
          BY <1>7, <1>8, <4>1, <4>2, <4>3, Zenon
        <4>5. p <= b /\ b <= Length /\ b - p <= MaxSegment
          BY <1>0, <2>2, <3>2
        <4> QED BY <1>0, <4>4, <4>5, Zenon
      <3>3. CASE a # p /\ ~(p < b)
        <4>1. ~(distance >= 0) /\ ~(-distance < b - a)
          BY <1>0, <1>6, <2>2, <3>3
        <4>2. Capture!Bytes(p, p) = <<>>
          BY <1>0, BytesOf
        <4>3. fresh = Capture!Bytes(p, p)
          BY <1>8, <4>1, <4>2, Zenon
        <4>4. p <= p /\ p <= Length /\ p - p <= MaxSegment
          BY <1>0
        <4> QED BY <1>0, <4>3, <4>4, Zenon
      <3> QED BY <3>1, <3>2, <3>3
    <2>4. after = Capture!Consume(Capture!Bytes(p, F), s)
      BY <1>9, <2>3, Zenon
    <2>5. \E q \in Nat :
            /\ o <= q /\ q <= Length /\ after.origin = o /\ after.expected = Capture!NumberOf(q)
            /\ after.taken = Capture!Bytes(o, q) /\ Parsed(o, q, after.buffer, after.frames)
            /\ Waits(after.waiting, q, q + Reach)
      <3>1. p <= F /\ F <= Length /\ F - p <= MaxSegment
        BY <2>3, Zenon
      <3>2. GoneOn(Capture!Consume(Capture!Bytes(p, F), s), s.origin)
        BY <1>0, <1>1, <3>1, ConsumeTaken, Zenon
      <3> QED BY <1>3, <2>1, <2>4, <3>2, Zenon DEF GoneOn
    <2> QED BY <1>12, <2>1, <2>5, Zenon
  <1> QED BY <1>11, <1>13, <1>14

LEMMA StreamKept ==
  ASSUME CaptureNames, tracked, NEW p \in 0..Length, origin \in 0..p, taken = Capture!Bytes(origin, p),
         expected = Capture!NumberOf(p), Waits(waiting, p, p + Reach), Parsed(origin, p, buffer, frames),
         NEW a, NEW syn, ~syn
  PROVE  StreamAt(Capture!Stream(a, syn), p)
  <1>1. PICK s : s = Capture!Stream(a, syn)
    OBVIOUS
  <1>2. s = [ok |-> TRUE, origin |-> origin, expected |-> expected, waiting |-> waiting,
             buffer |-> buffer, taken |-> taken, frames |-> frames]
    BY <1>1, Zenon DEF Capture!Stream
  <1>3. /\ s.ok = TRUE /\ s.origin = origin /\ s.expected = expected /\ s.waiting = waiting
        /\ s.buffer = buffer /\ s.taken = taken /\ s.frames = frames
    BY <1>2
  <1> QED BY <1>1, <1>3, Zenon DEF StreamAt

LEMMA StreamAnew ==
  ASSUME CaptureNames, NEW a \in 0..Length, NEW syn, ~tracked \/ syn
  PROVE  StreamAt(Capture!Stream(a, syn), a)
  <1>1. PICK s : s = Capture!Stream(a, syn)
    OBVIOUS
  <1>2. s = [ok |-> TRUE, origin |-> a, expected |-> Capture!NumberOf(a), waiting |-> <<>>,
             buffer |-> <<>>, taken |-> <<>>, frames |-> <<>>]
    BY <1>1, Zenon DEF Capture!Stream
  <1>3. /\ s.ok = TRUE /\ s.origin = a /\ s.expected = Capture!NumberOf(a) /\ s.waiting = <<>>
        /\ s.buffer = <<>> /\ s.taken = <<>> /\ s.frames = <<>>
    BY <1>2
  <1> QED BY <1>1, <1>3, StreamBegins, Zenon

\* The expected byte's position.
LEMMA PositionOf ==
  ASSUME CaptureNames, tracked, NEW p \in 0..Length, origin \in 0..p, taken = Capture!Bytes(origin, p)
  PROVE  Capture!Position = p
  <1>1. p \in Nat /\ origin \in Nat /\ origin <= p
    BY DEF CaptureNames
  <1>2. Len(Capture!Bytes(origin, p)) = p - origin
    BY <1>1, BytesFrom
  <1>3. Capture!Position = origin + Len(taken)
    BY Zenon DEF Capture!Position
  <1>4. PICK n \in Int : n = p - origin
    BY <1>1
  <1>5. Capture!Position = origin + n
    BY <1>2, <1>3, <1>4, Zenon
  <1> QED BY <1>1, <1>4, <1>5

LEMMA CaptureKept ==
  ASSUME CaptureNames, CaptureInvariant, [Capture!Next]_(Capture!vars)
  PROVE  CaptureInvariant'
  <1>0. Length \in Nat /\ MaxSegment \in Nat /\ Reach \in Nat \ {0}
    BY DEF CaptureNames
  <1>1. ASSUME NEW a \in 0..Length, NEW b \in 0..Length, NEW fin \in BOOLEAN, Capture!SeeSegment(a, b, fin)
        PROVE  CaptureInvariant'
    <2>1. /\ a <= b /\ b - a <= MaxSegment /\ Capture!See(a, b, FALSE, fin)
          /\ tracked => a < Capture!Position + Reach /\ Capture!Position < a + Reach
      BY <1>1, Zenon DEF Capture!SeeSegment
    <2>2. CASE tracked
      <3>1. PICK p \in 0..Length :
              /\ origin \in 0..p /\ taken = Capture!Bytes(origin, p) /\ expected = Capture!NumberOf(p)
              /\ Waits(waiting, p, p + Reach) /\ Parsed(origin, p, buffer, frames)
        BY <2>2, Zenon DEF CaptureInvariant
      <3>2. Capture!Position = p
        BY <2>2, <3>1, PositionOf, Zenon
      <3>3. a < p + Reach /\ p < a + Reach
        BY <2>1, <2>2, <3>2, Zenon
      <3>4. StreamAt(Capture!Stream(a, FALSE), p)
        BY <2>2, <3>1, StreamKept, Zenon
      <3> QED BY <2>1, <3>3, <3>4, SegmentSeen, Zenon
    <2>3. CASE ~tracked
      <3>1. StreamAt(Capture!Stream(a, FALSE), a)
        BY <2>3, StreamAnew, Zenon
      <3>2. a < a + Reach
        BY <1>0
      <3> QED BY <2>1, <3>1, <3>2, SegmentSeen, Zenon
    <2> QED BY <2>2, <2>3
  <1>2. ASSUME Capture!SeeSyn
        PROVE  CaptureInvariant'
    <2>1. 0 \in 0..Length /\ 0 <= 0 /\ 0 - 0 <= MaxSegment /\ 0 < 0 + Reach
      BY <1>0
    <2>2. StreamAt(Capture!Stream(0, TRUE), 0)
      BY <2>1, StreamAnew, Zenon
    <2>3. Capture!See(0, 0, TRUE, FALSE)
      BY <1>2, Zenon DEF Capture!SeeSyn
    <2> QED BY <2>1, <2>2, <2>3, SegmentSeen, Zenon
  <1>3. ASSUME Capture!Forget
        PROVE  CaptureInvariant'
    BY <1>3 DEF Capture!Forget, Capture!Forgotten, CaptureInvariant
  <1>4. ASSUME UNCHANGED Capture!vars
        PROVE  CaptureInvariant'
    <2>1. /\ tracked' = tracked /\ expected' = expected /\ waiting' = waiting /\ buffer' = buffer
          /\ origin' = origin /\ taken' = taken /\ frames' = frames
      BY <1>4 DEF Capture!vars
    <2> QED BY <2>1, Zenon DEF CaptureInvariant
  <1> QED BY <1>1, <1>2, <1>3, <1>4, Zenon DEF Capture!Next

LEMMA StreamSound ==
  ASSUME CaptureNames, CaptureInvariant
  PROVE  Capture!FramesAreTheStream
  <1>0. Length \in Nat /\ HeaderSize \in Nat \ {0}
    BY DEF CaptureNames
  <1>1. SUFFICES ASSUME tracked
                 PROVE  /\ taken = Capture!Bytes(origin, Capture!Position)
                        /\ expected = Capture!NumberOf(Capture!Position)
                        /\ \A q \in DOMAIN waiting : waiting[q][1] > Capture!Position
                        /\ origin \in Starts =>
                             /\ {frames[k] : k \in DOMAIN frames} = Capture!Between(origin, Capture!Position)
                             /\ \A j, k \in DOMAIN frames : j < k => frames[j][1] < frames[k][1]
    BY Zenon DEF Capture!FramesAreTheStream
  <1>2. PICK p \in 0..Length :
          /\ origin \in 0..p /\ taken = Capture!Bytes(origin, p) /\ expected = Capture!NumberOf(p)
          /\ Waits(waiting, p, p + Reach) /\ Parsed(origin, p, buffer, frames)
    BY <1>1, Zenon DEF CaptureInvariant
  <1>3. Capture!Position = p
    BY <1>1, <1>2, PositionOf, Zenon
  <1>4. ASSUME NEW q \in DOMAIN waiting
        PROVE  waiting[q][1] > p
    <2>1. PICK a \in 0..Length, b \in 0..Length : waiting[q] = Capture!Bytes(a, b) /\ p < a /\ a < b
      BY <1>2, Zenon DEF Waits, Held
    <2>2. a \in Nat /\ b \in Nat /\ a <= b
      BY <1>0, <2>1
    <2>3. Capture!Bytes(a, b)[1] = a
      BY <2>1, <2>2, BytesFrom
    <2>4. waiting[q][1] = a
      BY <2>1, <2>3, Zenon
    <2> QED BY <1>0, <2>1, <2>4
  <1>5. ASSUME origin \in Starts
        PROVE  /\ {frames[k] : k \in DOMAIN frames} = Capture!Between(origin, p)
               /\ \A j, k \in DOMAIN frames : j < k => frames[j][1] < frames[k][1]
    <2>1. PICK s \in 0..p :
            /\ origin <= s /\ (s < p => p - s < HeaderSize \/ p - s < Size[s])
            /\ (s \in Starts \/ s = Length) /\ Whole(frames, origin, s)
      BY <1>2, <1>5, Zenon DEF Parsed
    <2>2. Capture!Between(origin, p) = Capture!Between(origin, s)
      <3>1. CASE s = p
        BY <3>1, Zenon
      <3>2. CASE s # p
        <4>1. s < p /\ s # Length /\ s <= p /\ p \in Nat /\ origin \in Nat
          BY <1>0, <1>2, <3>2
        <4>2. s \in Starts
          BY <2>1, <4>1, Zenon
        <4>3. s \in Nat /\ Size[s] \in Nat /\ Size[s] >= HeaderSize
          BY <4>2, FrameAt
        <4>4. p < s + Size[s]
          BY <1>0, <2>1, <4>1, <4>3
        <4> QED BY <4>1, <4>2, <4>4, FrameWithin, Zenon
      <3> QED BY <3>1, <3>2
    <2>3. DOMAIN frames = 1..Len(frames)
      <3>1. frames \in Seq(Seq(Nat))
        BY <2>1, Zenon DEF Whole
      <3> QED BY <3>1
    <2>4. /\ {frames[k] : k \in 1..Len(frames)} = Capture!Between(origin, s)
          /\ \A j, k \in 1..Len(frames) : j < k => frames[j][1] < frames[k][1]
      BY <2>1, Zenon DEF Whole
    <2> QED BY <2>2, <2>3, <2>4, Zenon
  <1> QED BY <1>2, <1>3, <1>4, <1>5, Zenon

\* Whatever the segments' order, losses and repetitions, a stream returns exactly the frames sent:
\* sniffer.py:100-132, protocol.py:104-113.
THEOREM FramesStayTheStream == CaptureNames /\ Capture!Spec => []Capture!FramesAreTheStream
  <1> SUFFICES ASSUME CaptureNames PROVE Capture!Spec => []Capture!FramesAreTheStream
    OBVIOUS
  <1>1. Capture!Init => CaptureInvariant
    BY DEF Capture!Init, CaptureInvariant
  <1>2. CaptureInvariant /\ [Capture!Next]_(Capture!vars) => CaptureInvariant'
    BY CaptureKept
  <1>3. CaptureInvariant => Capture!FramesAreTheStream
    BY StreamSound
  <1> QED BY <1>1, <1>2, <1>3, PTL DEF Capture!Spec
=============================================================================
