----------------------------- MODULE OutputsProofs -----------------------------
(***************************************************************************)
(* For any outputs, queue size and number of records: the counters of      *)
(* every output balance, no output gets a reading after a later one, and   *)
(* what counts as delivered to the extension was handled by it.  Each      *)
(* action changes a queue, the count join waits for and the counters       *)
(* together; the balance needs their types only.  The order needs the      *)
(* place of every reading on its way, the extension the state of its pipe. *)
(***************************************************************************)
EXTENDS Outputs, TLAPS

Typed ==
  /\ records \in Nat /\ observations \in Seq(Nat \ {0})
  /\ queue \in [Destinations -> Seq(Nat \ {0})]
  /\ unfinished \in [Destinations -> Int] /\ current \in [Destinations -> Nat]
  /\ offered \in [Destinations -> Int] /\ delivered \in [Destinations -> Seq(Nat)]
  /\ failures \in [Destinations -> Int] /\ dropped \in [Destinations -> Int]
  /\ stage \in {"open", "joining", "stopped"}

\* Making room takes one element from a full queue and nothing from another.
LEMMA RoomyTyped ==
  ASSUME NEW S, NEW q \in Seq(S)
  PROVE  /\ Roomy(q) \in Seq(S)
         /\ Full(q) => Len(Roomy(q)) = Len(q) - 1
         /\ ~Full(q) => Len(Roomy(q)) = Len(q)
  <1>1. Full(q) => q # <<>>
    BY OutputsAssumption DEF Full
  <1>2. CASE Full(q)
    BY <1>1, <1>2 DEF Roomy
  <1>3. CASE ~Full(q)
    BY <1>3 DEF Roomy
  <1> QED BY <1>2, <1>3

\* The account of one output.
Balanced(d) ==
  /\ unfinished[d] = Len(queue[d]) + InFlight(d)
  /\ stage # "stopped" =>
       offered[d] = Len(delivered[d]) + failures[d] + dropped[d] + unfinished[d]

\* The extension's thread waits for an answer only while it has a
\* reading, and one that has a message.
Awaited == awaiting => current[Extension] \notin Silent \cup {0}

\* A delivery that ends well or badly is taken off the count, and counted.
LEMMA EndsBalance ==
  ASSUME Typed, AccountsBalance, NEW d \in Destinations, current[d] # 0,
         Succeed(d) \/ Fail(d), UNCHANGED queues
  PROVE  Typed' /\ AccountsBalance' /\ current'[d] = 0
  <1> USE DEF Typed, Done, queues
  <1>0. /\ Len(queue[d]) \in Nat /\ Len(delivered[d]) \in Nat
        /\ offered[d] \in Int /\ unfinished[d] \in Int
        /\ failures[d] \in Int /\ dropped[d] \in Int
    OBVIOUS
  <1>1. stage # "stopped" =>
          offered[d] = Len(delivered[d]) + failures[d] + dropped[d] + unfinished[d]
    BY DEF AccountsBalance
  <1>2. CASE Succeed(d)
    <2>1. Typed' /\ current'[d] = 0
      BY <1>2 DEF Succeed
    <2>2. Len(delivered'[d]) = Len(delivered[d]) + 1
      BY <1>2 DEF Succeed
    <2>3. Balanced(d)'
      <3>1. /\ unfinished'[d] = unfinished[d] - 1
            /\ queue'[d] = queue[d] /\ failures'[d] = failures[d]
            /\ dropped'[d] = dropped[d] /\ offered'[d] = offered[d] /\ stage' = stage
        BY <1>2 DEF Succeed
      <3>2. unfinished[d] = Len(queue[d]) + 1
        BY DEF AccountsBalance, InFlight
      <3>3. unfinished'[d] = Len(queue'[d]) + InFlight(d)'
        BY <1>0, <2>1, <3>1, <3>2 DEF InFlight
      <3> HIDE DEF Typed, Done, queues
      <3> DEFINE l == Len(delivered[d])
                 f == failures[d]
                 r == dropped[d]
                 u == unfinished[d]
                 o == offered[d]
      <3>4. stage # "stopped" => o = (l + 1) + f + r + (u - 1)
        <4>1. o \in Int /\ l \in Int /\ f \in Int /\ r \in Int /\ u \in Int
          BY <1>0
        <4>2. stage # "stopped" => o = l + f + r + u
          BY <1>1
        <4> HIDE DEF o, l, f, r, u
        <4> QED BY <4>1, <4>2
      <3> QED BY <2>2, <3>1, <3>3, <3>4 DEF Balanced
    <2>4. ASSUME NEW e \in Destinations \ {d} PROVE Balanced(e)'
      BY <1>2, <2>1 DEF Succeed, AccountsBalance, Balanced, InFlight
    <2> QED BY <2>1, <2>3, <2>4 DEF AccountsBalance, Balanced
  <1>3. CASE Fail(d)
    <2>1. Typed' /\ current'[d] = 0
      BY <1>3 DEF Fail
    <2>2. Balanced(d)'
      <3>1. /\ unfinished'[d] = unfinished[d] - 1
            /\ failures'[d] = failures[d] + 1
            /\ queue'[d] = queue[d] /\ delivered'[d] = delivered[d]
            /\ dropped'[d] = dropped[d] /\ offered'[d] = offered[d] /\ stage' = stage
        BY <1>3 DEF Fail
      <3>2. unfinished[d] = Len(queue[d]) + 1
        BY DEF AccountsBalance, InFlight
      <3>3. unfinished'[d] = Len(queue'[d]) + InFlight(d)'
        BY <1>0, <2>1, <3>1, <3>2 DEF InFlight
      <3> HIDE DEF Typed, Done, queues
      <3> DEFINE l == Len(delivered[d])
                 f == failures[d]
                 r == dropped[d]
                 u == unfinished[d]
                 o == offered[d]
      <3>4. stage # "stopped" => o = l + (f + 1) + r + (u - 1)
        <4>1. o \in Int /\ l \in Int /\ f \in Int /\ r \in Int /\ u \in Int
          BY <1>0
        <4>2. stage # "stopped" => o = l + f + r + u
          BY <1>1
        <4> HIDE DEF o, l, f, r, u
        <4> QED BY <4>1, <4>2
      <3> QED BY <3>1, <3>3, <3>4 DEF Balanced
    <2>3. ASSUME NEW e \in Destinations \ {d} PROVE Balanced(e)'
      BY <1>3, <2>1 DEF Fail, AccountsBalance, Balanced, InFlight
    <2> QED BY <2>1, <2>2, <2>3 DEF AccountsBalance, Balanced
  <1> QED BY <1>2, <1>3

LEMMA BalanceInit ==
  ASSUME Init
  PROVE  Typed /\ AccountsBalance /\ Awaited
  BY DEF Init, Typed, AccountsBalance, InFlight, Awaited

LEMMA BalanceStep ==
  ASSUME Typed, AccountsBalance, Awaited, [Next]_vars
  PROVE  Typed' /\ AccountsBalance' /\ Awaited'
  <1> USE DEF Typed
  <1>0. Extension \in Destinations
    BY DEF Destinations
  <1>1. CASE Enqueue
    <2>1. observations' \in Seq(Nat \ {0})
      BY <1>1, RoomyTyped DEF Enqueue
    <2> QED BY <1>1, <2>1 DEF Enqueue, work, pipe, AccountsBalance, InFlight, Awaited
  <1>2. CASE ObserveNothing
    BY <1>2 DEF ObserveNothing, work, pipe, AccountsBalance, InFlight, Awaited
  <1>3. CASE Observe
    <2> DEFINE r == Head(observations)
    <2>1. r \in Nat \ {0} /\ observations' \in Seq(Nat \ {0})
      BY <1>3 DEF Observe
    <2>2. \A d \in Destinations : Roomy(queue[d]) \in Seq(Nat \ {0})
      BY RoomyTyped
    <2>3. queue' \in [Destinations -> Seq(Nat \ {0})]
      BY <1>3, <2>1, <2>2 DEF Observe
    <2>4. Typed'
      <3>1. unfinished' \in [Destinations -> Int]
        BY <1>3 DEF Observe, UnfinishedAfterPut
      <3>2. dropped' \in [Destinations -> Int]
        BY <1>3 DEF Observe
      <3>3. offered' \in [Destinations -> Int]
        BY <1>3 DEF Observe
      <3> QED BY <1>3, <2>1, <2>3, <3>1, <3>2, <3>3 DEF Observe
    <2>5. ASSUME NEW d \in Destinations
          PROVE  Balanced(d)'
      <3>1. queue'[d] = Append(Roomy(queue[d]), r)
        BY <1>3 DEF Observe
      <3>2. Len(queue'[d]) = Len(Roomy(queue[d])) + 1
        BY <2>1, <2>2, <3>1
      <3>3. Len(queue'[d]) = Len(queue[d]) + (IF Full(queue[d]) THEN 0 ELSE 1)
        BY <3>2, RoomyTyped
      <3>4. Len(queue[d]) \in Nat /\ Len(delivered[d]) \in Nat
        OBVIOUS
      <3>5. /\ unfinished'[d] = unfinished[d] + (IF Full(queue[d]) THEN 0 ELSE 1)
            /\ dropped'[d] = dropped[d] + (IF Full(queue[d]) THEN 1 ELSE 0)
            /\ offered'[d] = offered[d] + 1
            /\ stage' = stage /\ current'[d] = current[d]
            /\ delivered'[d] = delivered[d] /\ failures'[d] = failures[d]
        BY <1>3 DEF Observe, UnfinishedAfterPut
      <3>6. Balanced(d) /\ InFlight(d)' = InFlight(d) /\ InFlight(d) \in Int
        BY <3>5 DEF AccountsBalance, Balanced, InFlight
      <3>7. /\ offered[d] \in Int /\ unfinished[d] \in Int
            /\ failures[d] \in Int /\ dropped[d] \in Int
        OBVIOUS
      <3> QED BY <3>3, <3>4, <3>5, <3>6, <3>7 DEF Balanced
    <2> QED BY <1>3, <2>4, <2>5 DEF Observe, pipe, AccountsBalance, Balanced, Awaited
  <1>4. ASSUME NEW d \in Destinations, Take(d)
        PROVE  Typed' /\ AccountsBalance' /\ Awaited'
    <2>1. /\ Head(queue[d]) \in Nat \ {0}
          /\ Tail(queue[d]) \in Seq(Nat \ {0})
          /\ Len(Tail(queue[d])) = Len(queue[d]) - 1
      BY <1>4 DEF Take
    <2>2. Typed' /\ Awaited'
      BY <1>0, <1>4, <2>1 DEF Take, queues, pipe, Awaited
    <2>3. Balanced(d)'
      BY <1>4, <2>1 DEF Take, queues, AccountsBalance, Balanced, InFlight
    <2>4. ASSUME NEW e \in Destinations \ {d} PROVE Balanced(e)'
      BY <1>4 DEF Take, queues, AccountsBalance, Balanced, InFlight
    <2> QED BY <2>2, <2>3, <2>4 DEF AccountsBalance, Balanced
  <1>5. ASSUME NEW d \in Plain, Deliver(d)
        PROVE  Typed' /\ AccountsBalance' /\ Awaited'
    <2>1. Typed' /\ AccountsBalance'
      BY <1>5, EndsBalance DEF Deliver, Destinations
    <2>2. current'[Extension] = current[Extension]
      BY <1>0, <1>5, OutputsAssumption DEF Deliver, Succeed, Fail, Done
    <2> QED BY <1>5, <2>1, <2>2 DEF Deliver, pipe, Awaited
  <1>6. CASE Skip \/ RequestFails \/ Answered \/ NotAnswered
    <2>1. current[Extension] # 0
      BY <1>6, OutputsAssumption DEF Skip, RequestFails, Answered, NotAnswered, Awaited
    <2>2. (Succeed(Extension) \/ Fail(Extension)) /\ UNCHANGED queues
      BY <1>6 DEF Skip, RequestFails, Answered, NotAnswered
    <2>3. Typed' /\ AccountsBalance'
      BY <1>0, <2>1, <2>2, EndsBalance
    <2>4. ~awaiting'
      BY <1>6 DEF Skip, RequestFails, Answered, NotAnswered, CloseProcess, pipe, Awaited
    <2> QED BY <2>3, <2>4 DEF Awaited
  <1>7. CASE Request \/ Receive \/ (\E well \in BOOLEAN : Handle(well)) \/ Die
    <2>1. UNCHANGED <<queues, work>>
      BY <1>7 DEF Request, Receive, Handle, Die
    <2>2. awaiting' => awaiting \/ current[Extension] \notin Silent \cup {0}
      BY <1>7 DEF Request, Receive, Handle, Die
    <2> QED BY <2>1, <2>2 DEF queues, work, AccountsBalance, InFlight, Awaited
  <1>8. CASE Close
    BY <1>8 DEF Close, work, pipe, AccountsBalance, InFlight, Awaited
  <1>9. ASSUME NEW late \in BOOLEAN, Stop(late)
        PROVE  Typed' /\ AccountsBalance' /\ Awaited'
    BY <1>9 DEF Stop, CloseProcess, AccountsBalance, InFlight, Awaited
  <1>10. CASE UNCHANGED vars
    BY <1>10 DEF vars, queues, work, pipe, AccountsBalance, InFlight, Awaited
  <1> QED BY <1>1, <1>2, <1>3, <1>4, <1>5, <1>6, <1>7, <1>8, <1>9, <1>10 DEF Next

\* pipeline.py, native_outputs.py: whatever overflowed, failed or timed out,
\* join waits for exactly the readings not yet delivered, and what was offered
\* to an output is what it delivered, failed, gave up or still holds.
THEOREM AccountsAlwaysBalance == Spec => []AccountsBalance
  <1>1. Init => Typed /\ AccountsBalance /\ Awaited
    BY BalanceInit
  <1>2. Typed /\ AccountsBalance /\ Awaited /\ [Next]_vars
          => (Typed /\ AccountsBalance /\ Awaited)'
    BY BalanceStep
  <1> QED BY <1>1, <1>2, PTL DEF Spec

-----------------------------------------------------------------------------
(* The order of the readings.                                              *)

Rising(q) == \A i, j \in DOMAIN q : i < j => q[i] < q[j]
Vals(q) == {q[i] : i \in DOMAIN q}
Lower(S, T) == \A x \in S, y \in T : x < y
InHand(d) == IF current[d] = 0 THEN {} ELSE {current[d]}

\* What is still to be put in the queues is later than what is in them, that is
\* later than what is being delivered, and that than what has been.
Ahead == Vals(observations) \cup {records + 1}
OrderOf(d) ==
  /\ Rising(queue[d]) /\ Rising(delivered[d])
  /\ Lower(Vals(queue[d]), Ahead)
  /\ Lower(InHand(d), Vals(queue[d]) \cup Ahead)
  /\ Lower(Vals(delivered[d]), InHand(d) \cup Vals(queue[d]) \cup Ahead)

InOrder ==
  /\ Rising(observations) /\ Lower(Vals(observations), {records + 1})
  /\ \A d \in Destinations : OrderOf(d)

LEMMA ValsTyped ==
  ASSUME NEW q \in Seq(Nat)
  PROVE  Vals(q) \subseteq Nat
  BY DEF Vals

\* Removing the oldest reading keeps the order of the others.
LEMMA TailRises ==
  ASSUME NEW q \in Seq(Nat), Rising(q), q # <<>>
  PROVE  /\ Rising(Tail(q)) /\ Vals(Tail(q)) \subseteq Vals(q)
         /\ Head(q) \in Vals(q) /\ Lower({Head(q)}, Vals(Tail(q)))
  <1>1. /\ Len(q) \in Nat \ {0} /\ DOMAIN q = 1 .. Len(q)
        /\ Tail(q) \in Seq(Nat) /\ DOMAIN Tail(q) = 1 .. (Len(q) - 1)
        /\ \A i \in 1 .. (Len(q) - 1) : Tail(q)[i] = q[i + 1]
        /\ Head(q) = q[1]
    OBVIOUS
  <1>2. \A i \in 1 .. (Len(q) - 1) : i + 1 \in 1 .. Len(q) /\ 1 < i + 1
    BY <1>1
  <1>3. Rising(Tail(q))
    BY <1>1, <1>2 DEF Rising
  <1>4. Vals(Tail(q)) \subseteq Vals(q) /\ Head(q) \in Vals(q)
    BY <1>1, <1>2 DEF Vals
  <1>5. Lower({Head(q)}, Vals(Tail(q)))
    BY <1>1, <1>2 DEF Lower, Vals, Rising
  <1> QED BY <1>3, <1>4, <1>5

LEMMA RoomyRises ==
  ASSUME NEW q \in Seq(Nat), Rising(q)
  PROVE  Roomy(q) \in Seq(Nat) /\ Rising(Roomy(q)) /\ Vals(Roomy(q)) \subseteq Vals(q)
  <1>1. Full(q) => q # <<>>
    BY OutputsAssumption DEF Full
  <1> QED BY <1>1, TailRises, RoomyTyped DEF Roomy

\* A later reading may be put at the end.
LEMMA AppendRises ==
  ASSUME NEW q \in Seq(Nat), NEW n \in Nat, Rising(q), Lower(Vals(q), {n})
  PROVE  Rising(Append(q, n)) /\ Vals(Append(q, n)) = Vals(q) \cup {n}
  <1>1. /\ Len(q) \in Nat /\ DOMAIN q = 1 .. Len(q)
        /\ DOMAIN Append(q, n) = 1 .. (Len(q) + 1)
        /\ \A i \in 1 .. Len(q) : Append(q, n)[i] = q[i]
        /\ Append(q, n)[Len(q) + 1] = n
    OBVIOUS
  <1>2. \A i \in 1 .. (Len(q) + 1) : i \in 1 .. Len(q) \/ i = Len(q) + 1
    BY <1>1
  <1>3. \A i \in 1 .. Len(q) : q[i] < n /\ q[i] \in Nat
    BY <1>1 DEF Lower, Vals
  <1>4. Rising(Append(q, n))
    <2> SUFFICES ASSUME NEW i \in 1 .. (Len(q) + 1), NEW j \in 1 .. (Len(q) + 1), i < j
                 PROVE  Append(q, n)[i] < Append(q, n)[j]
      BY <1>1 DEF Rising
    <2>1. i \in 1 .. Len(q)
      BY <1>1
    <2>2. CASE j \in 1 .. Len(q)
      BY <1>1, <2>1, <2>2 DEF Rising
    <2>3. CASE j = Len(q) + 1
      BY <1>1, <1>3, <2>1, <2>3
    <2> QED BY <1>2, <2>2, <2>3
  <1>5. Vals(Append(q, n)) = Vals(q) \cup {n}
    BY <1>1, <1>2 DEF Vals
  <1> QED BY <1>4, <1>5

LEMMA InOrderInit == Init => InOrder
  BY DEF Init, InOrder, OrderOf, Rising, Vals, Lower, InHand, Ahead

\* An output whose own variables a step leaves alone keeps its order, if what is
\* ahead of it stays later.
LEMMA OrderKept ==
  ASSUME NEW d \in Destinations, OrderOf(d),
         queue'[d] = queue[d], delivered'[d] = delivered[d], current'[d] \in {current[d], 0},
         \A x : x \in Ahead' => x \in Ahead \/ \E y \in Ahead : y \in Nat /\ x \in Nat /\ y < x,
         Vals(queue[d]) \cup InHand(d) \cup Vals(delivered[d]) \subseteq Nat
  PROVE  OrderOf(d)'
  <1>1. InHand(d)' \subseteq InHand(d)
    BY DEF InHand
  <1>2. \A S \in SUBSET Nat : Lower(S, Ahead) => Lower(S, Ahead')
    BY DEF Lower
  <1> QED BY <1>1, <1>2 DEF OrderOf, Lower

\* The end of a delivery keeps the order of its output, and of the others.
LEMMA EndsInOrder ==
  ASSUME Typed, InOrder, NEW d \in Destinations, current[d] # 0,
         Succeed(d) \/ Fail(d), UNCHANGED queues
  PROVE  InOrder'
  <1> USE DEF Typed, queues, Done
  <1>1. Ahead' = Ahead /\ Rising(observations)' /\ Lower(Vals(observations), {records + 1})'
    BY DEF Ahead, InOrder, Vals, Rising, Lower
  <1>2. \A e \in Destinations :
          OrderOf(e) /\ Vals(queue[e]) \cup InHand(e) \cup Vals(delivered[e]) \subseteq Nat
    <2> TAKE e \in Destinations
    <2>1. OrderOf(e)
      BY DEF InOrder
    <2>2. queue[e] \in Seq(Nat) /\ delivered[e] \in Seq(Nat) /\ InHand(e) \subseteq Nat
      BY DEF InHand
    <2> QED BY <2>1, <2>2, ValsTyped
  <1>3. ASSUME NEW e \in Destinations \ {d} PROVE OrderOf(e)'
    <2>1. queue'[e] = queue[e] /\ delivered'[e] = delivered[e] /\ current'[e] = current[e]
      BY DEF Succeed, Fail
    <2> QED BY <1>1, <1>2, <2>1, OrderKept
  <1>4. CASE Fail(d)
    <2>1. queue'[d] = queue[d] /\ delivered'[d] = delivered[d] /\ current'[d] = 0
      BY <1>4 DEF Fail
    <2>2. OrderOf(d)'
      BY <1>1, <1>2, <2>1, OrderKept
    <2> QED BY <1>1, <1>3, <2>2 DEF InOrder
  <1>5. CASE Succeed(d)
    <2> DEFINE n == current[d]
    <2>1. /\ queue'[d] = queue[d] /\ delivered'[d] = Append(delivered[d], n)
          /\ InHand(d)' = {} /\ InHand(d) = {n} /\ n \in Nat /\ delivered[d] \in Seq(Nat)
      BY <1>5 DEF Succeed, InHand
    <2>2. Lower(Vals(delivered[d]), {n}) /\ Rising(delivered[d])
      BY <1>2, <2>1 DEF OrderOf, Lower
    <2>3. Rising(delivered'[d]) /\ Vals(delivered'[d]) = Vals(delivered[d]) \cup {n}
      BY <2>1, <2>2, AppendRises
    <2>4. OrderOf(d)'
      BY <1>1, <1>2, <2>1, <2>3 DEF OrderOf, Lower
    <2> QED BY <1>1, <1>3, <2>4 DEF InOrder
  <1> QED BY <1>4, <1>5

LEMMA InOrderStep ==
  ASSUME Typed, InOrder, Awaited, [Next]_vars
  PROVE  InOrder'
  <1> USE DEF Typed
  <1>0. /\ \A d \in Destinations :
             /\ OrderOf(d)
             /\ Vals(queue[d]) \cup InHand(d) \cup Vals(delivered[d]) \subseteq Nat
             /\ queue[d] \in Seq(Nat)
        /\ Vals(observations) \subseteq Nat /\ records + 1 \in Nat
        /\ Ahead \subseteq Nat /\ observations \in Seq(Nat) /\ Rising(observations)
        /\ Lower(Vals(observations), {records + 1})
    BY DEF InOrder, Vals, InHand, Ahead
  <1>1. CASE Enqueue
    <2>1. /\ Roomy(observations) \in Seq(Nat) /\ Rising(Roomy(observations))
          /\ Vals(Roomy(observations)) \subseteq Vals(observations)
      BY <1>0, RoomyRises
    <2>2. Lower(Vals(Roomy(observations)), {records + 1})
      BY <1>0, <2>1 DEF Lower
    <2>3. /\ Rising(observations')
          /\ Vals(observations') = Vals(Roomy(observations)) \cup {records + 1}
      BY <1>1, <2>1, <2>2, AppendRises DEF Enqueue
    <2>4. Lower(Vals(observations'), {records' + 1})
      <3>1. \A x \in Vals(observations') : x \in Nat /\ (x < records + 1 \/ x = records + 1)
        BY <1>0, <2>2, <2>1, <2>3 DEF Lower
      <3>2. records' = records + 1
        BY <1>1 DEF Enqueue
      <3>3. \A x \in Vals(observations') : x < (records + 1) + 1
        <4>1. \A n, m \in Nat : n < m \/ n = m => n < m + 1
          OBVIOUS
        <4> QED BY <1>0, <3>1, <4>1
      <3> QED BY <3>2, <3>3 DEF Lower
    <2>5. \A x : x \in Ahead' => x \in Ahead \/ \E y \in Ahead : y \in Nat /\ x \in Nat /\ y < x
      <3>1. records + 1 \in Ahead /\ Ahead' \subseteq Ahead \cup {records + 2}
        BY <1>1, <2>1, <2>3 DEF Enqueue, Ahead
      <3>2. records + 1 < records + 2 /\ records + 2 \in Nat
        OBVIOUS
      <3> QED BY <1>0, <3>1, <3>2
    <2>6. ASSUME NEW d \in Destinations PROVE OrderOf(d)'
      BY <1>0, <1>1, <2>5, OrderKept DEF Enqueue, work
    <2> QED BY <2>3, <2>4, <2>6 DEF InOrder
  <1>2. CASE ObserveNothing \/ Close
    <2>1. /\ Rising(observations') /\ Vals(observations') \subseteq Vals(observations)
          /\ records' = records /\ UNCHANGED work
      <3>1. CASE ObserveNothing
        BY <1>0, <3>1, TailRises DEF ObserveNothing
      <3>2. CASE Close
        BY <3>2 DEF Close, Rising, Vals
      <3> QED BY <1>2, <3>1, <3>2
    <2>2. Ahead' \subseteq Ahead /\ Lower(Vals(observations'), {records' + 1})
      BY <1>0, <2>1 DEF Ahead, Lower
    <2>3. ASSUME NEW d \in Destinations PROVE OrderOf(d)'
      BY <1>0, <2>1, <2>2, OrderKept DEF work
    <2> QED BY <2>1, <2>2, <2>3 DEF InOrder
  <1>3. CASE Observe
    <2> DEFINE r == Head(observations)
    <2>1. /\ Rising(observations') /\ Vals(observations') \subseteq Vals(observations)
          /\ records' = records /\ r \in Vals(observations)
          /\ Lower({r}, Vals(observations'))
      BY <1>0, <1>3, TailRises DEF Observe
    <2>2. Ahead' \subseteq Ahead /\ Lower(Vals(observations'), {records' + 1})
      BY <1>0, <2>1 DEF Ahead, Lower
    <2>3. r \in Nat /\ r \in Ahead /\ Lower({r}, Ahead')
      BY <1>0, <2>1 DEF Ahead, Lower
    <2>4. ASSUME NEW d \in Destinations PROVE OrderOf(d)'
      <3> DEFINE q == Roomy(queue[d])
      <3>1. q \in Seq(Nat) /\ Rising(q) /\ Vals(q) \subseteq Vals(queue[d])
        BY <1>0, RoomyRises DEF OrderOf
      <3>2. Lower(Vals(q), {r})
        BY <1>0, <2>3, <3>1 DEF OrderOf, Lower
      <3> HIDE DEF q, r
      <3>3. Rising(Append(q, r)) /\ Vals(Append(q, r)) = Vals(q) \cup {r}
        BY <2>3, <3>1, <3>2, AppendRises
      <3>4. /\ queue'[d] = Append(q, r)
            /\ delivered'[d] = delivered[d] /\ InHand(d)' = InHand(d)
        BY <1>3 DEF Observe, InHand, q, r
      <3>5. Vals(queue'[d]) \subseteq Vals(queue[d]) \cup {r} /\ r \in Ahead
        BY <2>3, <3>1, <3>3, <3>4
      <3>6. Lower(Vals(queue'[d]), Ahead')
        BY <1>0, <2>2, <2>3, <3>5 DEF OrderOf, Lower
      <3>7. Lower(InHand(d), Vals(queue'[d]) \cup Ahead')
        BY <1>0, <2>2, <3>5 DEF OrderOf, Lower
      <3>8. Lower(Vals(delivered[d]), InHand(d) \cup Vals(queue'[d]) \cup Ahead')
        BY <1>0, <2>2, <3>5 DEF OrderOf, Lower
      <3> QED BY <1>0, <3>3, <3>4, <3>6, <3>7, <3>8 DEF OrderOf
    <2> QED BY <2>1, <2>2, <2>4 DEF InOrder
  <1>4. ASSUME NEW d \in Destinations, Take(d)
        PROVE  InOrder'
    <2>1. Ahead' = Ahead /\ observations' = observations /\ records' = records
      BY <1>4 DEF Take, queues, Ahead
    <2>2. /\ Rising(Tail(queue[d])) /\ Vals(Tail(queue[d])) \subseteq Vals(queue[d])
          /\ Head(queue[d]) \in Vals(queue[d])
          /\ Lower({Head(queue[d])}, Vals(Tail(queue[d])))
      BY <1>0, <1>4, TailRises DEF Take, OrderOf
    <2>3. /\ queue'[d] = Tail(queue[d]) /\ delivered'[d] = delivered[d]
          /\ current'[d] = Head(queue[d])
      BY <1>4 DEF Take
    <2>4. InHand(d)' \subseteq {Head(queue[d])}
      BY <2>3 DEF InHand
    <2>5. OrderOf(d)'
      BY <1>0, <2>1, <2>2, <2>3, <2>4 DEF OrderOf, Lower
    <2>6. ASSUME NEW e \in Destinations \ {d} PROVE OrderOf(e)'
      <3>1. queue'[e] = queue[e] /\ delivered'[e] = delivered[e] /\ current'[e] = current[e]
        BY <1>4 DEF Take
      <3> QED BY <1>0, <2>1, <3>1, OrderKept
    <2> QED BY <1>0, <2>1, <2>5, <2>6 DEF InOrder
  <1>5. ASSUME NEW d \in Plain, Deliver(d)
        PROVE  InOrder'
    BY <1>5, EndsInOrder DEF Deliver, Destinations
  <1>6. CASE Skip \/ RequestFails \/ Answered \/ NotAnswered
    <2>1. current[Extension] # 0 /\ Extension \in Destinations
      BY <1>6, OutputsAssumption
         DEF Skip, RequestFails, Answered, NotAnswered, Awaited, Destinations
    <2>2. (Succeed(Extension) \/ Fail(Extension)) /\ UNCHANGED queues
      BY <1>6 DEF Skip, RequestFails, Answered, NotAnswered
    <2> QED BY <2>1, <2>2, EndsInOrder
  <1>7. CASE \/ Request \/ Receive \/ (\E well \in BOOLEAN : Handle(well)) \/ Die
             \/ UNCHANGED vars
    <2>1. UNCHANGED <<queues, work>>
      BY <1>7 DEF Request, Receive, Handle, Die, vars
    <2> QED BY <2>1 DEF queues, work, InOrder, OrderOf, Rising, Vals, Lower, InHand, Ahead
  <1>8. ASSUME NEW late \in BOOLEAN, Stop(late)
        PROVE  InOrder'
    <2>1. Ahead' = Ahead /\ observations' = observations /\ records' = records
      BY <1>8 DEF Stop, Ahead
    <2>2. ASSUME NEW d \in Destinations PROVE OrderOf(d)'
      <3>1. queue'[d] = queue[d] /\ delivered'[d] = delivered[d] /\ current'[d] = 0
        BY <1>8 DEF Stop
      <3> QED BY <1>0, <2>1, <3>1, OrderKept
    <2> QED BY <1>0, <2>1, <2>2 DEF InOrder
  <1> QED BY <1>1, <1>2, <1>3, <1>4, <1>5, <1>6, <1>7, <1>8 DEF Next

\* relay.py, pipeline.py, native_outputs.py: no output gets a reading after a
\* later one, whatever overflowed, failed or timed out on the way.
THEOREM ReadingsArriveInOrder == Spec => []DeliveredInOrder
  <1>1. Init => Typed /\ AccountsBalance /\ Awaited /\ InOrder
    BY BalanceInit, InOrderInit
  <1>2. Typed /\ AccountsBalance /\ Awaited /\ InOrder /\ [Next]_vars
          => (Typed /\ AccountsBalance /\ Awaited /\ InOrder)'
    BY BalanceStep, InOrderStep
  <1>3. InOrder => DeliveredInOrder
    BY DEF InOrder, OrderOf, Rising, DeliveredInOrder
  <1> QED BY <1>1, <1>2, <1>3, PTL DEF Spec

-----------------------------------------------------------------------------
(* The extension and its process.                                          *)

\* One request is on its way at most, and only while the thread waits for its
\* answer: the request is in the pipe to the process, or the answer to the
\* reading being delivered is in the pipe back.
PipeHolds ==
  /\ awaiting =>
       \/ inbox = <<current[Extension]>> /\ outbox = <<>>
       \/ /\ inbox = <<>> /\ process # "busy"
          /\ outbox = <<FALSE>> \/ (outbox = <<TRUE>> /\ current[Extension] \in handled)
  /\ ~awaiting => inbox = <<>> /\ outbox = <<>> /\ process # "busy"

LEMMA PipeStep ==
  ASSUME Typed, Awaited, PipeHolds, ExtensionAnswersItsOwnReading, [Next]_vars
  PROVE  PipeHolds' /\ ExtensionAnswersItsOwnReading'
  <1> DEFINE Goal == PipeHolds' /\ ExtensionAnswersItsOwnReading'
  <1> SUFFICES Goal
    OBVIOUS
  <1> USE DEF Typed
  <1>0. Extension \in Destinations /\ Extension \notin Plain /\ 0 \notin Silent
    BY OutputsAssumption DEF Destinations
  <1>1. ASSUME UNCHANGED pipe, delivered'[Extension] = delivered[Extension],
               awaiting => current'[Extension] = current[Extension]
        PROVE  Goal
    BY <1>1 DEF pipe, PipeHolds, ExtensionAnswersItsOwnReading
  <1>2. CASE Enqueue \/ ObserveNothing \/ Observe \/ Close \/ UNCHANGED vars
    BY <1>1, <1>2 DEF Enqueue, ObserveNothing, Observe, Close, vars, work
  <1>3. ASSUME NEW d \in Destinations, Take(d) PROVE Goal
    <2>1. awaiting => d # Extension
      BY <1>3 DEF Take, Awaited
    <2> QED BY <1>1, <1>3, <2>1 DEF Take
  <1>4. ASSUME NEW d \in Plain, Deliver(d) PROVE Goal
    BY <1>0, <1>1, <1>4 DEF Deliver, Succeed, Fail, Done
  <1>5. CASE Skip
    <2>1. ~awaiting /\ UNCHANGED pipe
      BY <1>5 DEF Skip, Awaited
    <2>2. PipeHolds'
      BY <2>1 DEF PipeHolds, pipe
    <2>3. delivered'[Extension] = Append(delivered[Extension], current[Extension])
      BY <1>0, <1>5 DEF Skip, Succeed
    <2>4. ExtensionAnswersItsOwnReading'
      BY <1>0, <1>5, <2>1, <2>3 DEF Skip, pipe, ExtensionAnswersItsOwnReading
    <2> QED BY <2>2, <2>4
  <1>6. CASE Answered
    <2>1. ~awaiting' /\ UNCHANGED <<process, inbox, handled>> /\ outbox' = Tail(outbox)
      BY <1>6 DEF Answered
    <2>2. /\ inbox = <<>> /\ process # "busy"
          /\ outbox = <<FALSE>> \/ (outbox = <<TRUE>> /\ current[Extension] \in handled)
      BY <1>6 DEF Answered, PipeHolds
    <2>3. Tail(outbox) = <<>>
      <3>1. \A b : Tail(<<b>>) = <<>>
        OBVIOUS
      <3> QED BY <2>2, <3>1
    <2>4. PipeHolds'
      BY <2>1, <2>2, <2>3 DEF PipeHolds
    <2>5. CASE Head(outbox)
      <3>1. current[Extension] \in handled
        <4>1. \A b : Head(<<b>>) = b
          OBVIOUS
        <4>2. Head(outbox) = FALSE \/ current[Extension] \in handled
          BY <2>2, <4>1, Zenon
        <4> QED BY <2>5, <4>2
      <3>2. delivered'[Extension] = Append(delivered[Extension], current[Extension])
        BY <1>0, <1>6, <2>5 DEF Answered, Succeed
      <3>3. ExtensionAnswersItsOwnReading'
        BY <1>0, <2>1, <3>1, <3>2 DEF ExtensionAnswersItsOwnReading
      <3> QED BY <2>4, <3>3
    <2>6. CASE ~Head(outbox)
      <3>1. delivered' = delivered
        BY <1>6, <2>6 DEF Answered, Fail
      <3> QED BY <2>1, <2>4, <3>1 DEF ExtensionAnswersItsOwnReading
    <2> QED BY <2>5, <2>6
  <1>7. ASSUME CloseProcess, delivered' = delivered PROVE Goal
    BY <1>7 DEF CloseProcess, PipeHolds, ExtensionAnswersItsOwnReading
  <1>8. CASE RequestFails \/ NotAnswered \/ \E late \in BOOLEAN : Stop(late)
    BY <1>7, <1>8 DEF RequestFails, NotAnswered, Stop, Fail
  <1>9. CASE Request
    <2>1. /\ awaiting' /\ inbox' = Append(inbox, current[Extension]) /\ inbox = <<>>
          /\ outbox = <<>> /\ UNCHANGED <<outbox, handled, work>>
      BY <1>9 DEF Request, PipeHolds
    <2>2. inbox' = <<current'[Extension]>>
      BY <2>1 DEF work
    <2> QED BY <2>1, <2>2 DEF PipeHolds, ExtensionAnswersItsOwnReading, work
  <1>10. CASE Receive \/ Die
    <2>1. UNCHANGED <<work, inbox, outbox, awaiting, handled>> /\ process' \in {"busy", "dead"}
      BY <1>10 DEF Receive, Die
    <2>2. process' = "busy" => awaiting /\ inbox = <<current[Extension]>> /\ outbox = <<>>
      BY <1>10 DEF Receive, Die, PipeHolds
    <2>3. PipeHolds'
      BY <2>1, <2>2 DEF PipeHolds, work
    <2>4. ExtensionAnswersItsOwnReading'
      BY <2>1 DEF ExtensionAnswersItsOwnReading, work
    <2> QED BY <2>3, <2>4
  <1>11. CASE \E well \in BOOLEAN : Handle(well)
    <2>0. PICK well \in BOOLEAN : Handle(well)
      BY <1>11
    <2>1. awaiting /\ inbox = <<current[Extension]>> /\ outbox = <<>>
      BY <2>0 DEF Handle, PipeHolds
    <2>2. /\ inbox' = <<>> /\ outbox' = <<well>> /\ process' = "idle" /\ awaiting'
          /\ UNCHANGED work /\ handled \subseteq handled'
          /\ well => current[Extension] \in handled'
      BY <2>0, <2>1 DEF Handle
    <2>3. PipeHolds'
      BY <2>2 DEF PipeHolds, work
    <2>4. ExtensionAnswersItsOwnReading'
      BY <2>2 DEF ExtensionAnswersItsOwnReading, work
    <2> QED BY <2>3, <2>4
  <1>12. \/ Enqueue \/ ObserveNothing \/ Observe \/ Close \/ UNCHANGED vars
         \/ \E d \in Destinations : Take(d)
         \/ \E d \in Plain : Deliver(d)
         \/ Skip \/ Answered
         \/ RequestFails \/ NotAnswered \/ \E late \in BOOLEAN : Stop(late)
         \/ Request \/ Receive \/ Die \/ \E well \in BOOLEAN : Handle(well)
    BY DEF Next
  <1> HIDE DEF Goal
  <1> QED BY <1>2, <1>3, <1>4, <1>5, <1>6, <1>8, <1>9, <1>10, <1>11, <1>12

\* extensions.py: a reading counts as delivered to the extension only if the
\* extension handled it; a process whose answer is late is closed with both its
\* pipes, so no answer is ever left over for the next reading.
THEOREM AnswersBelongToReadings == Spec => []ExtensionAnswersItsOwnReading
  <1> DEFINE J == /\ Typed /\ AccountsBalance /\ Awaited
                  /\ PipeHolds /\ ExtensionAnswersItsOwnReading
  <1>1. Init => J
    <2> SUFFICES ASSUME Init PROVE J
      OBVIOUS
    <2>1. delivered[Extension] = <<>>
      BY DEF Init, Destinations
    <2>2. PipeHolds
      BY DEF Init, PipeHolds
    <2> QED BY <2>1, <2>2, BalanceInit DEF ExtensionAnswersItsOwnReading
  <1>2. J /\ [Next]_vars => J'
    BY BalanceStep, PipeStep
  <1>3. J => ExtensionAnswersItsOwnReading
    OBVIOUS
  <1> QED BY <1>1, <1>2, <1>3, PTL DEF Spec
=============================================================================
