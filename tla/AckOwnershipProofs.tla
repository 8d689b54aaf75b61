--------------------------- MODULE AckOwnershipProofs ---------------------------
(* AckOwnership keeps its promises for every set of records: the inductive  *)
(* invariant counts debts and answers in preparation, so that none of them  *)
(* can turn into a second answer.                                           *)
EXTENDS AckOwnership, TLAPS

\* The connection starts without receipts, debts or answers.
LEMMA InitInv == Init => Inv
  BY DEF Init, Inv, TypeOK, Accounted, OnlyTheCloudOwes, None, Total, Owners

\* Every step keeps the account of each record in balance (Accounted), moving
\* one unit between receipt, debt, claim and answer.
LEMMA InvPreserved == Inv /\ [Next]_vars => Inv'
<1> SUFFICES ASSUME Inv, [Next]_vars PROVE Inv'
  OBVIOUS
<1> USE DEF Inv, TypeOK, Accounted, OnlyTheCloudOwes, Total, Owners
<1>1. ASSUME NEW o \in Owners, Open(o) PROVE Inv'
  BY <1>1 DEF Open
<1>2. ASSUME NEW r \in Records, ReceiveForCloud(r) PROVE Inv'
  BY <1>2 DEF ReceiveForCloud
<1>3. ASSUME NEW r \in Records, ReceiveLocally(r) PROVE Inv'
  BY <1>3 DEF ReceiveLocally
<1>4. ASSUME NEW r \in Records, CloudClaims(r) PROVE Inv'
  BY <1>4 DEF CloudClaims
<1>5. ASSUME NEW extra \in {{}} \cup {{r} : r \in Records}, HandOver(extra) PROVE Inv'
  <2>1. TypeOK'
    BY <1>5 DEF HandOver, PlusReceipts
  <2>2. Accounted'
    BY <1>5, <2>1 DEF HandOver, PlusReceipts
  <2> QED
    BY <1>5, <2>1, <2>2 DEF HandOver, PlusReceipts
<1>6. ASSUME NEW o \in Owners, NEW r \in Records, Answer(o, r) PROVE Inv'
  <2>1. TypeOK'
    BY <1>6 DEF Answer
  <2>2. Accounted'
    BY <1>6, <2>1 DEF Answer
  <2> QED
    BY <1>6, <2>1, <2>2 DEF Answer
<1>7. ASSUME NEW lost \in SUBSET Records, Abandon(lost) PROVE Inv'
  <2>1. TypeOK'
    BY <1>7 DEF Abandon
  <2>2. Accounted'
    BY <1>7, <2>1 DEF Abandon
  <2> QED
    BY <1>7, <2>1, <2>2 DEF Abandon
<1>8. ASSUME NEW extra \in {{}} \cup {{r} : r \in Records}, Close(extra) PROVE Inv'
  <2>1. TypeOK'
    BY <1>8 DEF Close, None, PlusReceipts
  <2>2. ASSUME NEW r \in Records
        PROVE  Total(r)' + (IF r \in owed' THEN 1 ELSE 0) <= received'[r]
    <3>1. owed' = {} /\ claims'["cloud"][r] = 0 /\ claims'["local"][r] = 0
      BY <1>8 DEF Close, None
    <3>2. received[r] <= received'[r]
      BY <1>8 DEF Close, PlusReceipts
    <3>3. answers["cloud"][r] + answers["local"][r] <= received[r]
      BY DEF Accounted
    <3>4. answers' = answers /\ received'[r] \in Nat
      BY <1>8, <2>1 DEF Close
    <3> QED
      BY <3>1, <3>2, <3>3, <3>4
  <2> QED
    BY <1>8, <2>1, <2>2 DEF Close
<1>9. CASE UNCHANGED vars
  BY <1>9 DEF vars
<1> QED
  BY <1>1, <1>2, <1>3, <1>4, <1>5, <1>6, <1>7, <1>8, <1>9 DEF Next

\* The inductive invariant holds in every reachable state.
THEOREM OwnershipInvariant == Spec => []Inv
  BY InitInv, InvPreserved, PTL DEF Spec

\* The cloud and the relay together answer a record at most once for each
\* receipt, for any set of records and any interleaving.
THEOREM NeverAnsweredTwice == Spec => []AtMostOneAnswer
<1>1. Inv => AtMostOneAnswer
  <2> SUFFICES ASSUME Inv, NEW r \in Records
               PROVE answers["cloud"][r] + answers["local"][r] <= received[r]
    BY DEF AtMostOneAnswer
  <2>1. Total(r) <= received[r]
    BY DEF Inv, TypeOK, Accounted, Total, Owners
  <2>2. /\ claims["cloud"][r] \in Nat /\ claims["local"][r] \in Nat
        /\ answers["cloud"][r] \in Nat /\ answers["local"][r] \in Nat
        /\ received[r] \in Nat
    BY DEF Inv, TypeOK, Owners
  <2> QED
    BY <2>1, <2>2 DEF Total
<1> QED
  BY <1>1, OwnershipInvariant, PTL

\* A connection that has become local stays local until it closes.
THEOREM LocalStaysLocal == Spec => NeverBackToTheCloud
<1>1. [Next]_vars =>
        [(owner \in {"local", "closed"}) => (owner' \in {owner, "closed"})]_vars
  BY DEF Next, vars, Open, ReceiveForCloud, ReceiveLocally, CloudClaims, HandOver,
         Answer, Abandon, Close
<1> QED
  BY <1>1, PTL DEF Spec, NeverBackToTheCloud

\* Once the relay answers, the cloud's share of the answers no longer grows: what
\* is still written of it was accepted before.
THEOREM CloudStaysOut == Spec => NoLateCloudAnswer
<1>1. ASSUME Inv, [Next]_vars, owner = "local", NEW r \in Records
      PROVE  claims'["cloud"][r] + answers'["cloud"][r] <= claims["cloud"][r] + answers["cloud"][r]
  <2>0. /\ claims \in [Owners -> [Records -> Nat]] /\ answers \in [Owners -> [Records -> Nat]]
        /\ claims["cloud"][r] \in Nat /\ answers["cloud"][r] \in Nat
    BY <1>1 DEF Inv, TypeOK, Owners
  <2>1. ASSUME NEW o \in Owners, NEW q \in Records, Answer(o, q)
        PROVE  claims'["cloud"][r] + answers'["cloud"][r] = claims["cloud"][r] + answers["cloud"][r]
    <3>1. CASE o = "cloud" /\ q = r
      BY <2>0, <2>1, <3>1 DEF Answer, Owners
    <3>2. CASE ~(o = "cloud" /\ q = r)
      BY <2>0, <2>1, <3>2 DEF Answer, Owners
    <3> QED
      BY <3>1, <3>2
  <2>2. ASSUME NEW q \in Records, ReceiveLocally(q)
        PROVE  claims'["cloud"] = claims["cloud"] /\ answers' = answers
    BY <2>0, <2>2 DEF ReceiveLocally, Owners
  <2>3. ASSUME NEW lost \in SUBSET Records, Abandon(lost)
        PROVE  claims'["cloud"] = claims["cloud"] /\ answers' = answers
    BY <2>0, <2>3 DEF Abandon, Owners
  <2>4. ASSUME NEW extra, Close(extra) PROVE claims'["cloud"][r] = 0 /\ answers' = answers
    BY <2>4 DEF Close, None, Owners
  <2>5. CASE UNCHANGED vars
    BY <2>0, <2>5 DEF vars
  <2> QED
    BY <1>1, <2>0, <2>1, <2>2, <2>3, <2>4, <2>5
       DEF Next, Open, ReceiveForCloud, CloudClaims, HandOver
<1>2. Inv /\ [Next]_vars =>
        [owner = "local" =>
          \A r \in Records :
            claims'["cloud"][r] + answers'["cloud"][r] <= claims["cloud"][r] + answers["cloud"][r]]_vars
  BY <1>1
<1> QED
  BY <1>2, OwnershipInvariant, PTL DEF Spec, NoLateCloudAnswer
=============================================================================
