------------------------------ MODULE AckOwnership ------------------------------
(***************************************************************************)
(* What one datalogger connection of the relay promises about answers.     *)
(*                                                                         *)
(* The connection has one owner of acknowledgements at a time: the cloud,  *)
(* or, after a hand-over that is never undone, the relay itself.  A record *)
(* the datalogger sends is answered by at most one of them.  "Packets      *)
(* already forwarded but still awaiting acknowledgement receive a local    *)
(* reply ... Once local replies begin, that connection stays local"        *)
(* (docs/home-assistant-features.md).                                      *)
(*                                                                         *)
(* A record is identified by its reply key; the datalogger may send the    *)
(* same record again, so answers are counted against receipts.             *)
(***************************************************************************)
EXTENDS Integers

CONSTANT Records        \* the reply keys of records that expect an answer

Owners == {"cloud", "local"}

VARIABLES
  owner,      \* who answers: nobody yet, the cloud, the relay, or closed
  received,   \* [Records -> Nat], how often each record was received
  owed,       \* forwarded records the cloud has not answered
  claims,     \* [Owners -> [Records -> Nat]], answers decided, not yet written
  answers     \* [Owners -> [Records -> Nat]], answers written to the datalogger

vars == <<owner, received, owed, claims, answers>>

None == [r \in Records |-> 0]

\* Answers decided or written for a record, whoever gave them.
Total(r) == claims["cloud"][r] + claims["local"][r]
              + answers["cloud"][r] + answers["local"][r]

Init ==
  /\ owner = "none"
  /\ received = None
  /\ owed = {}
  /\ claims = [o \in Owners |-> None]
  /\ answers = [o \in Owners |-> None]

\* The connection to the cloud opened, or it did not and the relay answers.
Open(o) ==
  /\ owner = "none"
  /\ owner' = o
  /\ UNCHANGED <<received, owed, claims, answers>>

\* A record is received while the cloud answers.  It is normally owed from
\* then on; a retransmission of an owed record stays a single debt.
ReceiveForCloud(r) ==
  /\ owner = "cloud"
  /\ received' = [received EXCEPT ![r] = @ + 1]
  /\ owed' \in {owed, owed \cup {r}}
  /\ UNCHANGED <<owner, claims, answers>>

\* A record is received while the relay answers.
ReceiveLocally(r) ==
  /\ owner = "local"
  /\ received' = [received EXCEPT ![r] = @ + 1]
  /\ claims' = [claims EXCEPT !["local"][r] = @ + 1]
  /\ UNCHANGED <<owner, owed, answers>>

\* The cloud's answer to a record arrives and settles it.
CloudClaims(r) ==
  /\ owner = "cloud"
  /\ Total(r) < received[r]
  /\ claims' = [claims EXCEPT !["cloud"][r] = @ + 1]
  /\ owed' = owed \ {r}
  /\ UNCHANGED <<owner, received, answers>>

PlusReceipts(extra) ==
  [r \in Records |-> IF r \in extra THEN received[r] + 1 ELSE received[r]]

\* The relay takes over every debt at once, and any record in extra, which is
\* the one whose receipt made it take over.
HandOver(extra) ==
  /\ owner = "cloud"
  /\ owner' = "local"
  /\ received' = PlusReceipts(extra)
  /\ claims' = [claims EXCEPT !["local"] =
                  [r \in Records |-> @[r] + (IF r \in owed THEN 1 ELSE 0)
                                          + (IF r \in extra THEN 1 ELSE 0)]]
  /\ owed' = {}
  /\ UNCHANGED answers

\* A decided answer is written to the datalogger.
Answer(o, r) ==
  /\ claims[o][r] > 0
  /\ claims' = [claims EXCEPT ![o][r] = @ - 1]
  /\ answers' = [answers EXCEPT ![o][r] = @ + 1]
  /\ UNCHANGED <<owner, received, owed>>

\* A failed write gives up local answers that were still to be written; they
\* stem from one hand-over, so there is at most one for each record.
Abandon(lost) ==
  /\ owner # "closed"
  /\ \A r \in lost : claims["local"][r] > 0
  /\ claims' = [claims EXCEPT !["local"] =
                  [r \in Records |-> IF r \in lost THEN @[r] - 1 ELSE @[r]]]
  /\ UNCHANGED <<owner, received, owed, answers>>

\* The connection ends, perhaps on the receipt of the record in extra; what was
\* not written is not written any more.
Close(extra) ==
  /\ owner # "closed"
  /\ owner' = "closed"
  /\ received' = PlusReceipts(extra)
  /\ owed' = {}
  /\ claims' = [o \in Owners |-> None]
  /\ UNCHANGED answers

Next ==
  \/ \E o \in Owners : Open(o)
  \/ \E r \in Records : ReceiveForCloud(r) \/ ReceiveLocally(r) \/ CloudClaims(r)
  \/ \E extra \in {{}} \cup {{r} : r \in Records} : HandOver(extra) \/ Close(extra)
  \/ \E o \in Owners, r \in Records : Answer(o, r)
  \/ \E lost \in SUBSET Records : Abandon(lost)

Spec == Init /\ [][Next]_vars

-----------------------------------------------------------------------------
TypeOK ==
  /\ owner \in {"none", "cloud", "local", "closed"}
  /\ received \in [Records -> Nat]
  /\ owed \in SUBSET Records
  /\ claims \in [Owners -> [Records -> Nat]]
  /\ answers \in [Owners -> [Records -> Nat]]

\* No record is answered more often than it was received, counting the answers
\* of the cloud and of the relay together: a hand-over never makes both answer.
AtMostOneAnswer ==
  \A r \in Records : answers["cloud"][r] + answers["local"][r] <= received[r]

\* The inductive form: answers in preparation and debts count as well.
Accounted ==
  \A r \in Records : Total(r) + (IF r \in owed THEN 1 ELSE 0) <= received[r]

\* Debts to the cloud exist only while the cloud is the owner.
OnlyTheCloudOwes == owed # {} => owner = "cloud"

Inv == TypeOK /\ Accounted /\ OnlyTheCloudOwes

\* Acknowledgement ownership moves to the relay once and never back.
NeverBackToTheCloud ==
  [][(owner \in {"local", "closed"}) => (owner' \in {owner, "closed"})]_vars

\* After the hand-over no further answer of the cloud is accepted: those still
\* written were accepted before.
NoLateCloudAnswer ==
  [][owner = "local" =>
       \A r \in Records :
         claims'["cloud"][r] + answers'["cloud"][r]
           <= claims["cloud"][r] + answers["cloud"][r]]_vars
=============================================================================
