------------------------------ MODULE WriteAudit ------------------------------
(***************************************************************************)
(* Who changed a setting (write_audit.py, for one connection of the        *)
(* relay).  The audit sees every write that goes to the inverter and every *)
(* local read, in the order they are sent, and every reply.  It keeps what *)
(* local writes established and says of a later reading that differs       *)
(* whether a write of the cloud explains it.                               *)
(*                                                                         *)
(* Local requests have numbers of their own (RelayCommands); the cloud may *)
(* use one again.  A request is its index in requests, which is also the   *)
(* audit's sequence.  One inverter, registers written one at a time.       *)
(***************************************************************************)
EXTENDS Naturals, Sequences, FiniteSets, SequencesExt

CONSTANTS
  Registers,
  Values,
  Acknowledgements, \* how the inverter acknowledges a write: "echo", "byte"
  CloudNumbers,   \* transaction numbers the cloud uses
  MaxPending,     \* 128 in the code
  MaxRegisters,   \* 256 in the code
  MaxCloud,       \* 256 in the code
  Most,           \* bound: requests of each kind: "local" and "cloud" writes, "read"s
  Unknown

VARIABLES
  held,           \* what the inverter's registers hold
  requests,       \* history: what was sent and what became of it
  replies,        \* replies under way
  pending,        \* audit.pending, oldest first
  registers,      \* audit.registers, oldest first
  cloud_requests  \* audit.cloud_requests

vars == <<held, requests, replies, pending, registers, cloud_requests>>

Init ==
  /\ held \in [Registers -> Values]
  /\ requests = <<>> /\ replies = {}
  /\ pending = <<>> /\ registers = <<>> /\ cloud_requests = {}

\* At most so many entries: the oldest makes room.
Bounded(s, n) == IF Len(s) > n THEN Tail(s) ELSE s

-----------------------------------------------------------------------------
(* sent *)

Request(source, what, address, value, number) ==
  [source |-> source, what |-> what, address |-> address, value |-> value,
   key |-> <<source, number>>, state |-> "sent"]

Kind(request) == IF request.what = "read" THEN "read" ELSE request.source

Enter(request) ==
  /\ Cardinality({i \in DOMAIN requests : Kind(requests[i]) = Kind(request)}) < Most[Kind(request)]
  /\ requests' = Append(requests, request)
  /\ UNCHANGED <<held, replies, registers>>

\* pending.pop(key): one request at most is pending under a key.
Matching(key) == {k \in DOMAIN pending : requests[pending[k]].key = key}
Without(key) ==
  IF Matching(key) = {} THEN pending ELSE RemoveAt(pending, CHOOSE k \in Matching(key) : TRUE)

Expect(key) == pending' = Bounded(Append(Without(key), Len(requests) + 1), MaxPending)

SentLocal(what, address, value) ==
  /\ Enter(Request("local", what, address, value, Len(requests) + 1))
  /\ Expect(<<"local", Len(requests) + 1>>) /\ UNCHANGED cloud_requests

OnlyLimit_Ambiguous(number) == Cardinality(cloud_requests) >= MaxCloud
\* A number the cloud used before, or one number too many, tells nothing any more.
Ambiguous(number) == number \in cloud_requests \/ Cardinality(cloud_requests) >= MaxCloud

SentByCloud(address, value, number) ==
  /\ Enter(Request("cloud", "write", address, value, number))
  /\ IF Ambiguous(number)
       THEN pending' = Without(<<"cloud", number>>) /\ UNCHANGED cloud_requests
       ELSE Expect(<<"cloud", number>>) /\ cloud_requests' = cloud_requests \cup {number}

-----------------------------------------------------------------------------
\* The inverter takes the requests in any order, or never. It tells what a register
\* holds, and acknowledges a write by an echo or by a single byte, or refuses it.
Execute(i, answer) ==
  LET r == requests[i]
      done == answer # "refused"
  IN /\ r.state = "sent" /\ (r.what = "read") = (answer = "words")
     /\ requests' = [requests EXCEPT ![i].state = IF done THEN "done" ELSE "refused"]
     /\ held' = IF r.what = "write" /\ done THEN [held EXCEPT ![r.address] = r.value] ELSE held
     /\ replies' = replies \cup
          {[to |-> i, accepted |-> done, body |-> IF answer = "byte" THEN Unknown ELSE held'[r.address]]}
     /\ UNCHANGED <<pending, registers, cloud_requests>>

-----------------------------------------------------------------------------
(* reply *)

Row(address) == CHOOSE k \in DOMAIN registers : registers[k].address = address
HasRow(address) == \E k \in DOMAIN registers : registers[k].address = address

\* The write of the cloud acknowledged last explains the reading: it was sent after the local
\* one, the reading was asked after it, and it wrote what is read.
Explained(row, sequence, value) ==
  row.cloud.sequence > row.sequence /\ sequence > row.cloud.sequence /\ value = row.cloud.value

Finding(row, sequence, value) ==
  IF value = row.expected THEN "matches"
  ELSE IF Explained(row, sequence, value) THEN "cloud" ELSE "unconfirmed"

NoCloud == [sequence |-> 0, value |-> Unknown]

ReadHeard(i, value) ==
  LET address == requests[i].address
  IN registers' = IF HasRow(address) /\ i > registers[Row(address)].sequence
       THEN [registers EXCEPT ![Row(address)].finding = Finding(registers[Row(address)], i, value)]
       ELSE registers

Acknowledges(r, i) == r.accepted /\ r.body \in {Unknown, requests[i].value}

LocalWriteHeard(i) ==
  LET address == requests[i].address
      row == [address |-> address, expected |-> requests[i].value, sequence |-> i,
              cloud |-> NoCloud, finding |-> "none"]
  IN registers' = IF HasRow(address) THEN [registers EXCEPT ![Row(address)] = row]
                  ELSE Bounded(Append(registers, row), MaxRegisters)

CloudWriteHeard(i) ==
  LET address == requests[i].address
  IN registers' = IF HasRow(address) /\ i > registers[Row(address)].sequence
       THEN [registers EXCEPT ![Row(address)].cloud = [sequence |-> i, value |-> requests[i].value]]
       ELSE registers

\* A reply is matched by its number; after 30 seconds it counts for nothing.
Reply(r, late) ==
  LET key == requests[r.to].key
      i == pending[CHOOSE k \in Matching(key) : TRUE]
  IN /\ replies' = replies \ {r}
     /\ pending' = Without(key)
     /\ IF Matching(key) = {} \/ late THEN UNCHANGED registers
        ELSE CASE requests[i].what = "read" /\ r.accepted -> ReadHeard(i, r.body)
               [] requests[i].what = "write" /\ Acknowledges(r, i) ->
                    IF requests[i].source = "local" THEN LocalWriteHeard(i) ELSE CloudWriteHeard(i)
               [] OTHER -> UNCHANGED registers
     /\ UNCHANGED <<held, requests, cloud_requests>>

Next ==
  \/ \E a \in Registers, v \in Values :
       \/ SentLocal("write", a, v)
       \/ \E n \in CloudNumbers : SentByCloud(a, v, n)
  \/ \E a \in Registers : SentLocal("read", a, Unknown)
  \/ \E i \in DOMAIN requests, answer \in Acknowledgements \cup {"words", "refused"} : Execute(i, answer)
  \/ \E r \in replies, late \in BOOLEAN : Reply(r, late)

Spec == Init /\ [][Next]_vars

-----------------------------------------------------------------------------
\* status
Findings == {registers[k].finding : k \in DOMAIN registers}
Status == IF "unconfirmed" \in Findings THEN "unconfirmed"
          ELSE IF "cloud" \in Findings THEN "cloud"
          ELSE IF "matches" \in Findings THEN "matches" ELSE "none"

(* The cloud is named only with proof: after the local write that is       *)
(* compared with, it sent a write of another value, the inverter carried   *)
(* out both, and a reading was asked for after them and answered, whatever *)
(* writes the cloud sent or had acknowledged since (write_audit.py:41, 68). *)
CloudIsNamedWithProof ==
  Status = "cloud" => \E k \in DOMAIN registers :
    LET row == registers[k]
    IN /\ row.finding = "cloud"
       /\ requests[row.sequence].source = "local" /\ requests[row.sequence].state = "done"
       /\ \E i \in (row.sequence + 1)..Len(requests), j \in 1..Len(requests) :
            /\ requests[i].source = "cloud" /\ requests[i].state = "done"
            /\ requests[i].address = row.address /\ requests[i].value # row.expected
            /\ j > i /\ requests[j].what = "read" /\ requests[j].state = "done"
            /\ requests[j].address = row.address

=============================================================================
