------------------------------ MODULE ModbusReads ------------------------------
(***************************************************************************)
(* Register reads over Modbus (modbus_scan.py, modbus_transport.py): one   *)
(* request at a time, over a TCP connection or UDP endpoint of its own, or *)
(* over a serial line that all share.  Two clients: a scan goes on after   *)
(* a read that failed, and halves a block the inverter does not have; a    *)
(* poll ends with it and begins anew.                                      *)
(*                                                                         *)
(* A word is the address it was read from.  Bytes, lengths and checksums   *)
(* are left out: a reply that is damaged or cut is one that is Lost.       *)
(***************************************************************************)
EXTENDS Naturals, Sequences, FiniteSets, Functions, SequencesExt

CONSTANTS
  Ways,           \* pairs of a transport (tcp, udp, serial) and a client (scan, poll)
  Kinds,          \* client -> sequence of kinds: input, holding
  Ranges,         \* a sequence of <<first, count>>
  Absent,         \* <<kind, address>>: what the inverter does not have
  MAX_WORDS,      \* 32 in the code
  MaxRequests,    \* max_requests of a scan
  MaxSends,       \* bound: requests of all polls
  Nothing

VARIABLES
  transport, client,
  todo,           \* blocks still to read
  asked,          \* the block whose reply is awaited, with its number, or Nothing
  sends,          \* requests sent
  unanswered,     \* what the inverter has not answered, oldest first
  buffer,         \* replies received and not yet read
  thread,         \* a cancelled serial read still waits for a reply
  values,         \* <<kind, address>> -> the address its word is of, the request it came by
  unavailable,    \* blocks a scan could not read
  limit_reached,
  unheard         \* history: requests whose reply was not taken by their reader

vars == <<transport, client, todo, asked, sends, unanswered, buffer, thread, values,
          unavailable, limit_reached, unheard>>

Cells(b) == {<<b.kind, a>> : a \in b.first..(b.first + b.count - 1)}
Covered(S) == UNION {Cells(b) : b \in S}

NoRest_BlocksOf(kind, range) ==
  [k \in 1..(range[2] \div MAX_WORDS) |->
     [kind |-> kind, first |-> range[1] + (k - 1) * MAX_WORDS, count |-> MAX_WORDS]]

\* A range in blocks of MAX_WORDS, for one kind after the other.
BlocksOf(kind, range) ==
  [k \in 1..((range[2] + MAX_WORDS - 1) \div MAX_WORDS) |->
     LET offset == (k - 1) * MAX_WORDS
     IN [kind |-> kind, first |-> range[1] + offset,
         count |-> IF range[2] - offset < MAX_WORDS THEN range[2] - offset ELSE MAX_WORDS]]
Blocks ==
  FlattenSeq([k \in DOMAIN Kinds[client] |->
     FlattenSeq([n \in DOMAIN Ranges |-> BlocksOf(Kinds[client][k], Ranges[n])])])

Halves(b) ==
  LET left == b.count \div 2
  IN <<[b EXCEPT !.count = left], [b EXCEPT !.first = b.first + left, !.count = b.count - left]>>

Init ==
  /\ \E w \in Ways : transport = w[1] /\ client = w[2]
  /\ todo = Blocks /\ asked = Nothing /\ sends = 0
  /\ unanswered = <<>> /\ buffer = <<>> /\ thread = FALSE
  /\ values = <<>> /\ unavailable = {} /\ limit_reached = FALSE /\ unheard = {}

-----------------------------------------------------------------------------
\* The next block. What is still under way is lost with the former connection or
\* endpoint; of a serial line only what has arrived is dropped.
Send ==
  /\ asked = Nothing /\ todo # <<>>
  /\ IF client = "scan" THEN sends < MaxRequests ELSE sends < MaxSends
  /\ sends' = sends + 1
  /\ asked' = [block |-> Head(todo), number |-> sends']
  /\ unanswered' = Append(IF transport = "serial" THEN unanswered ELSE <<>>, asked')
  /\ buffer' = <<>>
  /\ UNCHANGED <<transport, client, todo, thread, values, unavailable, limit_reached, unheard>>

\* A scan out of requests names the block and sends nothing.
OutOfRequests ==
  /\ client = "scan" /\ asked = Nothing /\ todo # <<>> /\ sends >= MaxRequests
  /\ limit_reached' = TRUE
  /\ unavailable' = unavailable \cup {Head(todo)} /\ todo' = Tail(todo)
  /\ UNCHANGED <<transport, client, asked, sends, unanswered, buffer, thread, values, unheard>>

\* The inverter answers the oldest request, perhaps with an error.
Reply(error) ==
  /\ unanswered # <<>>
  /\ LET r == Head(unanswered)
         missing == Absent \cap Cells(r.block) # {}
     IN buffer' = Append(buffer, [number |-> r.number, block |-> r.block,
                    result |-> IF error THEN "failure" ELSE IF missing THEN "absent" ELSE "words"])
  /\ unanswered' = Tail(unanswered)
  /\ UNCHANGED <<transport, client, todo, asked, sends, thread, values, unavailable, limit_reached, unheard>>

Lost ==
  /\ unanswered # <<>> /\ unanswered' = Tail(unanswered)
  /\ UNCHANGED <<transport, client, todo, asked, sends, buffer, thread, values, unavailable,
                 limit_reached, unheard>>

-----------------------------------------------------------------------------
\* A reply names the function and, if it has words, their number, but no address.
\* A TCP or UDP reply over its own connection or endpoint is always this one.
Matches(r) ==
  /\ r.block.kind = asked.block.kind
  /\ r.result = "words" => r.block.count = asked.block.count

Unheard(taken) == unheard' = IF taken = {asked.number} THEN unheard ELSE unheard \cup {asked.number}

\* ReadError: a scan halves an absent block, or names it; a poll ends.
ReadFails(splittable) ==
  /\ IF client = "poll" THEN todo' = Blocks /\ values' = <<>> /\ UNCHANGED unavailable
     ELSE IF splittable /\ asked.block.count > 1
       THEN todo' = Halves(asked.block) \o Tail(todo) /\ UNCHANGED <<values, unavailable>>
     ELSE /\ unavailable' = unavailable \cup {asked.block}
          /\ todo' = Tail(todo) /\ UNCHANGED values
  /\ asked' = Nothing

Hear ==
  /\ asked # Nothing /\ buffer # <<>>
  /\ buffer' = Tail(buffer)
  /\ LET r == Head(buffer)
     IN /\ IF Matches(r) /\ r.result = "words"
             THEN /\ values' = [c \in DOMAIN values \cup Cells(asked.block) |->
                       IF c \in Cells(asked.block)
                         THEN [of |-> <<r.block.kind, r.block.first + c[2] - asked.block.first>>, by |-> r.number]
                         ELSE values[c]]
                  /\ todo' = Tail(todo) /\ asked' = Nothing /\ UNCHANGED unavailable
             ELSE ReadFails(Matches(r) /\ r.result = "absent")
        /\ Unheard({r.number})
  /\ UNCHANGED <<transport, client, sends, unanswered, thread, limit_reached>>

\* No reply in time, or none that is complete.
TimeOut ==
  /\ asked # Nothing
  /\ ReadFails(FALSE) /\ Unheard({})
  /\ UNCHANGED <<transport, client, sends, unanswered, buffer, thread, limit_reached>>

\* A poll is cancelled: on a serial line its thread waits on, and may take what
\* arrives for a later poll.
Cancel ==
  /\ asked # Nothing /\ client = "poll"
  /\ ReadFails(FALSE) /\ Unheard({})
  /\ thread' = (transport = "serial")
  /\ UNCHANGED <<transport, client, sends, unanswered, buffer, limit_reached>>

ThreadEnds ==
  /\ thread /\ thread' = FALSE
  /\ \/ UNCHANGED <<buffer, unheard>>
     \/ buffer # <<>> /\ buffer' = Tail(buffer) /\ unheard' = unheard \cup {Head(buffer).number}
  /\ UNCHANGED <<transport, client, todo, asked, sends, unanswered, values, unavailable, limit_reached>>

\* The next poll, after one that read everything.
PollAgain ==
  /\ client = "poll" /\ asked = Nothing /\ todo = <<>>
  /\ todo' = Blocks /\ values' = <<>>
  /\ UNCHANGED <<transport, client, asked, sends, unanswered, buffer, thread, unavailable,
                 limit_reached, unheard>>

Next ==
  \/ Send \/ OutOfRequests \/ Lost \/ Hear \/ TimeOut \/ Cancel \/ ThreadEnds \/ PollAgain
  \/ \E error \in BOOLEAN : Reply(error)

Spec == Init /\ [][Next]_vars

-----------------------------------------------------------------------------
Addresses ==
  UNION {{kind} \X (range[1]..(range[1] + range[2] - 1)) : kind \in ToSet(Kinds[client]), range \in ToSet(Ranges)}

(* Every address asked for is at every moment either read, named as        *)
(* unavailable or still to be read, and only one of these, however blocks  *)
(* were cut and halved (modbus_scan.py:132-160); nothing is left out       *)
(* silently when requests run out; and a word is that of its address,      *)
(* except on a serial line where it may come from an earlier request of    *)
(* the same kind and size that got no answer (modbus_transport.py:173).    *)
WordsAreAccountedFor ==
  /\ DOMAIN values \cup Covered(unavailable) \cup Covered(ToSet(todo)) = Addresses
  /\ \A b, c \in unavailable \cup ToSet(todo) : b # c => Cells(b) \cap Cells(c) = {}
  /\ DOMAIN values \cap Covered(unavailable \cup ToSet(todo)) = {}
  /\ \A c \in DOMAIN values : values[c].of # c => transport = "serial" /\ values[c].by \in unheard

=============================================================================
