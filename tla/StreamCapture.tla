---------------------------- MODULE StreamCapture ----------------------------
(***************************************************************************)
(* Passive capture: one TCP connection's segments, seen late, repeated,    *)
(* overlapping or not at all, are put in order and split into frames       *)
(* (Reassembler.feed in sniffer.py, FrameBuffer.feed in protocol.py).      *)
(*                                                                         *)
(* A byte is its position in what the datalogger sent; its sequence number *)
(* is that position plus the initial number, modulo Modulus (2^32 in the   *)
(* code).  Size[p] is the length a header at position p announces: the     *)
(* real one where a frame begins, elsewhere whatever the bytes there would *)
(* say, 0 when no frame can begin so.                                      *)
(***************************************************************************)
EXTENDS Integers, Sequences, FiniteSets

CONSTANTS
  Modulus,      \* sequence numbers
  Initial,      \* number of the first byte
  Length,       \* bytes sent
  HeaderSize,   \* 8 in the code
  Size,         \* position -> announced length
  Starts,       \* positions where frames really begin
  MaxWaiting,   \* segments kept beyond a gap, 128 in the code
  MaxSegment,   \* bound: bytes of a segment
  Reach         \* bound: how far ahead of the expected byte a segment is seen

VARIABLES
  tracked,      \* whether the connection has a Stream
  expected,     \* stream.expected
  waiting,      \* stream.waiting: sequence number -> bytes
  buffer,       \* stream.parser._pending
  origin,       \* history: the position the stream began with
  taken,        \* history: the bytes given to the parser
  frames        \* history: the frames returned since then

vars == <<tracked, expected, waiting, buffer, origin, taken, frames>>
stream == <<expected, waiting, buffer, origin, taken, frames>>

Bytes(a, b) == [k \in 1..(b - a) |-> a + k - 1]
Drop(s, n) == SubSeq(s, n + 1, Len(s))
NumberOf(p) == (Initial + p) % Modulus

Plain_Distance(sequence, next) == sequence - next
Distance(sequence, next) == ((sequence - next + Modulus \div 2) % Modulus) - Modulus \div 2

Init ==
  /\ tracked = FALSE
  /\ expected = 0 /\ waiting = <<>> /\ buffer = <<>>
  /\ origin = 0 /\ taken = <<>> /\ frames = <<>>

-----------------------------------------------------------------------------
(* FrameBuffer.feed: the chunk is cut where a header, and then a frame, is *)
(* complete.  A header that announces nothing sensible loses the chunk.    *)

\* Frame.from_bytes refuses what only looks like a frame: its checksum differs.
Returned(wires, wire) == IF wire[1] \in Starts THEN Append(wires, wire) ELSE wires

Piece(loop) ==
  LET pending == loop.pending
      chunk == loop.chunk
      target == IF Len(pending) < HeaderSize THEN HeaderSize ELSE Size[pending[1]]
      missing == target - Len(pending)
      amount == IF missing < Len(chunk) THEN missing ELSE Len(chunk)
      grown == pending \o SubSeq(chunk, 1, amount)
      complete == Len(grown) >= HeaderSize /\ Len(grown) = Size[grown[1]]
  IN IF chunk = <<>> \/ ~loop.ok THEN loop
     ELSE [ok |-> Len(grown) < HeaderSize \/ Size[grown[1]] # 0,
           pending |-> IF complete THEN <<>> ELSE grown,
           chunk |-> Drop(chunk, amount),
           wires |-> IF complete THEN Returned(loop.wires, grown) ELSE loop.wires]

\* Every turn takes a byte at least: as many turns as bytes are enough.
Split(pending, chunk, wires) ==
  LET turns[n \in 0..Len(chunk)] ==
        IF n = 0 THEN [ok |-> TRUE, pending |-> pending, chunk |-> chunk, wires |-> wires]
        ELSE Piece(turns[n - 1])
  IN turns[Len(chunk)]

-----------------------------------------------------------------------------
(* Reassembler.feed's loop: the data in turn, then every waiting block the *)
(* stream has reached, trimmed to the bytes that are new.                  *)

Reached(w, next) == {q \in DOMAIN w : Distance(q, next) <= 0}
\* Blocks of which some bytes are new.
Fresh(w, next) == {q \in Reached(w, next) : -Distance(q, next) < Len(w[q])}
Nearest(S, next) == CHOOSE q \in S : \A r \in S : Distance(q, next) <= Distance(r, next)

\* In order of their distance, the blocks reached leave up to the first that is fresh.
NextBlock(w, next) ==
  LET fresh == Fresh(w, next)
      q == Nearest(fresh, next)
      left == IF fresh = {} THEN DOMAIN w \ Reached(w, next)
              ELSE {r \in DOMAIN w : Distance(r, next) > Distance(q, next)}
  IN [w |-> [r \in left |-> w[r]],
      data |-> IF fresh = {} THEN <<>> ELSE Drop(w[q], -Distance(q, next))]

Turn(loop) ==
  LET s == loop.stream
      next == (s.expected + Len(loop.data)) % Modulus
      got == Split(s.buffer, loop.data, s.frames)
      block == NextBlock(s.waiting, next)
  IN IF loop.data = <<>> \/ ~s.ok THEN loop
     ELSE [data |-> block.data,
           stream |-> [ok |-> got.ok, origin |-> s.origin, expected |-> next, waiting |-> block.w,
                       buffer |-> got.pending, taken |-> s.taken \o loop.data, frames |-> got.wires]]

\* Every turn but the first takes a waiting block.
Consume(data, s) ==
  LET most == Cardinality(DOMAIN s.waiting) + 1
      turns[n \in 0..most] == IF n = 0 THEN [data |-> data, stream |-> s] ELSE Turn(turns[n - 1])
  IN turns[most].stream

\* A stream begins with the first segment seen, and anew with every SYN.
Stream(a, syn) ==
  IF tracked /\ ~syn
    THEN [ok |-> TRUE, origin |-> origin, expected |-> expected, waiting |-> waiting,
          buffer |-> buffer, taken |-> taken, frames |-> frames]
    ELSE [ok |-> TRUE, origin |-> a, expected |-> NumberOf(a), waiting |-> <<>>,
          buffer |-> <<>>, taken |-> <<>>, frames |-> <<>>]

Forgotten ==
  tracked' = FALSE /\ expected' = 0 /\ waiting' = <<>> /\ buffer' = <<>>
  /\ origin' = 0 /\ taken' = <<>> /\ frames' = <<>>

Become(s, start) ==
  /\ tracked' = TRUE /\ origin' = start /\ expected' = s.expected /\ waiting' = s.waiting
  /\ buffer' = s.buffer /\ taken' = s.taken /\ frames' = s.frames

\* Of two blocks with one number the first is kept.
Awaited(w, q, data) == [r \in DOMAIN w \cup {q} |-> IF r \in DOMAIN w THEN w[r] ELSE data]

\* A segment with the bytes a..b-1. The bytes ahead of the expected one wait,
\* unless too many do: then the connection is dropped.
See(a, b, syn, fin) ==
  LET s == Stream(a, syn)
      distance == Distance(NumberOf(a), s.expected)
      data == Bytes(a, b)
      fresh == IF distance >= 0 THEN data ELSE IF -distance < b - a THEN Drop(data, -distance) ELSE <<>>
      after == Consume(fresh, s)
  IN IF distance > 0
       THEN IF Cardinality(DOMAIN s.waiting) >= MaxWaiting THEN Forgotten
            ELSE Become(IF data = <<>> THEN s ELSE [s EXCEPT !.waiting = Awaited(@, NumberOf(a), data)],
                        s.origin)
       ELSE IF after.ok /\ ~fin THEN Become(after, s.origin) ELSE Forgotten

\* The expected byte's position: what a segment's place is measured from.
Position == IF tracked THEN origin + Len(taken) ELSE 0

\* TCP keeps segments within a window: none is seen Reach or more bytes ahead.
SeeSegment(a, b, fin) ==
  /\ a <= b /\ b - a <= MaxSegment
  /\ tracked => a < Position + Reach /\ Position < a + Reach
  /\ See(a, b, FALSE, fin)

SeeSyn == See(0, 0, TRUE, FALSE)

\* A reset; or the connection was idle too long, or the oldest of too many.
Forget == tracked /\ Forgotten

Next ==
  \/ \E a, b \in 0..Length, fin \in BOOLEAN : (fin => b = Length) /\ SeeSegment(a, b, fin)
  \/ SeeSyn
  \/ Forget

Spec == Init /\ [][Next]_vars

-----------------------------------------------------------------------------
\* The frames that lie between two positions.
Between(p, q) == {Bytes(s, s + Size[s]) : s \in {s \in Starts : p <= s /\ s + Size[s] <= q}}

(* A stream that began where a frame begins has returned, at every moment, *)
(* exactly the frames contained in the bytes up to the expected one, each  *)
(* once and in order, however the segments arrived; what waits is all      *)
(* ahead of them (sniffer.py:100-132, protocol.py:104-113).                *)
FramesAreTheStream ==
  tracked =>
    /\ taken = Bytes(origin, Position) /\ expected = NumberOf(Position)
    /\ \A q \in DOMAIN waiting : waiting[q][1] > Position
    /\ origin \in Starts =>
         /\ {frames[k] : k \in DOMAIN frames} = Between(origin, Position)
         /\ \A j, k \in DOMAIN frames : j < k => frames[j][1] < frames[k][1]

=============================================================================
