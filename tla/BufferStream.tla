----------------------------- MODULE BufferStream -----------------------------
(***************************************************************************)
(* BufferStreamReader (filelib/src/request/util.rs), the reader every     *)
(* accept step of request/accept.rs reads the peer through: poll_buffered *)
(* fills a buffer up to a target, the step inspects filled_buffer and     *)
(* consume_buffer drops what it used, and poll_read hands on the buffered *)
(* bytes before it reads the socket again.                                *)
(*                                                                         *)
(* The k-th byte the peer sends is the number k, so a byte's value is its *)
(* place in the stream; 0 is a byte the resize zeroed.  A call is one     *)
(* operator, and its result is the set of outcomes the socket's answers   *)
(* can give: the socket returns any part of what has arrived, and a       *)
(* loop over its answers that can only see Ready(0) again never ends      *)
(* ("spin").  Whether tokio answers a read into an already full ReadBuf   *)
(* with Ready(0) or Pending is not this code's to decide, so both are     *)
(* outcomes.  A state is the reader, how far it read the socket (pos),    *)
(* what the peer sent and whether it closed, and the bytes the accept     *)
(* steps and the request took from it (out).                              *)
(***************************************************************************)
EXTENDS Naturals, Sequences, SequencesExt

CONSTANTS
    MaxBytes,       \* bytes a peer sends before it closes
    Targets,        \* target_bytes of poll_buffered (8, FT_KEY_SIZE, the header limit)
    ReadSizes       \* space in the ReadBuf a poll_read is given

\* the peer's bytes from..to
Bytes(from, to) == [i \in 1..(to - from + 1) |-> from + i - 1]

\* BufferStreamReader::new.  eof_received is set only inside a loop that
\* then never ends, so it is never seen set and is left out
InitReader == [buf |-> <<>>, bb |-> 0]

FilledBuffer(r) == SubSeq(r.buf, 1, r.bb)

\* Mutant: consume_buffer lowers buffered_bytes without the copy_within
ConsumeBufferNoShift(r, n) == [r EXCEPT !.bb = IF n = r.bb THEN 0 ELSE @ - n]

\* consume_buffer: copy_within(bytes..buffered_bytes, 0) moves the rest to
\* the front; the bytes behind it stay in the buffer
ConsumeBuffer(r, n) ==
    IF n = r.bb THEN [r EXCEPT !.bb = 0]
    ELSE [r EXCEPT !.buf = SubSeq(r.buf, n + 1, r.bb)
                           \o SubSeq(r.buf, r.bb - n + 1, Len(r.buf)),
                   !.bb = r.bb - n]

Outcome(s, res) == [s EXCEPT !.res = res]

\* poll_buffered(target): after the resize, the loop reads k bytes into
\* buffer[buffered_bytes..target] until the socket answers Pending; an
\* error drops what the loop read; the end of the stream, or a full ReadBuf
\* answered with Ready(0), keeps the loop going for ever
PollBuffered(s, target) ==
    LET r    == [s.r EXCEPT !.buf = IF Len(@) < target
                                    THEN @ \o [i \in 1..(target - Len(@)) |-> 0]
                                    ELSE @]
        rem  == target - r.bb
        room == IF s.sent - s.pos < rem THEN s.sent - s.pos ELSE rem
        Read(k) == [r EXCEPT !.buf = SubSeq(@, 1, r.bb) \o Bytes(s.pos + 1, s.pos + k)
                                     \o SubSeq(@, r.bb + k + 1, Len(@)),
                             !.bb = r.bb + k]
    IN  IF target <= r.bb THEN {Outcome([s EXCEPT !.r = r], "ready")}
        ELSE
        {Outcome([s EXCEPT !.r = Read(k), !.pos = s.pos + k],
                 IF r.bb + k < target THEN "pending" ELSE "ready")
           : k \in {k \in 0..room : ~(s.closed /\ k = s.sent - s.pos /\ k < rem)}}
        \cup {Outcome([s EXCEPT !.r = r, !.pos = s.pos + k], "error") : k \in 0..room}
        \cup {Outcome([s EXCEPT !.r = Read(k), !.pos = s.pos + k], "spin")
                : k \in {k \in 0..room : k = rem \/ (s.closed /\ k = s.sent - s.pos)}}

\* AsyncRead::poll_read of the reader: buffered bytes first, then the socket
PollRead(s, m) ==
    IF s.r.bb > 0
    THEN LET n == IF m < s.r.bb THEN m ELSE s.r.bb IN
         {Outcome([s EXCEPT !.out = @ \o SubSeq(s.r.buf, 1, n),
                            !.r = ConsumeBuffer(s.r, n)], "ready")}
    ELSE {Outcome([s EXCEPT !.out = @ \o Bytes(s.pos + 1, s.pos + k),
                            !.pos = @ + k], "ready")
            : k \in 1..(IF s.sent - s.pos < m THEN s.sent - s.pos ELSE m)}
         \cup {Outcome(s, "pending")}

\* An accept step takes the first n bytes of filled_buffer and consumes them
Consume(s, n) ==
    {Outcome([s EXCEPT !.out = @ \o SubSeq(s.r.buf, 1, n),
                       !.r = ConsumeBuffer(s.r, n)], "ready")}

\* the peer sends a byte, or closes
Peer(s) ==
    IF s.closed THEN {}
    ELSE {Outcome([s EXCEPT !.closed = TRUE], "ready")}
         \cup (IF s.sent < MaxBytes THEN {Outcome([s EXCEPT !.sent = @ + 1], "ready")}
               ELSE {})

InitStream == [r |-> InitReader, pos |-> 0, sent |-> 0, closed |-> FALSE,
               out |-> <<>>, res |-> "ready"]

\* a reader that spun or failed is never polled again
ReaderSteps(s) ==
    IF s.res \in {"spin", "error"} THEN {}
    ELSE UNION ({PollBuffered(s, t) : t \in Targets}
                \cup {PollRead(s, m) : m \in ReadSizes}
                \cup {Consume(s, n) : n \in 1..s.r.bb}
                \cup {Peer(s)})

RECURSIVE ExploreStream(_, _)
ExploreStream(seen, frontier) ==
    IF frontier = {} THEN seen
    ELSE LET next == UNION {ReaderSteps(s) : s \in frontier} \ seen
         IN  ExploreStream(seen \cup next, next)

\* every state a sequence of reader calls and peer steps reaches
StreamStates == ExploreStream({InitStream}, {InitStream})

\* Whatever the order of poll_buffered, consume_buffer and poll_read
\* calls and however the socket splits the peer's bytes, what the accept
\* steps and the request have taken, followed by filled_buffer, is exactly
\* the bytes read from the socket, in order: the buffer's copy_within and
\* the partial reads lose, repeat and reorder nothing.  (A read error drops
\* the bytes of its loop, and the connection with them.)
StreamPreservedAll ==
    \A s \in StreamStates : s.res # "error" =>
        /\ s.out \o FilledBuffer(s.r) = Bytes(1, s.pos)
        /\ s.pos <= s.sent
        /\ s.r.bb <= Len(s.r.buf)

================================================================================
