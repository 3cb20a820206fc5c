--------------------------------- MODULE Vp8 ---------------------------------
(***************************************************************************)
(* Keyframe detection of VP8 RTP payloads: VP8PayloadDescriptor::parse    *)
(* (rtc/src/utils/vp8.rs) and RtpClientVideoSource::vp8_is_keyframe        *)
(* (client/rtp_receiver.rs), whose result is the key_frame flag of every  *)
(* VP8 packet the video broadcast receives (an Err counts as no keyframe). *)
(* A payload is a sequence of byte values; every read of the Cursor is a  *)
(* position in it, and a read past the end is the io error of `?`.        *)
(* An Option is a set: {} is Err, {b} is Ok(b).                           *)
(***************************************************************************)
EXTENDS Naturals, Sequences, Bitwise

\* The byte at position i, 0 past the end (such a read fails the parse)
ByteAt(p, i) == IF i <= Len(p) THEN p[i] ELSE 0

Bit(b, mask) == (b & mask) # 0

\* Mutant: the picture id is always read as one byte (the M bit ignored)
Vp8PayloadDescriptorShortPictureId(p) ==
    LET bits  == ByteAt(p, 1)
        xbits == IF Bit(bits, 128) THEN ByteAt(p, 2) ELSE 0
        last  == (IF Bit(bits, 128) THEN 2 ELSE 1) + (IF Bit(xbits, 128) THEN 1 ELSE 0)
                 + (IF Bit(xbits, 64) THEN 1 ELSE 0) + (IF Bit(xbits, 48) THEN 1 ELSE 0)
    IN  IF last <= Len(p)
        THEN {[partitionStart |-> Bit(bits, 16), partitionIndex |-> bits & 7,
               payload |-> last + 1]}
        ELSE {}

\* VP8PayloadDescriptor::parse: the descriptor's fields and the position
\* of the first payload byte, or {} when a read runs past the end
Vp8PayloadDescriptor(p) ==
    LET bits  == ByteAt(p, 1)
        ext   == Bit(bits, 128)
        xbits == IF ext THEN ByteAt(p, 2) ELSE 0
        afterX == IF ext THEN 2 ELSE 1
        picLen == IF ~Bit(xbits, 128) THEN 0
                  ELSE IF Bit(ByteAt(p, afterX + 1), 128) THEN 2 ELSE 1
        afterL == afterX + picLen + (IF Bit(xbits, 64) THEN 1 ELSE 0)
        last   == afterL + (IF Bit(xbits, 48) THEN 1 ELSE 0)
    IN  IF last <= Len(p)
        THEN {[partitionStart |-> Bit(bits, 16),
               partitionIndex |-> bits & 7,
               payload |-> last + 1]}
        ELSE {}

\* vp8_is_keyframe: at the start of partition 0, a frame tag whose P bit
\* (bit 0 of its first byte, 0x010000 of the big-endian u24) is clear
\* starts a key frame, which must carry the start code 9D 01 2A and the
\* two 16-bit dimensions
Vp8IsKeyframe(p) ==
    LET d == Vp8PayloadDescriptor(p) IN
    IF d = {} THEN {}
    ELSE LET desc == CHOOSE x \in d : TRUE
             o == desc.payload
         IN  CASE ~(desc.partitionStart /\ desc.partitionIndex = 0) -> {FALSE}
               [] o + 2 > Len(p)                   -> {}
               [] Bit(p[o], 1)                     -> {FALSE}
               [] o + 5 > Len(p)                   -> {}
               [] <<p[o + 3], p[o + 4], p[o + 5]>> # <<157, 1, 42>> -> {}
               [] o + 9 > Len(p)                   -> {}
               [] OTHER                            -> {TRUE}

-----------------------------------------------------------------------------
(* Reference: RTP payloads laid out as RFC 7741 section 4.2 and RFC 6386  *)
(* section 9.1 describe them.                                             *)

\* The layout choices of one packet.  `noise` sets every bit that no flag
\* governs (reserved and N bits, picture id and TL0PICIDX values).
Layouts ==
    [x : BOOLEAN, i : BOOLEAN, m : BOOLEAN, l : BOOLEAN, tk : {0, 16, 32, 48},
     s : BOOLEAN, pid : {0, 1}, p : BOOLEAN, magic : BOOLEAN, noise : BOOLEAN]

B(flag, v) == IF flag THEN v ELSE 0

Descriptor(f) ==
    LET n == B(f.noise, 1) IN
    <<128 * B(f.x, 1) + B(f.noise, 96) + 16 * B(f.s, 1) + f.pid>>
    \o (IF f.x THEN <<B(f.i, 128) + B(f.l, 64) + f.tk + B(f.noise, 15)>> ELSE <<>>)
    \o (IF f.x /\ f.i THEN (IF f.m THEN <<128 + 127 * n, 255 * n>> ELSE <<127 * n>>)
        ELSE <<>>)
    \o (IF f.x /\ f.l THEN <<255 * n>> ELSE <<>>)
    \o (IF f.x /\ f.tk # 0 THEN <<255 * n>> ELSE <<>>)

Frame(f) ==
    <<B(f.p, 1) + B(f.noise, 254), 255 * B(f.noise, 1), 0>>
    \o (IF f.magic THEN <<157, 1, 42>> ELSE <<157, 1, 43>>)
    \o <<64, 1, 240, 0>>

\* Whether every part the detection must read is present in the first n
\* bytes, and then what it must report
Expected(f, n) ==
    LET d == Len(Descriptor(f)) IN
    CASE n < d                          -> {}
      [] ~(f.s /\ f.pid = 0)            -> {FALSE}
      [] n < d + 3                      -> {}
      [] f.p                            -> {FALSE}
      [] n < d + 6 \/ ~f.magic \/ n < d + 10 -> {}
      [] OTHER                          -> {TRUE}

\* For every descriptor layout (extension, picture id of 7 or 15 bits,
\* TL0PICIDX, TID/KEYIDX byte), partition start and index, frame tag and
\* start code, and every truncation of the packet, the parser finds the
\* payload where the layout puts it and reports a keyframe exactly for an
\* intact key frame at the start of partition 0, and an error exactly
\* when a field it reads is cut off: the key_frame flag of a VP8 packet
\* never follows from a misread field.
Vp8KeyframesParsed ==
    \A f \in Layouts :
        LET pkt == Descriptor(f) \o Frame(f) IN
        \A n \in 0..Len(pkt) : Vp8IsKeyframe(SubSeq(pkt, 1, n)) = Expected(f, n)

=============================================================================
