--------------------------- MODULE AudioBroadcast ---------------------------
(***************************************************************************)
(* One ClientAudioBroadcaster (rtc/src/broadcast/audio.rs): the fan-out of *)
(* one publishing client's audio source to the senders ("sinks") of the    *)
(* receiving clients.  Every action runs under the broadcaster's mutex, so *)
(* each is atomic.  Time is discrete; AudioTimeout is the 500 ms in its    *)
(* units.                                                                  *)
(*                                                                         *)
(* The source is a native client's NativeAudioSourceSupplier              *)
(* (rtc/src/client/native.rs), fed by librtc_audio_source_supply.  The    *)
(* host numbers every packet and stop it supplies; the supplier takes its *)
(* stops out of the numbering.  Its channel is FIFO and read only by the  *)
(* broadcast, so a supplied event and its handling are one step.  An RTP  *)
(* source yields the same three events (packet, end signal, end).         *)
(*                                                                         *)
(* The sinks are of two kinds.  An RTP receiver's RtpClientAudioSender     *)
(* reports the stream through the client_stream_start / _stop callbacks: *)
(* view[c] is "live" after a start, "idle" before any start or after a    *)
(* stop, "none" when c has no sink (a dropped RTP sender only sends a BYE *)
(* with reason InternalEnding, no callback).  A native receiver's         *)
(* NativeClientAudioSender numbers what it sends: the packet's number     *)
(* plus its own count of stops.                                            *)
(***************************************************************************)
EXTENDS Naturals, Sequences, SequencesExt

CONSTANTS
    Clients,        \* receiving client ids (model values)
    RtpClients,     \* clients with an RTC connection and no native one
    NativeClients,  \* clients with a native connection (preferred over RTC)
    None,           \* model value for Option::None
    AudioTimeout,   \* 500 ms in clock units: test_timeout stops when elapsed > it
    MaxTime,        \* bound on the clock
    SeqBits         \* width of the sequence numbers (u16 in the code)

ASSUME /\ RtpClients \cup NativeClients \subseteq Clients
       /\ RtpClients \cap NativeClients = {}
       /\ AudioTimeout \in Nat /\ MaxTime \in Nat /\ None \notin Nat

\* create_audio_sender returns Some only for a client with a connection
Connected == RtpClients \cup NativeClients

Modulus == 2^SeqBits
Numbers == 0..(Modulus - 1)

VARIABLES
    sender,         \* Vec<Box<dyn ClientAudioSender>>, as the owner ids in order
    lastSendPacket, \* last_send_packet: Option<Instant>
    ended,          \* poll_source has returned true (source stream gone)
    view,           \* RTP receivers' stream state, see the header
    now,            \* Instant::now()
    wire,           \* the number the host gives its next packet or stop
    inStops,        \* NativeAudioSourceSupplier.stop_packet_count
    lastSeq,        \* NativeClientAudioSender.last_sequence_id of each sender
    outStops,       \* NativeClientAudioSender.stop_packet_count of each sender
    fresh           \* auxiliary: native senders that have not sent a packet yet

nativeVars == <<wire, inStops, lastSeq, outStops, fresh>>
vars == <<sender, lastSendPacket, ended, view, now, nativeVars>>

Views == {"none", "idle", "live"}

TypeOK ==
    /\ sender \in Seq(Clients)
    /\ lastSendPacket \in (0..MaxTime) \cup {None}
    /\ ended \in BOOLEAN
    /\ view \in [RtpClients -> Views]
    /\ now \in 0..MaxTime
    /\ wire \in Numbers
    /\ inStops \in Numbers
    /\ lastSeq \in [NativeClients -> Numbers]
    /\ outStops \in [NativeClients -> Numbers]
    /\ fresh \subseteq NativeClients

Sinks == ToSet(sender)

\* ClientAudioBroadcaster::new, with a fresh supplier
Init ==
    /\ sender = <<>>
    /\ lastSendPacket = None
    /\ ended = FALSE
    /\ view = [c \in RtpClients |-> "none"]
    /\ now = 0
    /\ wire = 0
    /\ inStops = 0
    /\ lastSeq = [r \in NativeClients |-> 0]
    /\ outStops = [r \in NativeClients |-> 0]
    /\ fresh = {}

\* Mutant: a counter advanced with + instead of wrapping_add
PlainInc(n) == n + 1

\* wrapping_add(1) on a u16
WrappingInc(n) == (n + 1) % Modulus

\* Mutant: the supplier forwards the host's number unchanged
VirtualSeqRaw(seq, stops) == seq

\* NativeAudioSourceSupplier::send: seq_no.wrapping_sub(stop_packet_count)
VirtualSeq(seq, stops) == (seq - stops + Modulus) % Modulus

\* The number a NativeClientAudioSender sends:
\* last_sequence_id.wrapping_add(stop_packet_count)
SendNumber(seq, stops) == (seq + stops) % Modulus

\* NativeClientAudioSender::send_stop of every native sink: each counts a stop
StopSinks ==
    outStops' = [r \in NativeClients |->
                   IF r \in Sinks THEN WrappingInc(outStops[r]) ELSE outStops[r]]

\* stop_stream(reason): only a broadcast that has sent a packet stops its sinks
StopStream ==
    IF lastSendPacket # None
    THEN /\ lastSendPacket' = None
         /\ view' = [c \in RtpClients |-> IF c \in Sinks THEN "idle" ELSE view[c]]
         /\ StopSinks
    ELSE UNCHANGED <<lastSendPacket, view, outStops>>

\* poll_source, AudioSourceEvent::Packet {sequence = seq}: start every sink
\* on the first packet after a stop, then send it to every sink
SourcePacket(seq) ==
    /\ ~ended
    /\ view' = IF lastSendPacket = None
               THEN [c \in RtpClients |-> IF c \in Sinks THEN "live" ELSE view[c]]
               ELSE view
    /\ lastSendPacket' = now
    /\ lastSeq' = [r \in NativeClients |-> IF r \in Sinks THEN seq ELSE lastSeq[r]]
    /\ fresh' = fresh \ Sinks
    /\ UNCHANGED <<sender, ended, now, outStops>>

\* poll_source, AudioSourceEvent::EndSignal (the client sent a stop)
SourceEndSignal ==
    /\ ~ended
    /\ StopStream
    /\ UNCHANGED <<sender, ended, now, lastSeq, fresh>>

\* librtc_audio_source_supply with data: the supplier sends a Packet
\* numbered without its stops
Supply ==
    /\ SourcePacket(VirtualSeq(wire, inStops))
    /\ wire' = WrappingInc(wire)
    /\ UNCHANGED inStops

\* librtc_audio_source_supply without data: NativeAudioSourceSupplier::send_stop
\* counts the stop and sends EndSignal
SupplyStop ==
    /\ SourceEndSignal
    /\ wire' = WrappingInc(wire)
    /\ inStops' = WrappingInc(inStops)

\* poll_source: the source returned None; the broadcast reports its end
SourceEnded ==
    /\ ~ended
    /\ ended' = TRUE
    /\ UNCHANGED <<sender, lastSendPacket, view, now, nativeVars>>

\* test_timeout(now): `at` is the Instant the caller took, possibly before
\* the last packet (the channel sweep takes it before locking each broadcast);
\* checked_duration_since then yields 0.
TestTimeout(at) ==
    /\ IF lastSendPacket # None /\ at > lastSendPacket
          /\ at - lastSendPacket > AudioTimeout
       THEN StopStream
       ELSE UNCHANGED <<lastSendPacket, view, outStops>>
    /\ UNCHANGED <<sender, ended, now, wire, inStops, lastSeq, fresh>>

\* NativeConnection::create_audio_sender: a sender that has sent nothing and
\* sends a stop at once, so that the receiver resets its sequence
CreateNativeSender(c) ==
    /\ lastSeq' = [lastSeq EXCEPT ![c] = 0]
    /\ outStops' = [outStops EXCEPT ![c] = WrappingInc(0)]
    /\ fresh' = fresh \cup {c}

\* The sink a connected client gets: an RTP sender is started at once if
\* the stream runs (send_start of a native sender does nothing)
AttachSink(c) ==
    IF c \in RtpClients
    THEN /\ view' = [view EXCEPT ![c] = IF lastSendPacket # None THEN "live" ELSE "idle"]
         /\ UNCHANGED <<lastSeq, outStops, fresh>>
    ELSE /\ CreateNativeSender(c)
         /\ UNCHANGED view

\* Mutant: register_client pushes what create_audio_sender returned
\* without matching Some (a client without connection yields None)
RegisterClientUnchecked(c) ==
    /\ c \notin Sinks
    /\ sender' = Append(sender, IF c \in Connected THEN c ELSE None)
    /\ IF c \in Connected THEN AttachSink(c) ELSE UNCHANGED <<view, lastSeq, outStops, fresh>>
    /\ UNCHANGED <<lastSendPacket, ended, now, wire, inStops>>

\* Mutant: register_client without the send_start for a running stream
RegisterClientNoStart(c) ==
    /\ c \notin Sinks
    /\ c \in Connected
    /\ sender' = Append(sender, c)
    /\ IF c \in RtpClients
       THEN view' = [view EXCEPT ![c] = "idle"] /\ UNCHANGED <<lastSeq, outStops, fresh>>
       ELSE AttachSink(c)
    /\ UNCHANGED <<lastSendPacket, ended, now, wire, inStops>>

\* register_client(client): idempotent; a client without a connection gets
\* no sender (and is never retried)
RegisterClient(c) ==
    /\ c \notin Sinks
    /\ IF c \in Connected
       THEN /\ sender' = Append(sender, c)
            /\ AttachSink(c)
       ELSE UNCHANGED <<sender, view, lastSeq, outStops, fresh>>
    /\ UNCHANGED <<lastSendPacket, ended, now, wire, inStops>>

\* remove_client(client_id): drops the sender; returns whether one was removed
RemoveClient(c) ==
    /\ c \in Sinks
    /\ sender' = SelectSeq(sender, LAMBDA s : s # c)
    /\ view' = IF c \in RtpClients THEN [view EXCEPT ![c] = "none"] ELSE view
    /\ UNCHANGED <<lastSendPacket, ended, now, nativeVars>>

\* poll_senders: a sender whose event stream returned None is dropped; a
\* native sender's poll_event is always Pending
SenderClosed(c) ==
    /\ c \in RtpClients
    /\ RemoveClient(c)

Tick ==
    /\ now < MaxTime
    /\ now' = now + 1
    /\ UNCHANGED <<sender, lastSendPacket, ended, view, nativeVars>>

Next ==
    \/ Supply
    \/ SupplyStop
    \/ SourceEnded
    \/ \E at \in {now - 1, now} \cap Nat : TestTimeout(at)
    \/ \E c \in Clients : RegisterClient(c) \/ RemoveClient(c) \/ SenderClosed(c)
    \/ Tick

Spec == Init /\ [][Next]_vars

-----------------------------------------------------------------------------
(* Properties *)

\* Every attached RTP receiver's stream state agrees with the broadcast: it
\* was started iff a packet went out since the last stop.  A sink attached
\* mid-stream therefore gets client_stream_start before its first packet,
\* and a timeout or end signal stops each running sink exactly once.
SinkViewConsistent ==
    \A c \in RtpClients :
        view[c] = IF c \notin Sinks THEN "none"
                  ELSE IF lastSendPacket # None THEN "live" ELSE "idle"

\* What each native receiver was last sent, and whether it is in sequence
Delivery == INSTANCE ConsecutiveDelivery WITH
    Receivers <- NativeClients,
    last <- [r \in NativeClients |-> SendNumber(lastSeq[r], outStops[r])],
    phase <- [r \in NativeClients |->
                IF r \notin Sinks THEN "none"
                ELSE IF r \in fresh THEN "reset" ELSE "seq"]

\* Every native receiver gets packets and stop signals numbered one after
\* the other (modulo 2^16) from its first packet on, whatever the mix of
\* the host's stops, the broadcast's timeout stops and late registrations:
\* the supplier's subtraction and each sender's addition of stops cancel.
ConsecutiveNumbers == Delivery!Spec
=============================================================================
