--------------------------- MODULE VideoBroadcast ---------------------------
(***************************************************************************)
(* One ClientVideoBroadcaster (rtc/src/broadcast/video.rs): the fan-out of *)
(* one camera or screen stream to the senders of the watching clients, and *)
(* the keyframe (PLI) requests it passes back to the publishing client.    *)
(* Every method runs under the broadcaster's mutex and is one action; the  *)
(* sender task (poll_senders) and the broadcast task (poll_source) are the *)
(* two tasks that take it.                                                 *)
(*                                                                         *)
(* Time is discrete.  The durations are CONSTANTS; the model relies only   *)
(* on their order, not on the 500 ms / 7 s / 5 s of the code.              *)
(* joined is what the publishing client has been told through            *)
(* notify_client_join / notify_client_leave.  The start/stop callbacks to  *)
(* the sinks are as in AudioBroadcast and are left out here.               *)
(*                                                                         *)
(* The source is the publisher's RtpClientVideoSource                      *)
(* (rtc/src/client/rtp_receiver.rs) over its RtpMediaReceiver: it waits    *)
(* for the MediaReceiver (recv), applies its bitrate limit to it and       *)
(* yields packets only while it owns it.                                  *)
(***************************************************************************)
EXTENDS Naturals, Sequences, SequencesExt, Vp8

CONSTANTS
    Clients,          \* watching client ids (model values)
    None,             \* Option::None
    PliInterval,      \* PLI_MIN_REQUEST_INTERVAL
    KeyframeInterval, \* auto_keyframe_interval (0 disables it)
    VideoTimeout,     \* test_timeout threshold
    MaxTime,          \* bound on the clock while no timer is armed
    Bitrates,         \* non-zero bitrate limits a configure call may set
    MaxVideoBitrate   \* RTCConnection.max_video_bitrate

ASSUME PliInterval \in Nat \ {0} /\ KeyframeInterval \in Nat
       /\ VideoTimeout \in Nat /\ MaxTime \in Nat /\ None \notin Nat
       /\ Bitrates \subseteq Nat \ {0} /\ MaxVideoBitrate \in Bitrates

\* RtpMediaReceiverState
ReceiverStates == {"receiving", "owned", "destroyed"}

\* An Option<u32> bandwidth limit (None: unlimited)
Limits == Bitrates \cup {None}

VARIABLES
    sender,        \* Vec<Box<dyn ClientVideoSender>>, as owner ids
    joined,        \* clients the source was told joined and not yet left
    lastPacket,    \* last_received_packet
    lastKeyframe,  \* last_received_keyframe
    pliTs,         \* pli_request_timestamp
    pliTimer,      \* pli_request_timer, as its deadline
    withheld,      \* history: a PLI was asked for and not yet sent
    ended,         \* poll_source returned true
    now,
    kfInterval,    \* auto_keyframe_interval
    recv,          \* state of the source's RtpMediaReceiver
    bandwidthLimit,\* RtpClientVideoSource.bandwidth_limit
    rxLimit        \* the bandwidth limit set on the MediaReceiver

srcVars == <<kfInterval, recv, bandwidthLimit, rxLimit>>
vars == <<sender, joined, lastPacket, lastKeyframe, pliTs, pliTimer, withheld,
          ended, now, srcVars>>

Time == 0..(MaxTime + PliInterval)

TypeOK ==
    /\ sender \in Seq(Clients)
    /\ joined \subseteq Clients
    /\ lastPacket \in Time \cup {None}
    /\ lastKeyframe \in Time \cup {None}
    /\ pliTs \in Time
    \* an armed delay is due within one interval after the last PLI
    /\ pliTimer \in {None} \cup (pliTs + 1)..(pliTs + PliInterval)
    /\ withheld \in BOOLEAN
    /\ ended \in BOOLEAN
    /\ now \in Time
    /\ kfInterval \in {0, KeyframeInterval}
    /\ recv \in ReceiverStates
    /\ bandwidthLimit \in Limits
    /\ rxLimit \in Limits

Sinks == ToSet(sender)

\* Bound: packets, registrations and receiver requests happen up to MaxTime;
\* after it only an armed delay can still fire
InWindow == now <= MaxTime

\* ClientVideoBroadcaster::new over a fresh RtpClientVideoSource, whose
\* borrower waits for the MediaReceiver; register_remote_stream capped the
\* receiver at max_video_bitrate.
Init ==
    /\ sender = <<>>
    /\ joined = {}
    /\ lastPacket = None
    /\ lastKeyframe = None
    /\ pliTs = 0
    /\ pliTimer = None
    /\ withheld = FALSE
    /\ ended = FALSE
    /\ now = 0
    /\ kfInterval = KeyframeInterval
    /\ recv = "receiving"
    /\ bandwidthLimit = None
    /\ rxLimit = MaxVideoBitrate

\* Mutant: the delay armed for one interval from now (delay_for) instead of
\* from the last PLI (delay_until)
RequestPliDelayFor(force) ==
    IF force \/ now - pliTs > PliInterval
    THEN [ts |-> now, timer |-> None, sent |-> TRUE, asked |-> TRUE]
    ELSE [ts |-> pliTs,
          timer |-> IF pliTimer = None THEN now + PliInterval ELSE pliTimer,
          sent |-> FALSE, asked |-> TRUE]

\* Mutant: a request inside the interval is dropped, no delay is armed
RequestPliNoTimer(force) ==
    IF force \/ now - pliTs > PliInterval
    THEN [ts |-> now, timer |-> None, sent |-> TRUE, asked |-> TRUE]
    ELSE [ts |-> pliTs, timer |-> pliTimer, sent |-> FALSE, asked |-> TRUE]

\* request_pli(force): the PLI state after the call, as a record.  A request
\* inside the interval arms the timer for pli_request_timestamp + interval
\* unless one is armed already.
RequestPli(force) ==
    IF force \/ now - pliTs > PliInterval
    THEN [ts |-> now, timer |-> None, sent |-> TRUE, asked |-> TRUE]
    ELSE [ts |-> pliTs,
          timer |-> IF pliTimer = None THEN pliTs + PliInterval ELSE pliTimer,
          sent |-> FALSE, asked |-> TRUE]

\* No request in this step
NoPli == [ts |-> pliTs, timer |-> pliTimer, sent |-> FALSE, asked |-> FALSE]

\* Apply the outcome r of the step's requests
ApplyPli(r) ==
    /\ pliTs' = r.ts
    /\ pliTimer' = r.timer
    /\ withheld' = IF r.sent THEN FALSE ELSE withheld \/ r.asked

\* stop_stream: sinks are stopped only if a packet went out; the keyframe
\* time is forgotten either way
StopStream ==
    /\ lastPacket' = None
    /\ lastKeyframe' = None

\* The tail of poll_source: a due timer is cleared and forces a PLI
PollTimer(r) ==
    IF r.timer # None /\ now >= r.timer
    THEN RequestPli(TRUE)
    ELSE r

-----------------------------------------------------------------------------
(* The publisher's RtpClientVideoSource *)

\* RtpClientVideoSource::poll_next yields packets and end signals only from
\* the MediaReceiver it owns (packets of another payload type are skipped,
\* receiver messages other than BYE are consumed)
Delivering == ~ended /\ recv = "owned"

\* RtpClientVideoSource::set_bitrate: applied to the MediaReceiver if the
\* source owns it, and kept for when it gets it
SetBitrate(b) ==
    /\ bandwidthLimit' = b
    /\ rxLimit' = IF recv = "owned" THEN b ELSE rxLimit

\* ClientVideoBroadcaster::configure: a field is applied only when its
\* update_mask bit is set; a bitrate of 0 means unlimited
ApplyOptions(br, kf) ==
    /\ IF br.set THEN SetBitrate(IF br.value = 0 THEN None ELSE br.value)
       ELSE UNCHANGED <<bandwidthLimit, rxLimit>>
    /\ kfInterval' = IF kf.set THEN kf.value ELSE kfInterval

\* librtc_client_broadcast_video_configure on this broadcast, and the
\* configure call of broadcast_client_video right after its creation (the
\* broadcast task may already poll the source)
Configure(br, kf) ==
    /\ InWindow
    /\ br.set \/ kf.set
    /\ ApplyOptions(br, kf)
    /\ UNCHANGED <<sender, joined, lastPacket, lastKeyframe, pliTs, pliTimer,
                   withheld, ended, now, recv>>

\* poll_source meets ReceiverReceived: the borrower owns the MediaReceiver;
\* the source requests a PLI from its publisher and sets its bandwidth
\* limit on it
ReceiverReceived ==
    /\ ~ended /\ recv = "receiving"
    /\ recv' = "owned"
    /\ rxLimit' = bandwidthLimit
    /\ ApplyPli(PollTimer(NoPli))
    /\ UNCHANGED <<sender, joined, lastPacket, lastKeyframe, ended, now,
                   kfInterval, bandwidthLimit>>

\* poll_source with one Packet event (an H264 or VP8 payload; key is what
\* the codec's parser found, Vp8IsKeyframe for VP8): only an owned receiver delivers data
SourcePacket(key) ==
    LET auto == /\ ~key /\ lastKeyframe # None /\ kfInterval # 0
                /\ now - lastKeyframe >= kfInterval
        r == IF auto THEN RequestPli(FALSE) ELSE NoPli
    IN
    /\ Delivering /\ InWindow
    /\ lastKeyframe' = IF key \/ auto THEN now ELSE lastKeyframe
    /\ lastPacket' = now
    /\ ApplyPli(PollTimer(r))
    /\ UNCHANGED <<sender, joined, ended, now, srcVars>>

\* poll_source with a SequenceEndSignal (the publisher sent a BYE)
SourceSequenceEnd ==
    /\ Delivering
    /\ StopStream
    /\ ApplyPli(PollTimer(NoPli))
    /\ UNCHANGED <<sender, joined, ended, now, srcVars>>

\* poll_source with Ended: the RtpMediaReceiver's poll returned None (its
\* oneshot was dropped, the stream ended, or the receiver was revoked and
\* destroyed); returns true at once, the timer is not polled
SourceEnded ==
    /\ ~ended
    /\ ended' = TRUE
    /\ recv' = "destroyed"
    /\ UNCHANGED <<sender, joined, lastPacket, lastKeyframe, pliTs, pliTimer,
                   withheld, now, kfInterval, bandwidthLimit, rxLimit>>

\* poll_source woken with no source event (the timer or request_pli's wake)
SourceWake ==
    /\ ~ended
    /\ pliTimer # None /\ now >= pliTimer
    /\ ApplyPli(PollTimer(NoPli))
    /\ UNCHANGED <<sender, joined, lastPacket, lastKeyframe, ended, now, srcVars>>

\* test_timeout(now)
TestTimeout ==
    /\ lastPacket # None /\ now - lastPacket > VideoTimeout
    /\ StopStream
    /\ UNCHANGED <<sender, joined, pliTs, pliTimer, withheld, ended, now, srcVars>>

-----------------------------------------------------------------------------
(* The broadcast's sink list *)

\* register_client: notify the source, attach, and force a keyframe
RegisterClient(c) ==
    /\ InWindow
    /\ c \notin Sinks
    /\ sender' = Append(sender, c)
    /\ joined' = joined \cup {c}
    /\ ApplyPli(RequestPli(TRUE))
    /\ UNCHANGED <<lastPacket, lastKeyframe, ended, now, srcVars>>

\* remove_client: detach every sender of c and notify the source
RemoveClient(c) ==
    /\ c \in Sinks
    /\ sender' = SelectSeq(sender, LAMBDA s : s # c)
    /\ joined' = joined \ {c}
    /\ UNCHANGED <<lastPacket, lastKeyframe, pliTs, pliTimer, withheld, ended, now,
                   srcVars>>

\* Mutant: poll_senders drops closed senders without notify_client_leave
PollSendersNoLeave(closed, pli) ==
    /\ InWindow
    /\ closed \cup pli \subseteq Sinks
    /\ closed \cup pli # {}
    /\ sender' = SelectSeq(sender, LAMBDA s : s \notin closed)
    /\ UNCHANGED joined
    /\ IF pli # {} THEN ApplyPli(RequestPli(FALSE))
       ELSE UNCHANGED <<pliTs, pliTimer, withheld>>
    /\ UNCHANGED <<lastPacket, lastKeyframe, ended, now, srcVars>>

\* poll_senders (the task spawned by new): the senders in `closed` ended
\* their event stream (poll_event returned None) and are dropped with a
\* leave notification; those in `pli` relayed a PictureLossIndication as
\* RequestPLI, which is aggregated into one rate-limited request
PollSenders(closed, pli) ==
    /\ InWindow
    /\ closed \cup pli \subseteq Sinks
    /\ closed \cup pli # {}
    /\ sender' = SelectSeq(sender, LAMBDA s : s \notin closed)
    /\ joined' = joined \ closed
    /\ IF pli # {} THEN ApplyPli(RequestPli(FALSE))
       ELSE UNCHANGED <<pliTs, pliTimer, withheld>>
    /\ UNCHANGED <<lastPacket, lastKeyframe, ended, now, srcVars>>

\* The clock runs to MaxTime, and on while a timer is waiting to fire
Tick ==
    /\ \/ now < MaxTime
       \/ pliTimer # None /\ now < pliTimer
    /\ now' = now + 1
    /\ UNCHANGED <<sender, joined, lastPacket, lastKeyframe, pliTs, pliTimer,
                   withheld, ended, srcVars>>

\* End of the bounded behaviour: the broadcast idles (no delay is armed, or
\* its task is done)
Quiescent == ~(now < MaxTime) /\ (pliTimer = None \/ ended) /\ UNCHANGED vars

\* A VideoBroadcastOptions field: its update_mask bit and its value
Option(values) == {[set |-> FALSE, value |-> 0]} \cup [set : {TRUE}, value : values]
\* bitrate: 0 (unlimited) or a limit; keyframe interval: 0 (off) or the default
BitrateOptions == Option({0} \cup Bitrates)
KeyframeOptions == Option({0, KeyframeInterval})

Next ==
    \/ \E key \in BOOLEAN : SourcePacket(key)
    \/ SourceSequenceEnd
    \/ SourceEnded
    \/ SourceWake
    \/ ReceiverReceived
    \/ TestTimeout
    \/ \E br \in BitrateOptions, kf \in KeyframeOptions : Configure(br, kf)
    \/ \E c \in Clients : RegisterClient(c) \/ RemoveClient(c)
    \/ \E closed, pli \in SUBSET Clients : PollSenders(closed, pli)
    \/ Tick
    \/ Quiescent

\* The delay wakes the broadcast task when it is due; the clock advances.
Spec == Init /\ [][Next]_vars /\ WF_vars(SourceWake) /\ WF_vars(Tick)

-----------------------------------------------------------------------------
(* Properties *)

\* The publishing client's view of who watches (notify_client_join minus
\* notify_client_leave) is exactly the sink list, across registration,
\* removal and the reaping of closed senders in poll_senders.
WatchersNotified == joined = Sinks

\* A keyframe request held back by the 500 ms rate limit (a receiver's PLI
\* or the auto-keyframe interval) is not lost: a PLI reaches the source
\* later, through the armed delay, a forced request, or a later request,
\* unless the source ends first (its task, which polls the delay, is done).
PliRequestServed == withheld ~> (~withheld \/ ended)

\* A keyframe time recorded by poll_source rests on a VP8 parse that is
\* right: whenever the broadcast has taken a packet for a keyframe, the
\* parser behind the key flag (VP8PayloadDescriptor::parse and
\* vp8_is_keyframe) reports a keyframe exactly for intact key frames at the
\* start of partition 0 and an error exactly for a truncated field, for
\* every descriptor layout and truncation (Vp8KeyframesParsed).
Vp8KeyframeDetected == lastKeyframe # None => Vp8KeyframesParsed

=============================================================================
