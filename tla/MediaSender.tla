---------------------------- MODULE MediaSender ----------------------------
(***************************************************************************)
(* The senders a broadcast writes one client's media through              *)
(* (rtc/src/client/rtp_sender.rs): RtpClientMediaSender rebases the       *)
(* broadcast's virtual sequence numbers onto the sequence of the borrowed  *)
(* webrtc MediaSender; RtpClientVideoSender and RtpClientAudioSender keep  *)
(* the payload types of the remote's negotiated codecs and refresh them    *)
(* when the MediaSender reports RemoteCodecsUpdated.                       *)
(*                                                                         *)
(* One sender's life is a sequence of calls: a "send" from the broadcast   *)
(* task (a codec and a virtual sequence number) or a "poll" of its event   *)
(* stream that finds RemoteCodecsUpdated (with the codec list the remote   *)
(* has then).  A sender is a record folded over its calls; the packets it  *)
(* puts on the wire are the result.  A remote codec list is a sequence of  *)
(* records [name, pt, stereo] (RtpCodec: codec_name, payload_type, the     *)
(* opus stereo parameter, FALSE when absent); remote_codecs() = None is    *)
(* the empty list, which every caller treats alike.  Payloads, timestamps  *)
(* (rebased by the same arithmetic on u32), the audio level extension and  *)
(* the start and stop notifications carry no state the calls read, and    *)
(* are left out.  An Option is a set: {} is None, {x} is Some(x).          *)
(***************************************************************************)
EXTENDS Naturals, Sequences, SequencesExt

CONSTANTS
    SeqNoRange,         \* the range of a u16 sequence number (2^16 in the code)
    StartSeqs,      \* current_sequence_no of the MediaSender when lent
    VirtualSeqNos,  \* virtual sequence numbers the broadcast passes
    PtA, PtB,       \* two dynamic payload types a remote may assign
    MaxCalls        \* bound on the calls made on one sender

ASSUME StartSeqs \cup VirtualSeqNos \subseteq 0..(SeqNoRange - 1)

OPUS_VOICE_PAYLOAD_TYPE == 111
OPUS_MUSIC_PAYLOAD_TYPE == 112
\* The MediaSender's payload type before the sender sets one
NoPayloadType == 0

The(o) == CHOOSE x \in o : TRUE

Codec(name, pt, stereo) == [name |-> name, pt |-> pt, stereo |-> stereo]

\* codecs.iter().find(..).payload_type
FindPt(codecs, Test(_)) ==
    LET i == SelectInSeq(codecs, Test) IN IF i = 0 THEN {} ELSE {codecs[i].pt}

-----------------------------------------------------------------------------
(* RtpClientMediaSender *)

\* base_seq, virtual_base_seq, and the MediaSender's current_sequence_no
MediaSenderInit(cur) == [baseSeq |-> {}, virtualBaseSeq |-> 0, cur |-> cur]

\* Mutant: the offset from the virtual base is added without wrapping
MediaSendNoWrap(m, v) ==
    IF m.baseSeq # {}
    THEN LET seq == The(m.baseSeq) + v - m.virtualBaseSeq
         IN  <<[m EXCEPT !.cur = seq + 1], seq>>
    ELSE <<[m EXCEPT !.baseSeq = {m.cur}, !.virtualBaseSeq = v], m.cur>>

\* RtpClientMediaSender::send: the first packet fixes both bases; every
\* later one is the stream base plus the wrapping distance from the
\* virtual base.  <<sender after, sequence number on the wire>>
MediaSend(m, v) ==
    IF m.baseSeq # {}
    THEN LET seq == (The(m.baseSeq) + v - m.virtualBaseSeq) % SeqNoRange
         IN  <<[m EXCEPT !.cur = (seq + 1) % SeqNoRange], seq>>
    ELSE <<[m EXCEPT !.baseSeq = {m.cur}, !.virtualBaseSeq = v], m.cur>>

-----------------------------------------------------------------------------
(* RtpClientVideoSender *)

\* update_payload_type: the payload type of the last codec sent, if the
\* remote supports it; nothing before the first packet
UpdatePayloadType(s) ==
    IF s.last = {} THEN s
    ELSE LET p == IF s.last = {"VP8"} THEN s.vp8 ELSE s.h264 IN
         IF p # {} THEN [s EXCEPT !.supported = TRUE, !.pt = The(p)]
         ELSE [s EXCEPT !.supported = FALSE]

\* update_video_codec: the first H264 and VP8 entries of the remote's list
UpdateVideoCodec(s, codecs) ==
    UpdatePayloadType([s EXCEPT !.h264 = FindPt(codecs, LAMBDA c : c.name = "H264"),
                                !.vp8  = FindPt(codecs, LAMBDA c : c.name = "VP8")])

\* RtpClientVideoSender::new over a lent MediaSender
VideoSenderNew(codecs, cur) ==
    UpdateVideoCodec([base |-> MediaSenderInit(cur), supported |-> FALSE,
                      last |-> {}, h264 |-> {}, vp8 |-> {}, pt |-> NoPayloadType],
                     codecs)

\* ClientVideoSender::send: a codec change re-selects the payload type; a
\* packet of a codec the remote does not support is dropped.
\* <<sender after, packets put on the wire>>
VideoSend(s, codec, v) ==
    LET s1 == IF s.last # {codec}
              THEN UpdatePayloadType([s EXCEPT !.last = {codec}]) ELSE s
        r  == MediaSend(s1.base, v)
    IN  IF s1.supported
        THEN <<[s1 EXCEPT !.base = r[1]], <<[pt |-> s1.pt, seq |-> r[2]]>>>>
        ELSE <<s1, <<>>>>

\* One call on a video sender: poll_event meeting RemoteCodecsUpdated, or send
VideoStep(acc, call) ==
    IF call.op = "poll"
    THEN [acc EXCEPT !.s = UpdateVideoCodec(@, call.codecs)]
    ELSE LET r == VideoSend(acc.s, call.codec, call.v)
         IN  [s |-> r[1], out |-> acc.out \o r[2]]

VideoSenderRun(codecs, cur, calls) ==
    FoldLeft(VideoStep, [s |-> VideoSenderNew(codecs, cur), out |-> <<>>], calls).out

-----------------------------------------------------------------------------
(* RtpClientAudioSender *)

\* update_payload_format_ids: opus mono for voice and opus stereo for
\* music; a remote that lists a single codec gets it for both when it is
\* opus; the constants where nothing fits
UpdatePayloadFormatIds(codecs) ==
    LET mono   == FindPt(codecs, LAMBDA c : c.name = "opus" /\ ~c.stereo)
        stereo == FindPt(codecs, LAMBDA c : c.name = "opus" /\ c.stereo)
        Or(o, d) == IF o # {} THEN The(o) ELSE d
    IN  IF Len(codecs) = 1
        THEN CASE mono # {}   -> [voice |-> The(mono), music |-> The(mono)]
               [] stereo # {} -> [voice |-> The(stereo), music |-> The(stereo)]
               [] OTHER       -> [voice |-> OPUS_VOICE_PAYLOAD_TYPE,
                                  music |-> OPUS_MUSIC_PAYLOAD_TYPE]
        ELSE [voice |-> Or(mono, OPUS_VOICE_PAYLOAD_TYPE),
              music |-> Or(stereo, OPUS_MUSIC_PAYLOAD_TYPE)]

AudioSenderNew(codecs, cur) ==
    [base |-> MediaSenderInit(cur), ids |-> UpdatePayloadFormatIds(codecs)]

\* ClientAudioSender::send: the payload type of the codec, then the packet
AudioSend(s, codec, v) ==
    LET r == MediaSend(s.base, v)
    IN  <<[s EXCEPT !.base = r[1]],
          [pt |-> IF codec = "Opus" THEN s.ids.voice ELSE s.ids.music, seq |-> r[2]]>>

AudioStep(acc, call) ==
    IF call.op = "poll"
    THEN [acc EXCEPT !.s.ids = UpdatePayloadFormatIds(call.codecs)]
    ELSE LET r == AudioSend(acc.s, call.codec, call.v)
         IN  [s |-> r[1], out |-> Append(acc.out, r[2])]

AudioSenderRun(codecs, cur, calls) ==
    FoldLeft(AudioStep, [s |-> AudioSenderNew(codecs, cur), out |-> <<>>], calls).out

-----------------------------------------------------------------------------
(* Reference: what the remote must receive.  A packet of a codec goes out *)
(* with the payload type the codec list polled last gives it, and the     *)
(* sequence numbers continue the MediaSender's own from where it was lent, *)
(* at the distance (mod 2^16) the virtual numbers keep from the first one *)
(* sent.                                                                   *)

\* Remote codec lists: none, one codec, both, the preferred one listed
\* twice, and a renumbering of the same codecs
VideoOffers ==
    {<<>>, <<Codec("VP8", PtA, FALSE)>>,
     <<Codec("H264", PtA, FALSE), Codec("VP8", PtB, FALSE)>>,
     <<Codec("VP8", PtB, FALSE), Codec("VP8", PtA, FALSE), Codec("H264", PtA, FALSE)>>}

AudioOffers ==
    {<<>>, <<Codec("opus", PtB, TRUE)>>,
     <<Codec("opus", PtA, FALSE), Codec("opus", PtB, TRUE)>>,
     <<Codec("opus", PtB, FALSE), Codec("VP8", PtA, FALSE)>>}

Calls(offers, codecs) ==
    [op : {"poll"}, codecs : offers] \cup [op : {"send"}, codec : codecs, v : VirtualSeqNos]

RECURSIVE Expected(_, _, _, _, _)
\* The packets for calls, with L the list polled last and first the
\* virtual number of the first packet sent (an Option)
Expected(PtOf(_, _), L, cur, first, calls) ==
    IF calls = <<>> THEN <<>>
    ELSE LET c == Head(calls) IN
         IF c.op = "poll" THEN Expected(PtOf, c.codecs, cur, first, Tail(calls))
         ELSE LET pt == PtOf(L, c.codec)
                  f  == IF first = {} THEN c.v ELSE The(first)
              IN  IF pt = {} THEN Expected(PtOf, L, cur, first, Tail(calls))
                  ELSE <<[pt |-> The(pt), seq |-> (cur + c.v - f) % SeqNoRange]>>
                       \o Expected(PtOf, L, cur, {f}, Tail(calls))

\* A video codec goes out with its first listed payload type, or not at all
VideoPt(L, codec) == FindPt(L, LAMBDA c : c.name = codec)

\* An audio codec goes out with the payload type chosen for the list
AudioPt(L, codec) ==
    {IF codec = "Opus" THEN UpdatePayloadFormatIds(L).voice
     ELSE UpdatePayloadFormatIds(L).music}

\* For every codec list a remote starts with, every sequence number the
\* lent MediaSender is at, and every sequence of up to MaxCalls sends and
\* renegotiations, a video and an audio sender put on the wire exactly
\* the packets the codec list polled last allows, each with that list's
\* payload type (never one cached from an earlier negotiation or codec),
\* numbered on from the MediaSender's sequence without a gap or repeat
\* across the 16-bit wrap of either numbering (RtpClientMediaSender::send,
\* update_video_codec/update_payload_type, update_payload_format_ids and
\* the RemoteCodecsUpdated handling of both poll_event).
MediaSendersFaithfulAll ==
    /\ \A L \in VideoOffers, cur \in StartSeqs,
          calls \in BoundedSeq(Calls(VideoOffers, {"VP8", "H264"}), MaxCalls) :
          VideoSenderRun(L, cur, calls) = Expected(VideoPt, L, cur, {}, calls)
    /\ \A L \in AudioOffers, cur \in StartSeqs,
          calls \in BoundedSeq(Calls(AudioOffers, {"Opus", "OpusMusic"}), MaxCalls) :
          AudioSenderRun(L, cur, calls) = Expected(AudioPt, L, cur, {}, calls)

=============================================================================
