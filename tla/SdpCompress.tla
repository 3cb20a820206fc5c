----------------------------- MODULE SdpCompress -----------------------------
(***************************************************************************)
(* The JSON compression of a session description (rtc/src/sdp.rs, mode1): *)
(* compress_sdp folds the media lines of an SdpSession into one map of    *)
(* ICE transports by ufrag, one of codec descriptions by payload type and *)
(* one of header extensions by id, and lists every media line by the keys *)
(* into those maps (an application line is kept raw).  Four passes, each *)
(* over every line in order, and the first error ends the compression.   *)
(*                                                                         *)
(* A media line is a record of the attributes the passes read.  Strings  *)
(* stay values of small sets: a codec (rtpmap name, clock rate and        *)
(* channels) is one value, a feedback entry is a record whose wild is   *)
(* TRUE for the "*" payload type, a transport's password, fingerprint, ice-options and setup are  *)
(* one credential value (cred = {} when any of the four is missing).  The *)
(* session and origin lines, mid and the ssrc attributes are copied      *)
(* through unchanged and are left out; so is the JSON encoding.          *)
(* An Option is a set: {} is None or an error, {x} is Some(x) or Ok(x).   *)
(***************************************************************************)
EXTENDS Naturals, Sequences, SequencesExt

CONSTANT MaxMediaLines   \* bound on the media lines of a session

Unwrap(o) == CHOOSE x \in o : TRUE

\* the rtpmap/rtcp-fb/fmtp attribute's payload type matches
ForPt(pt, e) == e[1] = pt

\* generate_codec_info: the first rtpmap of the payload type, every rtcp-fb
\* for it or for "*", in order, and the first fmtp of it
GenerateCodecInfo(line, pt) ==
    LET i == SelectInSeq(line.rtpmap, LAMBDA e : ForPt(pt, e))
        j == SelectInSeq(line.fmtp, LAMBDA e : ForPt(pt, e))
    IN  IF i = 0 THEN {}
        ELSE {[pt       |-> pt,
               codec    |-> line.rtpmap[i][2],
               feedback |-> SelectSeq(line.fb, LAMBDA e : e.wild \/ e.pt = pt),
               params   |-> IF j = 0 THEN {} ELSE {line.fmtp[j][2]}]}

\* generate_transport_info: None when a credential attribute is missing
GenerateTransportInfo(line) ==
    IF line.cred = {} THEN {}
    ELSE {[cred |-> Unwrap(line.cred), cands |-> line.cands]}

Fail(acc, e) == [acc EXCEPT !.err = {e}]

\* The ICE pass: a line's ufrag keys its transport; a later line of the
\* same ufrag only lends its candidates to an entry that has none
IcePass(acc, line) ==
    LET t == GenerateTransportInfo(line)
        u == Unwrap(line.ufrag)
    IN  CASE acc.err # {}       -> acc
          [] line.ufrag = {}    -> Fail(acc, "MissingIceUfrag")
          [] t = {}             -> Fail(acc, "FailedToBuildTransportInfo")
          [] u \notin DOMAIN acc.ice -> [acc EXCEPT !.ice = @ @@ (u :> Unwrap(t))]
          [] acc.ice[u].cands = <<>> /\ Unwrap(t).cands # <<>> ->
                 [acc EXCEPT !.ice[u].cands = Unwrap(t).cands]
          [] OTHER              -> acc

\* Mutant: a codec id already in the map is kept whatever the line says
CodecStepKeepFirst(acc, line, pt) ==
    LET g == GenerateCodecInfo(line, pt) IN
    CASE acc.err # {}              -> acc
      [] g = {}                    -> Fail(acc, "CodecInfoBuildFailed")
      [] pt \in DOMAIN acc.codecs  -> acc
      [] OTHER -> [acc EXCEPT !.codecs = @ @@ (pt :> Unwrap(g))]

\* One codec id of a line's format list
CodecStep(acc, line, pt) ==
    LET g == GenerateCodecInfo(line, pt) IN
    CASE acc.err # {}              -> acc
      [] g = {}                    -> Fail(acc, "CodecInfoBuildFailed")
      [] pt \in DOMAIN acc.codecs  ->
             IF acc.codecs[pt] # Unwrap(g)
             THEN Fail(acc, "InconsistentCodecTypes") ELSE acc
      [] OTHER -> [acc EXCEPT !.codecs = @ @@ (pt :> Unwrap(g))]

\* The codec pass: application lines carry no codecs; a format list that
\* is not of integers is an error
CodecPass(acc, line) ==
    CASE acc.err # {}                -> acc
      [] line.type = "application"   -> acc
      [] line.fmtKind # "integers"   -> Fail(acc, "InvalidCodecFormatList")
      [] OTHER -> FoldLeft(LAMBDA a, pt : CodecStep(a, line, pt), acc, line.formats)

\* The extension pass: one URI per extmap id across the whole session
ExtPass(acc, line) ==
    LET Step(a, e) ==
            CASE a.err # {}              -> a
              [] e[1] \notin DOMAIN a.ext -> [a EXCEPT !.ext = @ @@ (e[1] :> e[2])]
              [] a.ext[e[1]] # e[2]      -> Fail(a, "InconsistentExtensions")
              [] OTHER                   -> a
    IN  FoldLeft(Step, acc, line.ext)

\* The media pass: a raw application line, or the line by its keys, the
\* extension ids sorted
MediaPass(acc, line) ==
    CASE acc.err # {}                -> acc
      [] line.type = "application"   ->
             [acc EXCEPT !.media = Append(@, [raw |-> {line}])]
      [] line.fmtKind # "integers"   -> Fail(acc, "InvalidCodecFormatList")
      [] line.ufrag = {}             -> Fail(acc, "MissingIceUfrag")
      [] OTHER ->
             [acc EXCEPT !.media = Append(@,
                 [raw |-> {}, type |-> line.type, codecs |-> line.formats,
                  ext |-> SortSeq([k \in DOMAIN line.ext |-> line.ext[k][1]],
                                  LAMBDA a, b : a < b),
                  transport |-> Unwrap(line.ufrag)])]

\* mode1::compress_sdp: the four passes in order; [err, info]
CompressSdp(s) ==
    LET a0 == [err |-> {}, ice |-> <<>>, codecs |-> <<>>, ext |-> <<>>,
               media |-> <<>>]
        a1 == FoldLeft(IcePass, a0, s)
        a2 == FoldLeft(CodecPass, a1, s)
        a3 == FoldLeft(ExtPass, a2, s)
    IN  FoldLeft(MediaPass, a3, s)


(***************************************************************************)
(* The reference: what a consistent session must come back as.  There is *)
(* no decompress_sdp (it is unimplemented), so Decode reads a media entry *)
(* back through the three maps, and ExpectedLine is what the line itself  *)
(* says.                                                                   *)
(***************************************************************************)
Decode(r, i) ==
    LET m == r.media[i] IN
    IF m.raw # {} THEN [raw |-> m.raw]
    ELSE [raw |-> {}, type |-> m.type,
          codecs |-> [k \in DOMAIN m.codecs |-> r.codecs[m.codecs[k]]],
          ext |-> [k \in DOMAIN m.ext |-> <<m.ext[k], r.ext[m.ext[k]]>>],
          transport |-> r.ice[m.transport]]

\* the candidates of a ufrag: those of the one line of it that has any
GroupCands(s, u) ==
    LET i == SelectInSeq(s, LAMBDA l : l.ufrag = {u} /\ l.cands # <<>>)
    IN  IF i = 0 THEN <<>> ELSE s[i].cands

ExpectedLine(s, i) ==
    LET l == s[i] IN
    IF l.type = "application" THEN [raw |-> {l}]
    ELSE [raw |-> {}, type |-> l.type,
          codecs |-> [k \in DOMAIN l.formats |->
                          Unwrap(GenerateCodecInfo(l, l.formats[k]))],
          ext |-> SortSeq(l.ext, LAMBDA a, b : a[1] < b[1]),
          transport |-> [cred |-> Unwrap(l.cred),
                         cands |-> GroupCands(s, Unwrap(l.ufrag))]]

NonApp(s) == {i \in DOMAIN s : s[i].type # "application"}
Pts(l) == {l.formats[k] : k \in DOMAIN l.formats}

\* A session compress_sdp can encode: every line has its ICE attributes,
\* every audio or video line lists integer payload types that each have an
\* rtpmap, a payload type means one codec and an extmap id one extension
\* in every line
Encodable(s) ==
    /\ \A i \in DOMAIN s : s[i].ufrag # {} /\ s[i].cred # {}
    /\ \A i \in NonApp(s) : /\ s[i].fmtKind = "integers"
                            /\ \A pt \in Pts(s[i]) : GenerateCodecInfo(s[i], pt) # {}
    /\ \A i, j \in NonApp(s) : \A pt \in Pts(s[i]) \cap Pts(s[j]) :
           GenerateCodecInfo(s[i], pt) = GenerateCodecInfo(s[j], pt)
    /\ \A i, j \in DOMAIN s : \A a \in Range(s[i].ext), b \in Range(s[j].ext) :
           a[1] = b[1] => a[2] = b[2]

\* Lines bundled on one ufrag agree on its credentials, and at most one of
\* them lists candidates (the libwebrtc shape the ICE pass assumes)
TransportsAgree(s) ==
    \A i, j \in DOMAIN s :
        s[i].ufrag = s[j].ufrag =>
            /\ s[i].cred = s[j].cred
            /\ s[i].cands = <<>> \/ s[j].cands = <<>> \/ s[i].cands = s[j].cands

(***************************************************************************)
(* The lines the sessions are built from: each family varies the fields   *)
(* one pass reads and keeps the others at a well-formed value.            *)
(***************************************************************************)
NackFb == [wild |-> FALSE, pt |-> 1, kind |-> "nack"]
Line(type, uf, cr, ca, fk, fo, rm, fb, fm, ex) ==
    [type |-> type, ufrag |-> uf, cred |-> cr, cands |-> ca, fmtKind |-> fk,
     formats |-> fo, rtpmap |-> rm, fb |-> fb, fmtp |-> fm, ext |-> ex]

IceLines ==
    {Line(t, uf, cr, ca, "integers", <<1>>, <<<<1, "opus">>>>, <<>>, <<>>, <<>>) :
        t \in {"audio", "application"}, uf \in {{}, {"u1"}, {"u2"}},
        cr \in {{}, {"c1"}, {"c2"}}, ca \in {<<>>, <<"k1">>, <<"k2">>}}

CodecLines ==
    {Line("video", {"u1"}, {"c1"}, <<>>, fk, fo, rm, fb, fm, <<>>) :
        fk \in {"integers", "strings"}, fo \in {<<1>>, <<1, 2>>, <<2>>},
        rm \in {<<>>, <<<<1, "opus">>>>, <<<<1, "vp8">>>>,
                <<<<1, "opus">>, <<2, "opus">>, <<1, "vp8">>>>},
        fb \in {<<>>, <<[wild |-> TRUE, pt |-> 0, kind |-> "pli"]>>, <<NackFb>>},
        fm \in {<<>>, <<<<1, "p">>>>}}

ExtLines ==
    {Line("audio", {"u1"}, {"c1"}, <<>>, "integers", <<1>>, <<<<1, "opus">>>>,
          <<>>, <<>>, ex) :
        ex \in {<<<<1, "a">>>>, <<<<1, "b">>>>, <<<<2, "b">>, <<1, "a">>>>}}

Lines == IceLines \cup CodecLines \cup ExtLines

Sessions == UNION {[1..n -> Lines] : n \in 1..MaxMediaLines}

\* compress_sdp succeeds exactly on the sessions it can encode, and then
\* every media line of a session whose bundled lines agree on their
\* transport reads back through the ice, codecs and extensions maps as the
\* line itself said: a codec id or extmap id never stands for two values,
\* and the ICE pass's merge of bundled lines loses no candidates.
SdpCompressionFaithfulAll ==
    \A s \in Sessions :
        LET r == CompressSdp(s) IN
        /\ r.err = {} <=> Encodable(s)
        /\ r.err = {} /\ TransportsAgree(s) =>
               \A i \in DOMAIN s : Decode(r, i) = ExpectedLine(s, i)

=============================================================================
