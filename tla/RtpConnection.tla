---------------------------- MODULE RtpConnection ----------------------------
(***************************************************************************)
(* The media plumbing of one WebRTC client (rtc/src/client/rtp.rs,        *)
(* rtp_receiver.rs, rtp_sender.rs): the hand-off of one remote stream's   *)
(* MediaReceiver between the RtpMediaReceiver borrowers that sources and  *)
(* the void task take from its InternalMediaReceiver, and the pool of     *)
(* MediaSenders lent to broadcasts.  reset() is the step that touches     *)
(* both.                                                                   *)
(*                                                                         *)
(* The MediaReceiver is a unique object that moves between places: the    *)
(* oneshot of a Receiving borrower (inbox), an Owned borrower, and the     *)
(* return channel (retq, its count).  Nothing marks it lost: a step that   *)
(* drops the place it is in drops it.  Every borrower is polled by its     *)
(* own task (the broadcast task of a source, or the VoidMediaReceiver      *)
(* task); the return channel is drained by the connection's receiver-poll  *)
(* task of execute_peer.                                                   *)
(***************************************************************************)
EXTENDS Naturals, FiniteSets, MediaSender, SdpCompress

CONSTANTS
    MaxGets,        \* bound on get_receiver calls (create_audio/video_source)
    RetCapacity     \* mpsc::channel(2) of InternalMediaReceiver::new

\* Every borrower: one void borrower per hand-back with no requester, at most
\* one more than the sources requested
Borrowers == 1..(2 * MaxGets + 1)
NoBorrower == 0

\* RtpMediaReceiverState, with "none" for an id not yet used and "gone" for a
\* dropped borrower (Destroyed, or a poll that returned None)
BorrowerStates == {"none", "receiving", "owned", "gone"}

VARIABLES
    registered,    \* the InternalMediaReceiver is in registered_receivers
    everRegistered,\* register_remote_stream has run (one remote stream)
    bst,           \* state of each RtpMediaReceiver
    isVoid,        \* borrowers owned by a VoidMediaReceiver task
    inbox,         \* borrowers whose oneshot holds the MediaReceiver
    nextRx,        \* next_receiver: whose recv oneshot sender is kept
    revokeHolder,  \* revoke_signal_sender: whose revoke oneshot is kept
    revoke,        \* each borrower's revoke signal: idle, fired or closed
    retq,          \* MediaReceivers in the return channel
    streamEnded,   \* the MediaReceiver's event stream ended
    gets           \* get_receiver calls so far

recvVars == <<registered, everRegistered, bst, isVoid, inbox, nextRx,
              revokeHolder, revoke, retq, streamEnded, gets>>

RecvTypeOK ==
    /\ registered \in BOOLEAN /\ everRegistered \in BOOLEAN
    /\ bst \in [Borrowers -> BorrowerStates]
    /\ isVoid \subseteq Borrowers /\ inbox \subseteq Borrowers
    /\ nextRx \in Borrowers \cup {NoBorrower}
    /\ revokeHolder \in Borrowers \cup {NoBorrower}
    /\ revoke \in [Borrowers -> {"idle", "fired", "closed"}]
    /\ retq \in 0..RetCapacity
    /\ streamEnded \in BOOLEAN
    /\ gets \in 0..MaxGets

RecvInit ==
    /\ registered = FALSE /\ everRegistered = FALSE
    /\ bst = [b \in Borrowers |-> "none"]
    /\ isVoid = {} /\ inbox = {}
    /\ nextRx = NoBorrower /\ revokeHolder = NoBorrower
    /\ revoke = [b \in Borrowers |-> "idle"]
    /\ retq = 0
    /\ streamEnded = FALSE
    /\ gets = 0

\* The next unused borrower id
FreshBorrower == CHOOSE b \in Borrowers : bst[b] = "none" /\ \A x \in 1..(b-1) : bst[x] # "none"

\* Mutant: the previous revoke sender is replaced without being fired
GetReceiverInternalNoRevoke(b) ==
    /\ bst' = [bst EXCEPT ![b] = "receiving"]
    /\ nextRx' = b
    /\ revokeHolder' = b
    /\ revoke' = revoke

\* get_receiver_internal: a new Receiving borrower b becomes next_receiver
\* and revoke holder; the previous revoke sender is fired
GetReceiverInternal(b) ==
    /\ bst' = [bst EXCEPT ![b] = "receiving"]
    /\ nextRx' = b
    /\ revokeHolder' = b
    /\ revoke' = IF revokeHolder = NoBorrower THEN revoke
                 ELSE [revoke EXCEPT ![revokeHolder] = "fired"]

\* void_receiver_handle: get_receiver_internal(true), the stream sent into
\* the new borrower's oneshot at once, and a VoidMediaReceiver task spawned
VoidReceiverHandle(b) ==
    LET old == revokeHolder IN
    /\ bst' = [bst EXCEPT ![b] = "receiving"]
    /\ nextRx' = NoBorrower
    /\ revokeHolder' = b
    /\ revoke' = IF old = NoBorrower THEN revoke ELSE [revoke EXCEPT ![old] = "fired"]
    /\ inbox' = inbox \cup {b}
    /\ isVoid' = isVoid \cup {b}

\* register_remote_stream: InternalMediaReceiver::new voids the stream
RegisterRemoteStream ==
    /\ ~everRegistered
    /\ registered' = TRUE /\ everRegistered' = TRUE
    /\ VoidReceiverHandle(FreshBorrower)
    /\ UNCHANGED <<retq, streamEnded, gets>>

\* create_audio_source / create_video_source of a registered stream:
\* get_receiver, and the source holding the borrower is handed to the host
GetReceiver ==
    /\ registered /\ gets < MaxGets
    /\ GetReceiverInternal(FreshBorrower)
    /\ gets' = gets + 1
    /\ UNCHANGED <<registered, everRegistered, isVoid, inbox, retq, streamEnded>>

\* RtpMediaReceiver::destroy on an Owned borrower: try_send into the return
\* channel; the receiver is dropped if the channel is full or closed
GiveBack == retq' = IF registered /\ retq < RetCapacity THEN retq + 1 ELSE retq

\* Poll of a Receiving borrower whose oneshot holds the stream: Owned
\* (ReceiverReceived)
BorrowerReceive(b) ==
    /\ bst[b] = "receiving" /\ b \in inbox
    /\ bst' = [bst EXCEPT ![b] = "owned"]
    /\ inbox' = inbox \ {b}
    /\ UNCHANGED <<registered, everRegistered, isVoid, nextRx, revokeHolder,
                   revoke, retq, streamEnded, gets>>

\* Poll of a Receiving borrower whose oneshot sender is gone (replaced as
\* next_receiver, or dropped with the InternalMediaReceiver): Ready(Err),
\* the poll returns None and the source (or void task) ends and drops it
BorrowerOrphaned(b) ==
    /\ bst[b] = "receiving" /\ b \notin inbox /\ nextRx # b
    /\ bst' = [bst EXCEPT ![b] = "gone"]
    /\ UNCHANGED <<registered, everRegistered, isVoid, inbox, nextRx,
                   revokeHolder, revoke, retq, streamEnded, gets>>

\* Mutant: a closed revoke signal is treated like a pending one
BorrowerRevokedFiredOnly(b) ==
    /\ bst[b] = "owned" /\ revoke[b] = "fired"
    /\ bst' = [bst EXCEPT ![b] = "gone"]
    /\ GiveBack
    /\ UNCHANGED <<registered, everRegistered, isVoid, inbox, nextRx,
                   revokeHolder, revoke, streamEnded, gets>>

\* Poll of an Owned borrower whose revoke signal fired: destroy() gives the
\* stream back and the poll returns None.  A closed revoke signal (the
\* InternalMediaReceiver is gone) returns None at once; the drop that
\* follows runs destroy() against the closed channel.
BorrowerRevoked(b) ==
    /\ bst[b] = "owned" /\ revoke[b] # "idle"
    /\ bst' = [bst EXCEPT ![b] = "gone"]
    /\ GiveBack
    /\ UNCHANGED <<registered, everRegistered, isVoid, inbox, nextRx,
                   revokeHolder, revoke, streamEnded, gets>>

\* Poll of an Owned borrower whose MediaReceiver stream ended: Destroyed.
\* return_channel.send(None) builds a future that is never polled, so the
\* InternalMediaReceiver is not told.
StreamEnd(b) ==
    /\ bst[b] = "owned" /\ ~streamEnded
    /\ bst' = [bst EXCEPT ![b] = "gone"]
    /\ streamEnded' = TRUE
    /\ UNCHANGED <<registered, everRegistered, isVoid, inbox, nextRx,
                   revokeHolder, revoke, retq, gets>>

\* The host drops a source (its broadcast is shut down or replaced): Drop
\* runs destroy(), which gives back an Owned stream; a Receiving borrower's
\* oneshot receiver is dropped with whatever it holds
DropSource(b) ==
    /\ b \notin isVoid /\ bst[b] \in {"receiving", "owned"}
    /\ bst' = [bst EXCEPT ![b] = "gone"]
    /\ IF bst[b] = "owned" THEN GiveBack ELSE UNCHANGED retq
    /\ inbox' = inbox \ {b}
    /\ UNCHANGED <<registered, everRegistered, isVoid, nextRx, revokeHolder,
                   revoke, streamEnded, gets>>

\* InternalMediaReceiver::poll takes one stream from the return channel and
\* sends it to next_receiver.  Without one, or when that borrower is gone
\* (send fails, the stream is put back and taken again at once), the stream
\* is voided.
InternalPoll ==
    /\ registered /\ retq > 0
    /\ retq' = retq - 1
    /\ IF nextRx # NoBorrower /\ bst[nextRx] = "receiving"
       THEN /\ inbox' = inbox \cup {nextRx}
            /\ nextRx' = NoBorrower
            /\ UNCHANGED <<bst, isVoid, revokeHolder, revoke>>
       ELSE VoidReceiverHandle(FreshBorrower)
    /\ UNCHANGED <<registered, everRegistered, streamEnded, gets>>

\* reset() drops the InternalMediaReceiver: its oneshot senders close and
\* the return channel is dropped with its content
ResetReceivers ==
    /\ registered' = FALSE
    /\ nextRx' = NoBorrower
    /\ revokeHolder' = NoBorrower
    /\ revoke' = IF revokeHolder = NoBorrower THEN revoke
                 ELSE [revoke EXCEPT ![revokeHolder] = "closed"]
    /\ retq' = 0
    /\ UNCHANGED <<everRegistered, bst, isVoid, inbox, streamEnded, gets>>
-----------------------------------------------------------------------------
(* The sender pool: registered_sender and the RtpClientMediaSenders lent   *)
(* out of it.  A sender is known by its internal sender_id; ids are not     *)
(* reused within the bound.                                                 *)

CONSTANTS
    Kinds,          \* SdpMediaValue of a sender (audio, video)
    SenderBatch,    \* senders created at once when none is free (6)
    MaxSenders,     \* bound on created senders
    MaxBorrows,     \* bound on create_audio_sender / create_video_sender calls
    MaxTerminations \* bound on MediaSenders whose event stream ends

SenderIds == 1..MaxSenders

VARIABLES
    senders,       \* sender_ids in registered_sender
    stype,         \* sender_type of each created sender
    sstate,        \* InternalMediaSenderState: owned or borrowed
    terminated,    \* senders whose MediaSender event stream ended
    nextSender,    \* media_sender_id_index
    handles,       \* senders held by a live RtpClientMediaSender
    releasing,     \* senders whose release task is queued
    assigned,      \* the host's view through client_stream_assignment
    borrows        \* sender requests so far

poolVars == <<senders, stype, sstate, terminated, nextSender, handles, releasing,
              assigned, borrows>>

PoolTypeOK ==
    /\ senders \subseteq SenderIds
    /\ stype \in [SenderIds -> Kinds]
    /\ sstate \in [SenderIds -> {"owned", "borrowed"}]
    /\ terminated \subseteq SenderIds
    /\ nextSender \in 1..(MaxSenders + 1)
    /\ handles \subseteq SenderIds /\ releasing \subseteq SenderIds
    /\ assigned \subseteq SenderIds
    /\ borrows \in 0..MaxBorrows

PoolInit ==
    /\ senders = {}
    /\ stype = [i \in SenderIds |-> CHOOSE k \in Kinds : TRUE]
    /\ sstate = [i \in SenderIds |-> "owned"]
    /\ terminated = {}
    /\ nextSender = 1
    /\ handles = {} /\ releasing = {} /\ assigned = {}
    /\ borrows = 0

\* create_media_sender, n times for kind k: Owned senders appended with the
\* next ids
CreateMediaSenders(k, n) ==
    LET new == nextSender..(nextSender + n - 1) IN
    /\ nextSender + n - 1 <= MaxSenders
    /\ senders' = senders \cup new
    /\ stype' = [i \in SenderIds |-> IF i \in new THEN k ELSE stype[i]]
    /\ nextSender' = nextSender + n

\* apply_remote_description with an offer: a sender for each free send line
\* (one free line of kind k here)
ApplyRemoteOffer(k) ==
    /\ CreateMediaSenders(k, 1)
    /\ UNCHANGED <<sstate, terminated, handles, releasing, assigned, borrows>>

\* The first Owned sender of kind k in registered_sender (ids grow along the
\* VecDeque)
FirstOwned(k) ==
    LET free == {i \in senders : stype[i] = k /\ sstate[i] = "owned"}
    IN  IF free = {} THEN 0 ELSE CHOOSE i \in free : \A j \in free : i <= j

\* Lend sender i: Borrowed, client_stream_assignment(ssrc, media type), and
\* a new RtpClientMediaSender holding it
Lend(i) ==
    /\ sstate' = [sstate EXCEPT ![i] = "borrowed"]
    /\ handles' = handles \cup {i}
    /\ assigned' = assigned \cup {i}
    /\ borrows' = borrows + 1

\* Mutant: after creating the batch, the id one past its last is lent
GetCreateMediaSenderPastEnd(k) ==
    /\ borrows < MaxBorrows
    /\ IF FirstOwned(k) # 0
       THEN /\ Lend(FirstOwned(k))
            /\ UNCHANGED <<senders, stype, nextSender>>
       ELSE /\ CreateMediaSenders(k, SenderBatch)
            /\ Lend(nextSender + SenderBatch)
    /\ UNCHANGED <<terminated, releasing>>

\* get_create_media_sender: take the first free sender of the kind, or
\* create SenderBatch senders and take the last of them
GetCreateMediaSender(k) ==
    /\ borrows < MaxBorrows
    /\ IF FirstOwned(k) # 0
       THEN /\ Lend(FirstOwned(k))
            /\ UNCHANGED <<senders, stype, nextSender>>
       ELSE /\ CreateMediaSenders(k, SenderBatch)
            /\ Lend(nextSender + SenderBatch - 1)
    /\ UNCHANGED <<terminated, releasing>>

\* Mutant: the drop hands the sender to no release task
DropSenderNoRelease(i) ==
    /\ i \in handles
    /\ handles' = handles \ {i}
    /\ UNCHANGED <<senders, stype, sstate, terminated, nextSender, releasing,
                   assigned, borrows>>

\* Drop of RtpClientMediaSender: the sender goes to a spawned release task
DropSender(i) ==
    /\ i \in handles
    /\ handles' = handles \ {i}
    /\ releasing' = releasing \cup {i}
    /\ UNCHANGED <<senders, stype, sstate, terminated, nextSender, assigned, borrows>>

\* Mutant: the release task does not call client_stream_assignment
HandleMediaSenderReleasedNoReport(i) ==
    /\ i \in releasing
    /\ releasing' = releasing \ {i}
    /\ IF i \in senders
       THEN sstate' = [sstate EXCEPT ![i] = "owned"]
       ELSE UNCHANGED sstate
    /\ UNCHANGED <<senders, stype, terminated, nextSender, handles, assigned,
                   borrows>>

\* The release task: handle_media_sender_released finds the sender by id,
\* makes it Owned and reports client_stream_assignment(ssrc, 0); a sender no
\* longer registered is dropped
HandleMediaSenderReleased(i) ==
    /\ i \in releasing
    /\ releasing' = releasing \ {i}
    /\ IF i \in senders
       THEN /\ sstate' = [sstate EXCEPT ![i] = "owned"]
            /\ assigned' = assigned \ {i}
       ELSE UNCHANGED <<sstate, assigned>>
    /\ UNCHANGED <<senders, stype, terminated, nextSender, handles, borrows>>

\* webrtc_lib ends a sender's event stream
SenderTerminated(i) ==
    /\ i \in senders \ terminated
    /\ Cardinality(terminated) < MaxTerminations
    /\ terminated' = terminated \cup {i}
    /\ UNCHANGED <<senders, stype, sstate, nextSender, handles, releasing,
                   assigned, borrows>>

\* The sender loop of execute_peer: Owned senders whose stream ended get id
\* 0 and are removed by retain
ExecutePeer ==
    LET dead == {i \in senders : sstate[i] = "owned" /\ i \in terminated} IN
    /\ dead # {}
    /\ senders' = senders \ dead
    /\ UNCHANGED <<stype, sstate, terminated, nextSender, handles, releasing,
                   assigned, borrows>>
-----------------------------------------------------------------------------
(* The connection *)

CONSTANT MaxResets  \* bound on librtc_reset_rtp_session calls

VARIABLE resets

vars == <<recvVars, poolVars, resets>>

TypeOK == RecvTypeOK /\ PoolTypeOK /\ resets \in 0..MaxResets

Init == RecvInit /\ PoolInit /\ resets = 0

\* librtc_reset_rtp_session: RTCConnection::reset clears registered_sender
\* and registered_receivers (no release is reported to the host)
Reset ==
    /\ resets < MaxResets
    /\ resets' = resets + 1
    /\ ResetReceivers
    /\ senders' = {}
    /\ UNCHANGED <<stype, sstate, terminated, nextSender, handles, releasing,
                   assigned, borrows>>

\* Calls the host makes through the FFI
HostStep ==
    \/ /\ \/ \E k \in Kinds : ApplyRemoteOffer(k) \/ GetCreateMediaSender(k)
          \/ \E i \in SenderIds : DropSender(i)
       /\ UNCHANGED <<recvVars, resets>>
    \/ /\ GetReceiver \/ \E b \in Borrowers : DropSource(b)
       /\ UNCHANGED <<poolVars, resets>>
    \/ Reset

\* The host makes no more calls: the connection idles
Finished == ~ENABLED HostStep /\ UNCHANGED vars

Next ==
    \/ HostStep
    \/ (\/ RegisterRemoteStream
        \/ InternalPoll
        \/ \E b \in Borrowers :
              BorrowerReceive(b) \/ BorrowerOrphaned(b) \/ BorrowerRevoked(b) \/ StreamEnd(b))
       /\ UNCHANGED <<poolVars, resets>>
    \/ (\/ \E i \in SenderIds : HandleMediaSenderReleased(i) \/ SenderTerminated(i)
        \/ ExecutePeer)
       /\ UNCHANGED <<recvVars, resets>>
    \/ Finished

\* Every borrower is polled by its own task, woken by its oneshots; the
\* receiver-poll and peer tasks of execute_peer and the release tasks run.
Spec ==
    /\ Init /\ [][Next]_vars
    /\ \A b \in Borrowers : /\ WF_recvVars(BorrowerReceive(b))
                            /\ WF_recvVars(BorrowerOrphaned(b))
                            /\ WF_recvVars(BorrowerRevoked(b))
    /\ WF_recvVars(InternalPoll)
    /\ \A i \in SenderIds : WF_poolVars(HandleMediaSenderReleased(i))
    /\ WF_poolVars(ExecutePeer)
-----------------------------------------------------------------------------
(* Properties *)

\* Places that hold the remote stream's MediaReceiver
Holders == Cardinality({b \in Borrowers : bst[b] = "owned"}) + Cardinality(inbox) + retq

\* While its InternalMediaReceiver is registered and the stream lives, the
\* MediaReceiver is in exactly one place (a borrower's oneshot, an Owned
\* borrower, or the return channel) across get_receiver, revokes, the
\* forwarding in InternalMediaReceiver::poll, voiding and source drops: no
\* hand-off loses it.
ReceiverConserved == registered /\ ~streamEnded => Holders = 1

\* A borrower that owns the stream is the latest one handed out, or its
\* revoke signal has fired or closed: get_receiver_internal and
\* void_receiver_handle never supersede an owner without telling it.
OwnerIsCurrentOrRevoked ==
    \A b \in Borrowers :
        bst[b] = "owned" => b = revokeHolder \/ revoke[b] # "idle"

\* An owner that a later borrower superseded (or that outlived reset)
\* eventually lets go of the stream.
SupersededOwnerYields ==
    \A b \in Borrowers :
        (bst[b] = "owned" /\ revokeHolder # b) ~> bst[b] # "owned"

\* For every registered sender, the host's stream-assignment view (the
\* client_stream_assignment calls of get_create_media_sender and of the
\* release task) says assigned exactly when the sender is Borrowed.
AssignmentViewFaithful ==
    \A i \in senders : i \in assigned <=> sstate[i] = "borrowed"

\* A registered sender whose RtpClientMediaSender was dropped eventually is
\* Owned again (lendable) or no longer registered.
DroppedSenderReturns ==
    \A i \in SenderIds :
        (i \in senders /\ sstate[i] = "borrowed" /\ i \notin handles)
            ~> (i \notin senders \/ sstate[i] = "owned")

\* Whenever a lent MediaSender is wrapped by an RtpClientMediaSender (a
\* handle of create_audio_sender or create_video_sender), what that
\* sender puts on the wire is right for any calls the broadcast makes:
\* each packet carries the payload type of the codec list the remote
\* negotiated last (not one cached before a RemoteCodecsUpdated or a
\* codec switch), a packet of a codec the remote lacks is withheld, and
\* the sequence numbers go on from the MediaSender's own across the
\* 16-bit wrap (MediaSendersFaithfulAll in MediaSender).
MediaSendersFaithful == handles # {} => MediaSendersFaithfulAll

\* The session description compression of rtc/src/sdp.rs (compress_sdp,
\* SdpCompress), which nothing in the connection calls yet, is checked
\* beside it as a pure operator: for any session of up to MaxMediaLines
\* media lines, compression fails exactly when the session cannot be
\* encoded, and otherwise every line reads back through the shared codec,
\* extension and ICE maps as it was (SdpCompressionFaithfulAll).
SdpCompressionFaithful == handles # {} => SdpCompressionFaithfulAll

====
