------------------------------- MODULE Channel -------------------------------
(***************************************************************************)
(* The channel registry (rtc/src/channel.rs) together with the background *)
(* tasks it and execute_broadcast (rtc/src/broadcast/mod.rs) spawn on the  *)
(* shared tokio pool.                                                      *)
(*                                                                         *)
(* Every Channel method runs under the channel's write lock and is one     *)
(* action.  The tasks spawned with execute_task run later, in any order,   *)
(* each as its own actions:                                                *)
(*   - the registration task of register_client (subscribe the new member  *)
(*     to the audio broadcasts, send it the video directory);             *)
(*   - the back-fill task of broadcast_client_audio (subscribe the members *)
(*     to the new broadcast);                                              *)
(*   - the directory task of broadcast_video_broadcast_update;             *)
(*   - the poll task of execute_broadcast, which upgrades its weak         *)
(*     reference, polls the source and, when the source has ended, calls   *)
(*     the shutdown callback under the channel write lock.                 *)
(*                                                                         *)
(* A broadcast is an instance id 1..MaxInst.  Its sinks are the receiving *)
(* client ids; the stream-level behaviour of a broadcast is the subject of *)
(* AudioBroadcast and VideoBroadcast.                                      *)
(***************************************************************************)
EXTENDS Naturals, FiniteSets

CONSTANTS
    Clients,        \* client ids (model values)
    Streams,        \* stream ids a client has a receiver for
    NoStream,       \* a stream id without a source (e.g. 0: stop broadcasting)
    VideoModes,     \* VideoBroadcastMode values
    NoBroadcast,    \* model value: no entry in a broadcast map
    Unknown,        \* model value: client has not been sent a directory
    MaxInst,        \* bound on the broadcasts ever created
    MaxOps          \* bound on the API calls and source ends of a behaviour

ASSUME NoStream \notin Streams /\ MaxInst \in Nat /\ MaxOps \in Nat

Inst == 1..MaxInst
Audio == "audio"
Kinds == {Audio} \cup VideoModes
Keys == VideoModes \X Clients              \* video_broadcasts keys

VARIABLES
    members,        \* channel.clients
    audio,          \* audio_broadcasts: client id -> broadcast
    video,          \* video_broadcasts: (mode, client id) -> broadcast
    nextInst,       \* next broadcast instance id
    owner, kind, stream,  \* source client, media kind and stream of each instance
    sinks,          \* ids of the clients owning a sender of each broadcast
    srcEnded,       \* the instance's source has returned None / Ended
    task,           \* execute_broadcast poll task of each instance
    regPending,     \* queued registration tasks per client
    fillPending,    \* queued back-fill tasks (one per audio broadcast)
    dirPending,     \* video_broadcast_update_pending
    dirTasks,       \* queued directory tasks
    dirView,        \* the video directory last sent to each client
    budget,         \* remaining API calls
    requested       \* history: the audio broadcast each client last started

vars == <<members, audio, video, nextInst, owner, kind, stream, sinks,
          srcEnded, task, regPending, fillPending, dirPending, dirTasks,
          dirView, budget, requested>>

TaskStates == {"idle", "polling", "ending", "done"}

TypeOK ==
    /\ members \subseteq Clients
    /\ audio \in [Clients -> Inst \cup {NoBroadcast}]
    /\ video \in [Keys -> Inst \cup {NoBroadcast}]
    /\ nextInst \in 1..MaxInst + 1
    /\ owner \in [Inst -> Clients]
    /\ kind \in [Inst -> Kinds]
    /\ stream \in [Inst -> Streams]
    /\ sinks \in [Inst -> SUBSET Clients]
    /\ srcEnded \in [Inst -> BOOLEAN]
    /\ task \in [Inst -> TaskStates]
    /\ regPending \in [Clients -> 0..MaxOps]
    /\ fillPending \subseteq Inst
    /\ dirPending \in BOOLEAN
    /\ dirTasks \in 0..MaxOps
    /\ dirView \in [Clients -> SUBSET Keys \cup {Unknown}]
    /\ budget \in 0..MaxOps
    /\ requested \in [Clients -> Inst \cup {NoBroadcast}]

Created == 1..(nextInst - 1)
MappedAudio == {audio[c] : c \in Clients} \ {NoBroadcast}
MappedVideo == {video[k] : k \in Keys} \ {NoBroadcast}
\* Directory entries: the keys of video_broadcasts (video_broadcast_info)
Directory == {k \in Keys : video[k] # NoBroadcast}
\* Arc::upgrade succeeds while the channel map or a running poll holds it
Alive(i) ==
    \/ i \in MappedAudio \cup MappedVideo
    \/ i \in Created /\ task[i] \in {"polling", "ending"}

Init ==
    /\ members = {}
    /\ audio = [c \in Clients |-> NoBroadcast]
    /\ video = [k \in Keys |-> NoBroadcast]
    /\ nextInst = 1
    /\ owner = [i \in Inst |-> CHOOSE c \in Clients : TRUE]
    /\ kind = [i \in Inst |-> Audio]
    /\ stream = [i \in Inst |-> CHOOSE s \in Streams : TRUE]
    /\ sinks = [i \in Inst |-> {}]
    /\ srcEnded = [i \in Inst |-> FALSE]
    /\ task = [i \in Inst |-> "idle"]
    /\ regPending = [c \in Clients |-> 0]
    /\ fillPending = {}
    /\ dirPending = FALSE
    /\ dirTasks = 0
    /\ dirView = [c \in Clients |-> Unknown]
    /\ budget = MaxOps
    /\ requested = [c \in Clients |-> NoBroadcast]

UseBudget == budget > 0 /\ budget' = budget - 1

\* broadcast_video_broadcast_update: coalesced behind the pending flag
RequestDirectoryUpdate ==
    IF dirPending THEN UNCHANGED <<dirPending, dirTasks>>
    ELSE dirPending' = TRUE /\ dirTasks' = dirTasks + 1

\* Creating a source borrows the client's receiver for stream s; the
\* previous borrower is revoked and its source ends (get_receiver).  The
\* native connection likewise replaces the sender of its only channel.
RevokeSources(c, isAudio, s) ==
    srcEnded' = [i \in Inst |->
        srcEnded[i] \/ (i \in Created /\ owner[i] = c /\ stream[i] = s
                        /\ (kind[i] = Audio) = isAudio)]

\* execute_broadcast with ClientAudioBroadcaster::new / ClientVideoBroadcaster::new
NewInstance(c, k, s) ==
    /\ nextInst <= MaxInst
    /\ nextInst' = nextInst + 1
    /\ owner' = [owner EXCEPT ![nextInst] = c]
    /\ kind' = [kind EXCEPT ![nextInst] = k]
    /\ stream' = [stream EXCEPT ![nextInst] = s]
    /\ RevokeSources(c, k = Audio, s)

-----------------------------------------------------------------------------
(* Channel methods *)

\* register_client: insert the member, spawn its registration task
RegisterClient(c) ==
    /\ UseBudget
    /\ c \notin members
    /\ members' = members \cup {c}
    /\ regPending' = [regPending EXCEPT ![c] = @ + 1]
    /\ dirView' = [dirView EXCEPT ![c] = Unknown]
    /\ UNCHANGED <<audio, video, nextInst, owner, kind, stream, sinks, srcEnded,
                   task, fillPending, dirPending, dirTasks, requested>>

\* Mutant: execute_broadcast's error (no source for the stream) is not
\* returned, so a broadcast is made and inserted without a source
BroadcastClientAudioNoSourceCheck(c, s) ==
    /\ UseBudget
    /\ c \in members
    /\ NewInstance(c, Audio, s)
    /\ audio' = [audio EXCEPT ![c] = nextInst]
    /\ fillPending' = fillPending \cup {nextInst}
    /\ requested' = [requested EXCEPT ![c] = audio'[c]]
    /\ UNCHANGED <<members, video, sinks, task, regPending, dirPending, dirTasks,
                   dirView>>

\* broadcast_client_audio: shut the old broadcast down, start a new one on
\* stream s and spawn its back-fill task.  With NoStream the client has no
\* source: the old broadcast is gone and ClientHasNoSource is returned.
BroadcastClientAudio(c, s) ==
    /\ UseBudget
    /\ c \in members
    /\ IF s = NoStream
       THEN /\ audio' = [audio EXCEPT ![c] = NoBroadcast]
            /\ UNCHANGED <<nextInst, owner, kind, stream, srcEnded, fillPending>>
       ELSE /\ NewInstance(c, Audio, s)
            /\ audio' = [audio EXCEPT ![c] = nextInst]
            /\ fillPending' = fillPending \cup {nextInst}
    /\ requested' = [requested EXCEPT ![c] = audio'[c]]
    /\ UNCHANGED <<members, video, sinks, task, regPending, dirPending, dirTasks,
                   dirView>>

\* broadcast_client_video: like audio, but peers are only told through the
\* directory (video is opt-in); shutdown_broadcast_video and the insert both
\* request a directory update.
BroadcastClientVideo(c, m, s) ==
    /\ UseBudget
    /\ c \in members
    /\ IF s = NoStream
       THEN /\ video' = [video EXCEPT ![<<m, c>>] = NoBroadcast]
            /\ UNCHANGED <<nextInst, owner, kind, stream, srcEnded>>
            /\ IF video[<<m, c>>] # NoBroadcast THEN RequestDirectoryUpdate
               ELSE UNCHANGED <<dirPending, dirTasks>>
       ELSE /\ NewInstance(c, m, s)
            /\ video' = [video EXCEPT ![<<m, c>>] = nextInst]
            /\ RequestDirectoryUpdate
    /\ UNCHANGED <<members, audio, sinks, task, regPending, fillPending, dirView, requested>>

\* Mutant: unregister_client without handing the borrowed flag back (line 304)
UnregisterClientNoReset(c, update) ==
    LET suppress == ~update /\ ~dirPending
        removedVideo == \E m \in VideoModes : video[<<m, c>>] # NoBroadcast
        audio1 == [audio EXCEPT ![c] = NoBroadcast]
        video1 == [k \in Keys |-> IF k[2] = c THEN NoBroadcast ELSE video[k]]
        remaining == ({audio1[x] : x \in Clients} \cup {video1[k] : k \in Keys})
                        \ {NoBroadcast}
    IN
    /\ UseBudget
    /\ c \in members
    /\ members' = members \ {c}
    /\ audio' = audio1
    /\ video' = video1
    /\ dirPending' = IF suppress THEN TRUE ELSE dirPending \/ removedVideo
    /\ dirTasks' = IF ~suppress /\ ~dirPending /\ removedVideo
                   THEN dirTasks + 1 ELSE dirTasks
    /\ sinks' = [i \in Inst |-> IF i \in remaining THEN sinks[i] \ {c} ELSE sinks[i]]
    /\ requested' = [requested EXCEPT ![c] = NoBroadcast]
    /\ UNCHANGED <<nextInst, owner, kind, stream, srcEnded, task, regPending,
                   fillPending, dirView>>

\* unregister_client(client_id, update_video_broadcaster_list)
UnregisterClient(c, update) ==
    LET suppress == ~update /\ ~dirPending
        removedVideo == \E m \in VideoModes : video[<<m, c>>] # NoBroadcast
        audio1 == [audio EXCEPT ![c] = NoBroadcast]
        video1 == [k \in Keys |-> IF k[2] = c THEN NoBroadcast ELSE video[k]]
        remaining == ({audio1[x] : x \in Clients} \cup {video1[k] : k \in Keys})
                        \ {NoBroadcast}
    IN
    /\ UseBudget
    /\ c \in members
    /\ members' = members \ {c}
    /\ audio' = audio1
    /\ video' = video1
    /\ dirPending' = IF suppress THEN FALSE ELSE dirPending \/ removedVideo
    /\ dirTasks' = IF ~suppress /\ ~dirPending /\ removedVideo
                   THEN dirTasks + 1 ELSE dirTasks
    /\ sinks' = [i \in Inst |-> IF i \in remaining THEN sinks[i] \ {c} ELSE sinks[i]]
    /\ requested' = [requested EXCEPT ![c] = NoBroadcast]
    /\ UNCHANGED <<nextInst, owner, kind, stream, srcEnded, task, regPending,
                   fillPending, dirView>>

\* join_video_broadcast: register the client on an existing video broadcast
JoinVideoBroadcast(c, t, m) ==
    /\ UseBudget
    /\ c \in members
    /\ video[<<m, t>>] # NoBroadcast
    /\ sinks' = [sinks EXCEPT ![video[<<m, t>>]] = @ \cup {c}]
    /\ UNCHANGED <<members, audio, video, nextInst, owner, kind, stream,
                   srcEnded, task, regPending, fillPending, dirPending,
                   dirTasks, dirView, requested>>

\* leave_video_broadcast
LeaveVideoBroadcast(c, t, m) ==
    /\ UseBudget
    /\ video[<<m, t>>] # NoBroadcast
    /\ sinks' = [sinks EXCEPT ![video[<<m, t>>]] = @ \ {c}]
    /\ UNCHANGED <<members, audio, video, nextInst, owner, kind, stream,
                   srcEnded, task, regPending, fillPending, dirPending,
                   dirTasks, dirView, requested>>

\* The publishing client's stream goes away (RTP receiver ended, or the
\* native event channel closed).
SourceEnd(i) ==
    /\ UseBudget
    /\ i \in Created /\ Alive(i) /\ ~srcEnded[i]
    /\ srcEnded' = [srcEnded EXCEPT ![i] = TRUE]
    /\ UNCHANGED <<members, audio, video, nextInst, owner, kind, stream, sinks,
                   task, regPending, fillPending, dirPending, dirTasks, dirView, requested>>

-----------------------------------------------------------------------------
(* Background tasks (execute_task) *)

\* Mutant: the registration task without send_video_broadcast_update
RegisterTaskNoDirectory(c) ==
    /\ regPending[c] > 0
    /\ regPending' = [regPending EXCEPT ![c] = @ - 1]
    /\ sinks' = [i \in Inst |-> IF i \in MappedAudio /\ owner[i] # c
                                THEN sinks[i] \cup {c} ELSE sinks[i]]
    /\ UNCHANGED <<members, audio, video, nextInst, owner, kind, stream,
                   srcEnded, task, fillPending, dirPending, dirTasks, dirView,
                   budget, requested>>

\* The registration task of register_client: upgrade the client (still held
\* by the server), subscribe it to every audio broadcast it does not own, and
\* send it the directory unless a directory task is already queued.
RegisterTask(c) ==
    /\ regPending[c] > 0
    /\ regPending' = [regPending EXCEPT ![c] = @ - 1]
    /\ sinks' = [i \in Inst |-> IF i \in MappedAudio /\ owner[i] # c
                                THEN sinks[i] \cup {c} ELSE sinks[i]]
    /\ dirView' = IF dirPending THEN dirView ELSE [dirView EXCEPT ![c] = Directory]
    /\ UNCHANGED <<members, audio, video, nextInst, owner, kind, stream,
                   srcEnded, task, fillPending, dirPending, dirTasks, budget, requested>>

\* Mutant: broadcast_client_audio without its back-fill (nobody subscribed)
BackfillTaskMissing(i) ==
    /\ i \in fillPending
    /\ fillPending' = fillPending \ {i}
    /\ UNCHANGED <<members, audio, video, nextInst, owner, kind, stream, sinks,
                   srcEnded, task, regPending, dirPending, dirTasks, dirView,
                   budget, requested>>

\* The back-fill task of broadcast_client_audio: if the broadcast can still
\* be upgraded, subscribe every current member except its owner.
BackfillTask(i) ==
    /\ i \in fillPending
    /\ fillPending' = fillPending \ {i}
    /\ sinks' = IF Alive(i) THEN [sinks EXCEPT ![i] = @ \cup (members \ {owner[i]})]
                ELSE sinks
    /\ UNCHANGED <<members, audio, video, nextInst, owner, kind, stream,
                   srcEnded, task, regPending, dirPending, dirTasks, dirView,
                   budget, requested>>

\* The task of broadcast_video_broadcast_update: clear the flag and send the
\* current directory to every member.
VideoBroadcastUpdateTask ==
    /\ dirTasks > 0
    /\ dirTasks' = dirTasks - 1
    /\ dirPending' = FALSE
    /\ dirView' = [c \in Clients |-> IF c \in members THEN Directory ELSE dirView[c]]
    /\ UNCHANGED <<members, audio, video, nextInst, owner, kind, stream, sinks,
                   srcEnded, task, regPending, fillPending, budget, requested>>

\* execute_broadcast poll: Arc upgrade and lock; a dropped broadcast ends the task
BroadcastPollStart(i) ==
    /\ i \in Created /\ task[i] = "idle"
    /\ task' = [task EXCEPT ![i] = IF Alive(i) THEN "polling" ELSE "done"]
    /\ UNCHANGED <<members, audio, video, nextInst, owner, kind, stream, sinks,
                   srcEnded, regPending, fillPending, dirPending, dirTasks,
                   dirView, budget, requested>>

\* poll_source returns: Pending (the Arc is released) or true (ended)
BroadcastPollEnd(i) ==
    /\ task[i] = "polling"
    /\ task' = [task EXCEPT ![i] = IF srcEnded[i] THEN "ending" ELSE "idle"]
    /\ UNCHANGED <<members, audio, video, nextInst, owner, kind, stream, sinks,
                   srcEnded, regPending, fillPending, dirPending, dirTasks,
                   dirView, budget, requested>>

\* callback_shutdown(client_id) of an audio broadcast (channel.rs:207-210)
AudioShutdownCallback(c) == audio' = [audio EXCEPT ![c] = NoBroadcast]

\* callback_shutdown(client_id) of a video broadcast (channel.rs:263-266):
\* the code calls shutdown_broadcast_audio, not shutdown_broadcast_video
VideoShutdownCallback(c) == audio' = [audio EXCEPT ![c] = NoBroadcast]

\* The shutdown callback runs under the channel write lock; the broadcast is
\* identified by its owner's client id only.
BroadcastShutdown(i) ==
    /\ task[i] = "ending"
    /\ task' = [task EXCEPT ![i] = "done"]
    /\ IF kind[i] = Audio THEN AudioShutdownCallback(owner[i])
       ELSE VideoShutdownCallback(owner[i])
    /\ UNCHANGED <<members, video, nextInst, owner, kind, stream, sinks,
                   srcEnded, regPending, fillPending, dirPending, dirTasks,
                   dirView, budget, requested>>

\* No further API calls: the channel idles (the remaining tasks wait for wakes)
Done == budget = 0 /\ UNCHANGED vars

-----------------------------------------------------------------------------

Next ==
    \/ \E c \in Clients :
          \/ RegisterClient(c)
          \/ \E u \in BOOLEAN : UnregisterClient(c, u)
          \/ \E s \in Streams \cup {NoStream} :
                \/ BroadcastClientAudio(c, s)
                \/ \E m \in VideoModes : BroadcastClientVideo(c, m, s)
          \/ \E t \in Clients, m \in VideoModes :
                JoinVideoBroadcast(c, t, m) \/ LeaveVideoBroadcast(c, t, m)
          \/ RegisterTask(c)
    \/ \E i \in Inst :
          \/ SourceEnd(i)
          \/ BackfillTask(i)
          \/ BroadcastPollStart(i)
          \/ BroadcastPollEnd(i)
          \/ BroadcastShutdown(i)
    \/ VideoBroadcastUpdateTask
    \/ Done

\* Every spawned task is eventually polled by the tokio pool; an ended source
\* wakes its broadcast's poll task.
Fairness ==
    /\ \A c \in Clients : WF_vars(RegisterTask(c))
    /\ \A i \in Inst : /\ WF_vars(BackfillTask(i))
                       /\ WF_vars(BroadcastPollStart(i) /\ srcEnded[i])
                       /\ WF_vars(BroadcastPollEnd(i))
                       /\ WF_vars(BroadcastShutdown(i))
    /\ WF_vars(VideoBroadcastUpdateTask)

Spec == Init /\ [][Next]_vars /\ Fairness

-----------------------------------------------------------------------------
(* Properties *)

\* The coalescing flag video_broadcast_update_pending is set exactly while
\* one directory task is queued.  unregister_client borrows the flag to
\* suppress the updates of its own shutdowns and must hand it back; a flag
\* left set with no task would silence every later directory update, and a
\* second queued task would mean the coalescing failed.
DirectoryTaskQueued ==
    \/ dirPending /\ dirTasks = 1
    \/ ~dirPending /\ dirTasks = 0

\* A client that joins the channel is eventually sent the video directory
\* (by its registration task, or by the queued directory task that made the
\* registration task skip it), unless it leaves first.
DirectoryReachesNewMember ==
    \A c \in Clients :
        (c \in members /\ dirView[c] = Unknown)
            ~> (dirView[c] # Unknown \/ c \notin members)

\* Every member eventually becomes a sink of every audio broadcast of the
\* channel it does not own: the registration task covers the broadcasts that
\* existed when it joined, the back-fill task the ones started later.
MembersEventuallySubscribed ==
    \A c \in Clients, i \in Inst :
        (c \in members /\ i \in MappedAudio /\ owner[i] # c)
            ~> (c \in sinks[i] \/ i \notin MappedAudio \/ c \notin members)

\* Only members of the channel receive its broadcasts: every sink of a
\* broadcast in the channel's maps is a member (spec: the registry gates the
\* fan-out by membership).
SinksAreMembers ==
    \A i \in MappedAudio \cup MappedVideo : sinks[i] \subseteq members

\* A client's audio broadcast stays in audio_broadcasts until the client
\* stops or replaces it, leaves, or its own source ends (spec: a client id
\* is in the audio map exactly while it is publishing).  Shutdown callbacks
\* identify a broadcast only by the owner's client id.
AudioMapFaithful ==
    \A c \in Clients :
        requested[c] # NoBroadcast /\ ~srcEnded[requested[c]]
            => audio[c] = requested[c]

=============================================================================
