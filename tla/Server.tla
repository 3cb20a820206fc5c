------------------------------- MODULE Server -------------------------------
(***************************************************************************)
(* The server registry (rtc/src/server.rs) and the FFI entry points that  *)
(* drive it (rtc/src/exports.rs).  Client and channel ids are both u32    *)
(* numbers handed out by counters that start at 1; the model keeps them   *)
(* as numbers because destroy_channel compares the two kinds.              *)
(*                                                                         *)
(* Every Server method runs under the server's write lock and is one      *)
(* action.  members[ch] is Channel.clients of channel ch (the Channel      *)
(* module models what else register/unregister do).  librtc_destroy_client *)
(* defers the destruction to a task.                                       *)
(***************************************************************************)
EXTENDS Naturals, FiniteSets

CONSTANTS
    IdBits,         \* width of the id counters (u32 in the code)
    MaxClientCreates,  \* bound on create_client calls
    MaxChannelCreates  \* bound on create_channel calls

IdSpace == 0..(2^IdBits - 1)
\* the ids a counter hands out: it skips 0
ClientIds == IdSpace \ {0}
ChannelIds == IdSpace \ {0}
NoChannel == 0      \* channel id 0: "no channel" in assign_channel

VARIABLES
    clients,        \* ids in Server.clients
    channels,       \* ids in Server.channels
    assignment,     \* client_channel_assignments (NoChannel: no entry)
    members,        \* Channel.clients of each live channel
    nextClient,     \* client_id_index
    nextChannel,    \* channel_id_index
    destroyQueued,  \* clients with a queued librtc_destroy_client task
    creates         \* create_client / create_channel calls so far

vars == <<clients, channels, assignment, members, nextClient, nextChannel,
          destroyQueued, creates>>

TypeOK ==
    /\ clients \subseteq ClientIds
    /\ channels \subseteq ChannelIds
    /\ assignment \in [ClientIds -> ChannelIds \cup {NoChannel}]
    /\ members \in [ChannelIds -> SUBSET ClientIds]
    /\ nextClient \in IdSpace
    /\ nextChannel \in IdSpace
    /\ destroyQueued \subseteq ClientIds
    /\ creates \in [client : 0..MaxClientCreates, channel : 0..MaxChannelCreates]

\* Server::new
Init ==
    /\ clients = {}
    /\ channels = {}
    /\ assignment = [c \in ClientIds |-> NoChannel]
    /\ members = [ch \in ChannelIds |-> {}]
    /\ nextClient = 1 % 2^IdBits
    /\ nextChannel = 1 % 2^IdBits
    /\ destroyQueued = {}
    /\ creates = [client |-> 0, channel |-> 0]

\* Mutant: assign_channel without removing the client from its old channel
AssignChannelKeepOld(c, ch) ==
    IF c \notin clients \/ (ch # NoChannel /\ ch \notin channels)
    THEN <<assignment, members>>
    ELSE <<[assignment EXCEPT ![c] = ch],
           IF ch # NoChannel THEN [members EXCEPT ![ch] = @ \cup {c}] ELSE members>>

\* assign_channel(client_id, channel_id) as a function of the registry: the
\* resulting <<assignment, members>>.  Unknown client or target channel:
\* nothing changes.  Otherwise the old assignment is removed (and the client
\* unregistered if that channel still exists), then the new one made.
AssignChannelResult(c, ch) ==
    IF c \notin clients \/ (ch # NoChannel /\ ch \notin channels)
    THEN <<assignment, members>>
    ELSE LET old == assignment[c]
             m1 == IF old # NoChannel /\ old \in channels
                   THEN [members EXCEPT ![old] = @ \ {c}] ELSE members
         IN  <<[assignment EXCEPT ![c] = ch],
               IF ch # NoChannel THEN [m1 EXCEPT ![ch] = @ \cup {c}] ELSE m1>>

\* Apply an <<assignment, members>> pair
SetRegistry(r) == assignment' = r[1] /\ members' = r[2]

\* Mutant: the counter hands out its value without skipping 0
NextIdNoSkip(idx) == idx

\* The id a counter hands out: it skips 0 after wrapping
NextId(idx) == IF idx = 0 THEN 1 ELSE idx

\* The counter after handing out id: wrapping_add(1)
Advance(id) == (id + 1) % 2^IdBits

\* create_client: a wrapped counter may hand out the id of a live client;
\* BTreeMap::insert then replaces it
CreateClient ==
    /\ creates.client < MaxClientCreates
    /\ clients' = clients \cup {NextId(nextClient)}
    /\ nextClient' = Advance(NextId(nextClient))
    /\ creates' = [creates EXCEPT !.client = @ + 1]
    /\ UNCHANGED <<channels, assignment, members, nextChannel, destroyQueued>>

\* create_channel (the timeout task it spawns is Channel's concern); a
\* reused id replaces the live channel by a new one without members
CreateChannel ==
    /\ creates.channel < MaxChannelCreates
    /\ channels' = channels \cup {NextId(nextChannel)}
    /\ members' = [members EXCEPT ![NextId(nextChannel)] = {}]
    /\ nextChannel' = Advance(NextId(nextChannel))
    /\ creates' = [creates EXCEPT !.channel = @ + 1]
    /\ UNCHANGED <<clients, assignment, nextClient, destroyQueued>>

\* librtc_assign_channel
AssignChannel(c, ch) ==
    /\ c \in clients
    /\ ch = NoChannel \/ ch \in channels
    /\ SetRegistry(AssignChannelResult(c, ch))
    /\ UNCHANGED <<clients, channels, nextClient, nextChannel, destroyQueued, creates>>

\* destroy_channel: remove the channel, then assign_channel(id, 0) for each
\* id collected from the assignments of the channel.  The code collects
\* the assignment's channel id (the value) rather than its client id (the
\* key), so the calls all name the client whose id equals the channel id.
DestroyChannel(ch) ==
    LET collected == {assignment[c] : c \in {x \in ClientIds : assignment[x] = ch}}
        remaining == channels \ {ch}
    IN
    /\ ch \in channels
    /\ channels' = remaining
    \* assign_channel(id, 0) for every collected id, against the registry
    \* without ch; repeated calls with one id are no-ops after the first
    /\ IF collected = {} \/ ch \notin clients
       THEN UNCHANGED <<assignment, members>>
       ELSE LET old == assignment[ch]
            IN  /\ assignment' = [assignment EXCEPT ![ch] = NoChannel]
                /\ members' = IF old # NoChannel /\ old \in remaining
                              THEN [members EXCEPT ![old] = @ \ {ch}]
                              ELSE members
    /\ UNCHANGED <<clients, nextClient, nextChannel, destroyQueued, creates>>

\* librtc_destroy_client: queue the destruction
DestroyClientCall(c) ==
    /\ c \in clients
    /\ destroyQueued' = destroyQueued \cup {c}
    /\ UNCHANGED <<clients, channels, assignment, members, nextClient, nextChannel,
                   creates>>

\* Mutant: destroy_client removes the client without assign_channel(id, 0)
DestroyClientNoUnassign(c) ==
    /\ c \in destroyQueued
    /\ destroyQueued' = destroyQueued \ {c}
    /\ clients' = clients \ {c}
    /\ UNCHANGED <<channels, assignment, members, nextClient, nextChannel, creates>>

\* The queued task: destroy_client = assign_channel(id, 0), then remove
DestroyClient(c) ==
    /\ c \in destroyQueued
    /\ destroyQueued' = destroyQueued \ {c}
    /\ SetRegistry(AssignChannelResult(c, NoChannel))
    /\ clients' = clients \ {c}
    /\ UNCHANGED <<channels, nextClient, nextChannel, creates>>

\* Nothing left to create and no destruction queued: the host may idle
Finished ==
    /\ creates = [client |-> MaxClientCreates, channel |-> MaxChannelCreates]
    /\ destroyQueued = {}
    /\ UNCHANGED vars

Next ==
    \/ CreateClient
    \/ CreateChannel
    \/ \E c \in ClientIds :
          \/ \E ch \in ChannelIds \cup {NoChannel} : AssignChannel(c, ch)
          \/ DestroyClientCall(c)
          \/ DestroyClient(c)
    \/ \E ch \in ChannelIds : DestroyChannel(ch)
    \/ Finished

\* The task pool runs every queued destroy task.
Spec == Init /\ [][Next]_vars /\ \A c \in ClientIds : WF_vars(DestroyClient(c))

-----------------------------------------------------------------------------
(* Properties *)

\* The server's assignment table and the channels' member maps agree: a
\* client is a member of a live channel exactly when it is assigned to it,
\* across assign_channel, destroy_channel and the deferred destroy_client.
MembershipMatchesAssignment ==
    \A ch \in channels :
        members[ch] = {c \in clients : assignment[c] = ch}

\* A client passed to librtc_destroy_client is eventually gone from the
\* registry and from every channel.
DestroyedClientLeaves ==
    \A c \in ClientIds :
        c \in destroyQueued ~> (c \notin clients /\ \A ch \in channels : c \notin members[ch])

\* destroy_channel reassigns every member of the channel to no channel and
\* no other client (spec: destroying a channel cascades to reassignment of
\* all its member clients).
DestroyChannelReassignsMembers ==
    [][\A ch \in channels \ channels' :
          \A c \in clients :
              assignment'[c] = IF assignment[c] = ch THEN NoChannel ELSE assignment[c]]_vars
=============================================================================
