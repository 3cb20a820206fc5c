------------------------------- MODULE Whisper ------------------------------
(***************************************************************************)
(* The whisper session of one whispering client: WhisperSession           *)
(* (rtc/src/broadcast/whisper.rs), its creation and watchdog task in       *)
(* Client::get_create_whisper_session (rtc/src/client/mod.rs), and the FFI *)
(* calls librtc_whisper_configure / librtc_whisper_reset (exports.rs).     *)
(*                                                                         *)
(* A session is its id.  Its broadcast is abstracted to its sinks, its     *)
(* idle time (since last_activity) and whether its source ended; the      *)
(* AudioBroadcast module models the broadcaster itself.  The clock unit   *)
(* is the 500 ms tick of the session's interval.  A session is alive while *)
(* the client holds its Arc, or while its watchdog, having seen it        *)
(* finish, still holds the upgraded Arc on its way to the client lock.    *)
(***************************************************************************)
EXTENDS Naturals, Sequences, SequencesExt

CONSTANTS
    Whisperer,      \* the whispering client's id
    Clients,        \* client ids a target list may name (Whisperer included)
    Known,          \* ids server.find_client resolves
    Connected,      \* clients whose connection yields an audio sender
    Streams,        \* source stream ids of the whisperer
    MaxSessions,    \* bound on WHISPER_SESSION_ID_INDEX
    IdleSecs,       \* the idle limit of WhisperSession::poll (10 s)
    MaxOps          \* bound on FFI calls

ASSUME Whisperer \in Known /\ Known \subseteq Clients /\ Connected \subseteq Clients

NoSession == 0
Sessions == 1..MaxSessions
\* idle time is kept up to the first value past the limit (in ticks)
IdleCap == 2 * IdleSecs + 2
WatchStates == {"none", "running", "finishing", "done"}

VARIABLES
    current,      \* client.whisper_session, as its id
    sessionId,    \* client.whisper_session_id
    nextSession,  \* WHISPER_SESSION_ID_INDEX
    stream,       \* stream_id of each session
    targets,      \* targets of each session
    sinks,        \* the senders of each session's broadcast, as owner ids
    idle,         \* ticks since the broadcast's last_activity
    srcEnded,     \* the broadcast's poll_source returned true
    watch,        \* the session's watchdog task
    budget

vars == <<current, sessionId, nextSession, stream, targets, sinks, idle,
          srcEnded, watch, budget>>

TypeOK ==
    /\ current \in Sessions \cup {NoSession}
    /\ sessionId \in Sessions \cup {NoSession}
    /\ nextSession \in 1..MaxSessions + 1
    /\ stream \in [Sessions -> Streams]
    /\ targets \in [Sessions -> Seq(Known)]
    /\ sinks \in [Sessions -> SUBSET Clients]
    /\ idle \in [Sessions -> 0..IdleCap]
    /\ srcEnded \in [Sessions -> BOOLEAN]
    /\ watch \in [Sessions -> WatchStates]
    /\ budget \in 0..MaxOps

Init ==
    /\ current = NoSession
    /\ sessionId = NoSession
    /\ nextSession = 1
    /\ stream = [s \in Sessions |-> CHOOSE st \in Streams : TRUE]
    /\ targets = [s \in Sessions |-> <<>>]
    /\ sinks = [s \in Sessions |-> {}]
    /\ idle = [s \in Sessions |-> 0]
    /\ srcEnded = [s \in Sessions |-> FALSE]
    /\ watch = [s \in Sessions |-> "none"]
    /\ budget = MaxOps

Alive(s) == current = s \/ watch[s] = "finishing"

\* last_activity().elapsed().as_secs() > 10, with idle counted in ticks
Expired(ticks) == ticks \div 2 > IdleSecs

\* The target lists librtc_whisper_configure is called with
TargetLists == {SetToSeq(S) : S \in SUBSET Clients}

\* Mutant: the caller pushes every returned id, resolved by find_client or not
UpdateTargetsUnresolved(t, k, list) ==
    LET added == SelectSeq(list, LAMBDA c : c \notin ToSet(t))
    IN  [targets |-> SelectSeq(t, LAMBDA c : c \in ToSet(list)) \o added,
         sinks |-> (k \ (ToSet(t) \ ToSet(list))) \cup (ToSet(added) \cap Connected)]

\* Mutant: update_target_clients forgets to remove dropped clients from the
\* broadcast
UpdateTargetsNoRemove(t, k, list) ==
    LET new == SelectSeq(list, LAMBDA c : c \notin ToSet(t))
        added == SelectSeq(new, LAMBDA c : c \in Known)
    IN  [targets |-> SelectSeq(t, LAMBDA c : c \in ToSet(list)) \o added,
         sinks |-> k \cup (ToSet(added) \cap Connected)]

\* update_target_clients(list) on targets t and sinks k, followed by the
\* caller's loop over the ids it returns: an id find_client resolves (the
\* whisperer itself included) is registered with the broadcast, which makes
\* a sender only for a connected client, and pushed to the targets either way.
UpdateTargets(t, k, list) ==
    LET new == SelectSeq(list, LAMBDA c : c \notin ToSet(t))
        added == SelectSeq(new, LAMBDA c : c \in Known)
    IN  [targets |-> SelectSeq(t, LAMBDA c : c \in ToSet(list)) \o added,
         sinks |-> (k \ (ToSet(t) \ ToSet(list))) \cup (ToSet(added) \cap Connected)]

\* get_create_whisper_session reuses the session if its stream matches
Reuses(st) == current # NoSession /\ stream[current] = st

\* librtc_whisper_configure with the current session of the same stream
ConfigureReuse(st, list) ==
    LET r == UpdateTargets(targets[current], sinks[current], list)
    IN
    /\ budget > 0 /\ Reuses(st)
    /\ targets' = [targets EXCEPT ![current] = r.targets]
    /\ sinks' = [sinks EXCEPT ![current] = r.sinks]
    /\ budget' = budget - 1
    /\ UNCHANGED <<current, sessionId, nextSession, stream, idle, srcEnded, watch>>

\* librtc_whisper_configure creating a session: WhisperSession::new starts
\* the broadcast, the watchdog is spawned, the client's session (and id) is
\* replaced, and the targets are set on the new session
ConfigureNew(st, list) ==
    LET s == nextSession
        r == UpdateTargets(<<>>, {}, list)
    IN
    /\ budget > 0 /\ ~Reuses(st)
    /\ nextSession <= MaxSessions
    /\ nextSession' = nextSession + 1
    /\ current' = s
    /\ sessionId' = s
    /\ stream' = [stream EXCEPT ![s] = st]
    /\ targets' = [targets EXCEPT ![s] = r.targets]
    /\ sinks' = [sinks EXCEPT ![s] = r.sinks]
    /\ idle' = [idle EXCEPT ![s] = 0]
    /\ watch' = [watch EXCEPT ![s] = "running"]
    /\ budget' = budget - 1
    /\ UNCHANGED srcEnded

\* librtc_whisper_configure when the client has no audio source for the
\* stream: execute_broadcast fails and the error string is returned
ConfigureNoSource(st) ==
    /\ budget > 0 /\ ~Reuses(st)
    /\ budget' = budget - 1
    /\ UNCHANGED <<current, sessionId, nextSession, stream, targets, sinks, idle,
                   srcEnded, watch>>

\* librtc_whisper_reset: drops the session; the id is left as it was
Reset ==
    /\ budget > 0
    /\ current' = NoSession
    /\ budget' = budget - 1
    /\ UNCHANGED <<sessionId, nextSession, stream, targets, sinks, idle, srcEnded,
                   watch>>

\* The broadcast forwards a packet or an end signal: last_activity = now
SourceActivity(s) ==
    /\ Alive(s) /\ ~srcEnded[s]
    /\ idle' = [idle EXCEPT ![s] = 0]
    /\ UNCHANGED <<current, sessionId, nextSession, stream, targets, sinks,
                   srcEnded, watch, budget>>

\* The broadcast's source ends; its shutdown callback does nothing (FIXME)
SourceEnd(s) ==
    /\ Alive(s) /\ ~srcEnded[s]
    /\ srcEnded' = [srcEnded EXCEPT ![s] = TRUE]
    /\ UNCHANGED <<current, sessionId, nextSession, stream, targets, sinks, idle,
                   watch, budget>>

\* poll_senders drops a sender whose event stream ended; the target stays
SenderClosed(s, c) ==
    /\ Alive(s) /\ c \in sinks[s]
    /\ sinks' = [sinks EXCEPT ![s] = @ \ {c}]
    /\ UNCHANGED <<current, sessionId, nextSession, stream, targets, idle,
                   srcEnded, watch, budget>>

\* One 500 ms tick: each alive session ages, and the watchdog of a running
\* one polls it (WhisperSession::poll); an expired session is Ready, and
\* the watchdog drops the session lock before it takes the client lock
Tick ==
    /\ \E s \in Sessions : Alive(s) /\ idle[s] < IdleCap
    /\ idle' = [s \in Sessions |-> IF Alive(s) /\ idle[s] < IdleCap
                                   THEN idle[s] + 1 ELSE idle[s]]
    /\ watch' = [s \in Sessions |->
                    IF watch[s] = "running" /\ Alive(s) /\ Expired(idle'[s])
                    THEN "finishing" ELSE watch[s]]
    /\ UNCHANGED <<current, sessionId, nextSession, stream, targets, sinks,
                   srcEnded, budget>>

\* Mutant: the watchdog fires the reset callback but leaves the session
WatchdogFinishNoClear(s) ==
    /\ watch[s] = "finishing"
    /\ watch' = [watch EXCEPT ![s] = "done"]
    /\ IF sessionId = s THEN sessionId' = NoSession ELSE UNCHANGED sessionId
    /\ UNCHANGED <<current, nextSession, stream, targets, sinks, idle, srcEnded,
                   budget>>

\* The watchdog under the client lock: if the client's session id is still
\* this session's, the session is cleared (and client_whisper_session_reset
\* is called)
WatchdogFinish(s) ==
    /\ watch[s] = "finishing"
    /\ watch' = [watch EXCEPT ![s] = "done"]
    /\ IF sessionId = s
       THEN current' = NoSession /\ sessionId' = NoSession
       ELSE UNCHANGED <<current, sessionId>>
    /\ UNCHANGED <<nextSession, stream, targets, sinks, idle, srcEnded, budget>>

\* The watchdog of a dropped session: the Weak no longer upgrades
WatchdogGone(s) ==
    /\ watch[s] = "running" /\ ~Alive(s)
    /\ watch' = [watch EXCEPT ![s] = "done"]
    /\ UNCHANGED <<current, sessionId, nextSession, stream, targets, sinks, idle,
                   srcEnded, budget>>

Done == budget = 0 /\ UNCHANGED vars

Next ==
    \/ \E st \in Streams :
          \/ ConfigureNoSource(st)
          \/ \E list \in TargetLists : ConfigureReuse(st, list) \/ ConfigureNew(st, list)
    \/ Reset
    \/ \E s \in Sessions :
          \/ SourceActivity(s) \/ SourceEnd(s)
          \/ \E c \in Clients : SenderClosed(s, c)
          \/ WatchdogFinish(s) \/ WatchdogGone(s)
    \/ Tick
    \/ Done

\* The interval timer keeps ticking and the pool runs every woken watchdog.
Spec == Init /\ [][Next]_vars /\ WF_vars(Tick)
        /\ \A s \in Sessions : WF_vars(WatchdogFinish(s)) /\ WF_vars(WatchdogGone(s))

-----------------------------------------------------------------------------
(* Properties *)

\* The whisper broadcast only sends to clients on the session's target
\* list: a client dropped from the list by a later librtc_whisper_configure
\* is removed from the broadcast, over any sequence of configure calls.
SinksAreTargets == \A s \in Sessions : sinks[s] \subseteq ToSet(targets[s])

\* A session whose source has ended (its broadcast's shutdown callback does
\* nothing) is still eventually removed from the client by the watchdog,
\* unless the host resets or replaces it first.
EndedSessionCleared ==
    \A s \in Sessions : (current = s /\ srcEnded[s]) ~> current # s

\* The watchdog clears only a session that is idle: when it takes the
\* session away from the client, the session has had no activity for
\* longer than the idle limit.
ClearedSessionWasIdle ==
    [][\A s \in Sessions :
          (watch[s] = "finishing" /\ current = s /\ current' = NoSession
           /\ watch'[s] = "done") => Expired(idle[s])]_vars
=============================================================================
