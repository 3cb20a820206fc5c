--------------------------- MODULE TransferHandler ---------------------------
(***************************************************************************)
(* The file-transfer registry of teafile (filelib/src/request_handler):   *)
(* TransferBuilder::register puts a transfer on the pending list, a        *)
(* client's connection claims it by key (handle_transfer_request), the     *)
(* 1 s tick expires those 10 s old (poll_pending_transfers), and the       *)
(* virtual servers a transfer runs on are created and deleted by the C     *)
(* API.  The concurrent-transfer counts and pending quotas (stats.rs) are  *)
(* held by the Arc<FileTransferInfo>: they are given back when the last    *)
(* holder of that Arc drops it.  The holders are the pending list, the     *)
(* handle in a virtual server's running_transfers, and the events still    *)
(* queued by fire_later; register's caller (server.rs:167) drops its copy  *)
(* at once.                                                                *)
(*                                                                         *)
(* One server instance, always present (the C API creates "__internal"    *)
(* at initialisation and never removes it); its own summaries are parents  *)
(* no limit reads and are left out.  Every builder call uses the same     *)
(* limits, the CONSTANTS Max*.  Transfer ids are registration numbers.     *)
(*                                                                         *)
(* The files of a virtual server live under virtual_server_<unique id>     *)
(* (server.rs:80), so they outlive the FileVirtualServer object.  A file   *)
(* is a name of Names holding a content: the content a file had at the     *)
(* start is named by its place <<sid, name>>.  Nothing ever writes a file *)
(* (every upload is aborted at once), so contents only move or vanish.     *)
(* VirtualFileSystem's file_uploads and file_downloads never hold a live  *)
(* handle outside a single call: create_download_target inserts nothing,  *)
(* and the upload target is dropped before handle_request_upload returns; *)
(* file_locked and directory_locked are therefore false whenever the C API *)
(* asks them.                                                              *)
(***************************************************************************)
EXTENDS Naturals, Sequences, SequencesExt, FiniteSets, FiniteSetsExt, FilePaths

CONSTANTS
    Clients,               \* client unique ids
    ServerIds,             \* virtual server unique ids
    Dirs,                  \* TransferDirection values used
    Sizes,                 \* file sizes of registered transfers
    Names,                 \* file names (FilePath::Channel) of a server's files
    InitialFiles,          \* the names that hold a file at the start
    RequestKeys,           \* keys a connecting client may send
    FixedKey,              \* the key copied into every transfer (mod.rs:356)
    MaxTransfers,          \* bound on successful registrations
    MaxServerCreates,      \* bound on create_virtual_server calls that create
    MaxConcurrentClient,   \* max_concurrent_client_transfers
    MaxConcurrentServer,   \* max_concurrent_server_transfers
    MaxPendingClientQuota, \* max_pending_client_quota
    MaxPendingServerQuota  \* max_pending_server_quota

ASSUME FixedKey \in RequestKeys /\ InitialFiles \subseteq Names /\ Dirs \subseteq {"upload", "download"}

Transfers == 1..MaxTransfers
Objects == 1..MaxServerCreates     \* FileVirtualServer objects, by creation
NoServer == 0
EventKinds == {"registered", "timeout", "failed"}
Phases == {"free", "pending", "running", "done", "dropped"}
Contents == ServerIds \X Names     \* a file's content, by its first place
NoFile == <<>>                      \* fs::metadata fails: no file there
Truncated == <<"truncated">>         \* the content an upload leaves

VARIABLES
    vs,          \* FileServerInstance.virtual_server: id -> object
    created,     \* virtual server objects created so far
    running,     \* running_transfers of each object (handles)
    pending,     \* TransferHandler.pending_transfers, in list order
    inflight,    \* <<transfer, event>> spawned by fire_later, not yet run
    handled,     \* FileTransferInfo.handled
    phase,       \* where a transfer is; "done": its processor returned
    info,        \* the FileTransferInfo fields set by the builder
    nextT,       \* registrations so far
    cliCount,    \* running_transfers() of each client summary of an object
    srvCount,    \* server_transfer_count of each object
    cliQuota,    \* total_bytes of each client pending-quota summary
    srvQuota,    \* total_bytes of each server pending-quota summary
    disk,        \* the content of each file of each server's directory
    renaming,    \* rename_file calls past their checks: <<sid, from, to>>
    wiping,      \* servers whose remove_dir_all task is spawned, not run
    removed      \* history: contents removed by delete_files or the wipe

vars == <<vs, created, running, pending, inflight, handled, phase, info, nextT,
          cliCount, srvCount, cliQuota, srvQuota, disk, renaming, wiping, removed>>
fsVars == <<disk, renaming, wiping, removed>>

Info == [client : Clients, sid : ServerIds, obj : Objects, dir : Dirs, size : Sizes,
         path : Names]

TypeOK ==
    /\ vs \in [ServerIds -> Objects \cup {NoServer}]
    /\ created \in 0..MaxServerCreates
    /\ running \in [Objects -> SUBSET Transfers]
    /\ pending \in Seq(Transfers)
    /\ inflight \subseteq Transfers \X EventKinds
    /\ handled \in [Transfers -> BOOLEAN]
    /\ phase \in [Transfers -> Phases]
    /\ \A t \in Transfers : phase[t] # "free" => info[t] \in Info
    /\ nextT \in 0..MaxTransfers
    /\ cliCount \in [Objects -> [Clients -> Nat]]
    /\ srvCount \in [Objects -> Nat]
    /\ cliQuota \in [Objects -> [Clients -> [Dirs -> Nat]]]
    /\ srvQuota \in [Objects -> [Dirs -> Nat]]
    /\ disk \in [ServerIds -> [Names -> Contents \cup {NoFile, Truncated}]]
    /\ renaming \subseteq ServerIds \X Names \X Names
    /\ wiping \subseteq ServerIds
    /\ removed \subseteq Contents \cup {Truncated}

\* TransferHandler::new, and the C API's server instance (capi lib.rs)
Init ==
    /\ vs = [s \in ServerIds |-> NoServer]
    /\ created = 0
    /\ running = [o \in Objects |-> {}]
    /\ pending = <<>>
    /\ inflight = {}
    /\ handled = [t \in Transfers |-> FALSE]
    /\ phase = [t \in Transfers |-> "free"]
    /\ info = [t \in Transfers |-> [client |-> CHOOSE c \in Clients : TRUE]]
    /\ nextT = 0
    /\ cliCount = [o \in Objects |-> [c \in Clients |-> 0]]
    /\ srvCount = [o \in Objects |-> 0]
    /\ cliQuota = [o \in Objects |-> [c \in Clients |-> [d \in Dirs |-> 0]]]
    /\ srvQuota = [o \in Objects |-> [d \in Dirs |-> 0]]
    /\ disk = [s \in ServerIds |-> [n \in Names |->
                 IF n \in InitialFiles THEN <<s, n>> ELSE NoFile]]
    /\ renaming = {}
    /\ wiping = {}
    /\ removed = {}

\* TransferBuilder::new: the random key is overwritten by a constant
KeyOf(t) == FixedKey

\* A holder of the transfer's Arc<FileTransferInfo> in the given state
Held(t, p, r, e) ==
    \/ t \in ToSet(p)
    \/ \E o \in Objects : t \in r[o]
    \/ \E k \in EventKinds : <<t, k>> \in e

\* The transfers of `dead` that object o counts for client c
CountedBy(dead, o, c) == {t \in dead : info[t].obj = o /\ info[t].client = c}

\* Mutant: unregister_transfer's walk starts at the summary itself, so the
\* client summary is decremented twice
UnregisterSelfTwice(dead) ==
    /\ cliCount' = [o \in Objects |-> [c \in Clients |->
                       cliCount[o][c] - 2 * Cardinality(CountedBy(dead, o, c))]]
    /\ srvCount' = [o \in Objects |->
                       srvCount[o] - Cardinality({t \in dead : info[t].obj = o})]

\* RunningTransfer's Drop: unregister_transfer on the client summary and
\* its parent, the server's summary
Unregister(dead) ==
    /\ cliCount' = [o \in Objects |-> [c \in Clients |->
                       cliCount[o][c] - Cardinality(CountedBy(dead, o, c))]]
    /\ srvCount' = [o \in Objects |->
                       srvCount[o] - Cardinality({t \in dead : info[t].obj = o})]

\* PendingQuota's Drop: remove_quota on the client summary and its parent.
\* realized_bytes stays 0 (increase_realized_bytes has no caller), so the
\* whole file size is given back.
RemoveQuota(dead) ==
    LET Bytes(S) == MapThenSumSet(LAMBDA t : info[t].size, S)
    IN
    /\ cliQuota' = [o \in Objects |-> [c \in Clients |-> [d \in Dirs |->
                       cliQuota[o][c][d]
                       - Bytes({t \in CountedBy(dead, o, c) : info[t].dir = d})]]]
    /\ srvQuota' = [o \in Objects |-> [d \in Dirs |->
                       srvQuota[o][d]
                       - Bytes({t \in dead : info[t].obj = o /\ info[t].dir = d})]]

\* The step leaves the holders p, r, e: the FileTransferInfo of every
\* transfer that loses its last holder is dropped with its RunningTransfer
\* and PendingQuota
Settle(p, r, e) ==
    LET dead == {t \in Transfers : Held(t, pending, running, inflight)
                                   /\ ~Held(t, p, r, e)}
    IN  /\ pending' = p
        /\ running' = r
        /\ inflight' = e
        /\ Unregister(dead)
        /\ RemoveQuota(dead)

\* Mutant: the limits compared with the counts from before the new
\* RunningTransfer and PendingQuota are registered
AdmittedBeforeRegister(c, o, d, size) ==
    /\ ~(cliCount[o][c] > MaxConcurrentClient)
    /\ ~(srvCount[o] > MaxConcurrentServer)
    /\ ~(cliQuota[o][c][d] > MaxPendingClientQuota)
    /\ ~(srvQuota[o][d] > MaxPendingServerQuota)

\* register's checks under the pending lock: the new RunningTransfer (and
\* then the PendingQuota) is already counted when a limit is compared with
\* `>`; a refused builder is dropped and its Drops take both back, so a
\* refusal changes nothing
Admitted(c, o, d, size) ==
    /\ ~(cliCount[o][c] + 1 > MaxConcurrentClient)
    /\ ~(srvCount[o] + 1 > MaxConcurrentServer)
    /\ ~(cliQuota[o][c][d] + size > MaxPendingClientQuota)
    /\ ~(srvQuota[o][d] + size > MaxPendingServerQuota)

\* TransferBuilder::register for client c of virtual server sid, file n.
\* A download needs the file to exist (its metadata gives the size).  The
\* errors before the pending lock (unknown server, invalid path, missing
\* file) change nothing and are not steps.
Register(c, sid, d, size, n) ==
    LET o == vs[sid]
        t == nextT + 1
    IN
    /\ o # NoServer
    /\ d = "download" => disk[sid][n] # NoFile
    /\ nextT < MaxTransfers
    /\ Admitted(c, o, d, size)
    /\ nextT' = t
    /\ info' = [info EXCEPT ![t] = [client |-> c, sid |-> sid, obj |-> o,
                                    dir |-> d, size |-> size, path |-> n]]
    /\ phase' = [phase EXCEPT ![t] = "pending"]
    /\ pending' = Append(pending, t)
    /\ inflight' = inflight \cup {<<t, "registered">>}
    /\ cliCount' = [cliCount EXCEPT ![o][c] = @ + 1]
    /\ srvCount' = [srvCount EXCEPT ![o] = @ + 1]
    /\ cliQuota' = [cliQuota EXCEPT ![o][c][d] = @ + size]
    /\ srvQuota' = [srvQuota EXCEPT ![o][d] = @ + size]
    /\ UNCHANGED <<vs, created, running, handled, disk, renaming, wiping, removed>>

\* DefaultUploadTarget::new, reached through create_upload_target (no live
\* upload or download handle is registered for the path): the file is
\* opened with create(true) and set_len(expected_bytes), so whatever it
\* held is cut to the announced size
CreateUploadTarget(dk, sid, n) == [dk EXCEPT ![sid][n] = Truncated]

\* DefaultUploadTarget::abort_upload: marks the handle aborted, drops the
\* file handle and removes the file
AbortUpload(dk, sid, n) == [dk EXCEPT ![sid][n] = NoFile]

\* handle_request_upload: the target is created and aborted at once, and
\* the request fails with NotImplemented.  The disk afterwards.
HandleRequestUpload(t) ==
    LET sid == info[t].sid
        n == info[t].path
    IN  AbortUpload(CreateUploadTarget(disk, sid, n), sid, n)

\* create_download_target: no live upload handle exists for the path, so
\* a NormalDownloadTarget opens the file; it fails when there is none
CreateDownloadTarget(sid, n) == disk[sid][n] # NoFile

\* handle_request_download: execute_download on the client connection
\* (ok: it succeeds), then the download target
HandleRequestDownload(t, ok) == ok /\ CreateDownloadTarget(info[t].sid, info[t].path)

\* FileVirtualServer::handle_request: an upload fails (NotImplemented); a
\* download starts unless handle_request_download fails.  Starting spawns
\* the processor and pushes its handle.
Starts(t, ok) == info[t].dir = "download" /\ HandleRequestDownload(t, ok)

\* The disk after handle_request of transfer t on a live server
DiskAfterRequest(t) == IF info[t].dir = "upload" THEN HandleRequestUpload(t) ELSE disk

\* Mutant: the handle is kept in running_transfers whether or not
\* handle_request started the transfer
HandleTransferRequestKeepFailed(k, ok) ==
    LET matches == SelectSeq(pending, LAMBDA x : KeyOf(x) = k)
        t == Head(matches)
        o == vs[info[t].sid]
        started == o # NoServer /\ Starts(t, ok)
        failed == o # NoServer /\ ~started
    IN
    /\ matches # <<>>
    /\ handled' = [handled EXCEPT ![t] = TRUE]
    /\ phase' = [x \in Transfers |->
                    IF x = t THEN IF started THEN "running" ELSE "dropped"
                    ELSE IF x \in ToSet(matches) THEN "dropped" ELSE phase[x]]
    /\ Settle(SelectSeq(pending, LAMBDA x : KeyOf(x) # k),
              IF o # NoServer THEN [running EXCEPT ![o] = @ \cup {t}] ELSE running,
              IF failed THEN inflight \cup {<<t, "failed">>} ELSE inflight)
    /\ disk' = IF o # NoServer THEN DiskAfterRequest(t) ELSE disk
    /\ UNCHANGED <<vs, created, info, nextT, renaming, wiping, removed>>

\* handle_transfer_request with key k: drain_filter(...).next() takes the
\* first pending transfer with that key, and dropping the DrainFilter
\* removes every other match as well, unhandled and without an event.  The
\* transfer's server is looked up by its unique id: gone, the request fails
\* (ServerWentOffline); otherwise handle_request starts a download (ok) or
\* fails and fires FileTransferInitializeFailed (an upload always fails:
\* NotImplemented).  A started transfer's handle joins running_transfers.
HandleTransferRequest(k, ok) ==
    LET matches == SelectSeq(pending, LAMBDA x : KeyOf(x) = k)
        t == Head(matches)
        o == vs[info[t].sid]
        started == o # NoServer /\ Starts(t, ok)
        failed == o # NoServer /\ ~started
    IN
    /\ matches # <<>>
    /\ handled' = [handled EXCEPT ![t] = TRUE]
    /\ phase' = [x \in Transfers |->
                    IF x = t THEN IF started THEN "running" ELSE "dropped"
                    ELSE IF x \in ToSet(matches) THEN "dropped" ELSE phase[x]]
    /\ Settle(SelectSeq(pending, LAMBDA x : KeyOf(x) # k),
              IF started THEN [running EXCEPT ![o] = @ \cup {t}] ELSE running,
              IF failed THEN inflight \cup {<<t, "failed">>} ELSE inflight)
    /\ disk' = IF o # NoServer THEN DiskAfterRequest(t) ELSE disk
    /\ UNCHANGED <<vs, created, info, nextT, renaming, wiping, removed>>

\* A started transfer's processor task returns (any FileTransferResult).
\* Nothing takes the handle out of running_transfers.
ProcessEnd(t) ==
    /\ phase[t] = "running"
    /\ phase' = [phase EXCEPT ![t] = "done"]
    /\ UNCHANGED <<vs, created, running, pending, inflight, handled, info, nextT,
                   cliCount, srvCount, cliQuota, srvQuota>>
    /\ UNCHANGED fsVars

\* handle_transfer_timeout for each expired transfer: FileTransferTimeout
\* is fired on the virtual server now registered under its id, if any
TimeoutFired(expired) ==
    {<<x, "timeout">> : x \in {y \in expired : vs[info[y].sid] # NoServer}}

\* One tick of poll_pending_transfers: the first n pending transfers are
\* 10 s old and are drained; handle_transfer_timeout marks each handled and
\* fires FileTransferTimeout on the virtual server now under its id, if any
Expire(n) ==
    LET expired == ToSet(SubSeq(pending, 1, n))
    IN
    /\ n \in 1..Len(pending)
    /\ handled' = [x \in Transfers |-> handled[x] \/ x \in expired]
    /\ phase' = [x \in Transfers |-> IF x \in expired THEN "dropped" ELSE phase[x]]
    /\ Settle(SubSeq(pending, n + 1, Len(pending)), running,
              inflight \cup TimeoutFired(expired))
    /\ UNCHANGED <<vs, created, info, nextT>> /\ UNCHANGED fsVars

\* The task spawned by fire_later runs the listeners and drops the event
Dispatch(t, k) ==
    /\ <<t, k>> \in inflight
    /\ Settle(pending, running, inflight \ {<<t, k>>})
    /\ UNCHANGED <<vs, created, handled, phase, info, nextT>> /\ UNCHANGED fsVars

\* create_virtual_server: an existing id returns the existing server
CreateVirtualServer(sid) ==
    /\ vs[sid] = NoServer
    /\ created < MaxServerCreates
    /\ created' = created + 1
    /\ vs' = [vs EXCEPT ![sid] = created + 1]
    /\ UNCHANGED <<running, pending, inflight, handled, phase, info, nextT,
                   cliCount, srvCount, cliQuota, srvQuota>>
    /\ UNCHANGED fsVars

\* FileVirtualServer::shutdown: every handle taken from running_transfers
\* is aborted; a processor still running then returns Aborted
Aborted(o) ==
    [x \in Transfers |-> IF x \in running[o] /\ phase[x] = "running" THEN "done"
                         ELSE phase[x]]

\* delete_virtual_server(sid, delete_files): removed from the instance,
\* then shutdown takes running_transfers and aborts each transfer; the
\* handles are dropped.  With delete_files, remove_dir_all of the server's
\* directory is handed to spawn_blocking.
DeleteVirtualServer(sid, deleteFiles) ==
    LET o == vs[sid]
    IN
    /\ o # NoServer
    /\ vs' = [vs EXCEPT ![sid] = NoServer]
    /\ phase' = Aborted(o)
    /\ Settle(pending, [running EXCEPT ![o] = {}], inflight)
    /\ wiping' = IF deleteFiles THEN wiping \cup {sid} ELSE wiping
    /\ UNCHANGED <<created, handled, info, nextT, disk, renaming, removed>>

\* The contents of server sid's files
Stored(sid) == {disk[sid][n] : n \in {m \in Names : disk[sid][m] # NoFile}}

\* The blocking task: remove_dir_all of virtual_server_<sid>, whichever
\* server object now uses that directory
WipeFiles(sid) ==
    /\ sid \in wiping
    /\ wiping' = wiping \ {sid}
    /\ disk' = [disk EXCEPT ![sid] = [n \in Names |-> NoFile]]
    /\ removed' = removed \cup Stored(sid)
    /\ UNCHANGED <<vs, created, running, pending, inflight, handled, phase, info,
                   nextT, cliCount, srvCount, cliQuota, srvQuota, renaming>>

\* VirtualFileSystem::delete_file for a file n that exists (fs::metadata
\* fails otherwise: PathDoesNotExists); file_locked is false, so the file
\* is removed
DeleteFile(dk, sid, n) == [dk EXCEPT ![sid][n] = NoFile]

\* libteaspeak_file_system_delete_files on a registered server
DeleteFiles(sid, n) ==
    /\ vs[sid] # NoServer
    /\ disk[sid][n] # NoFile
    /\ disk' = DeleteFile(disk, sid, n)
    /\ removed' = removed \cup {disk[sid][n]}
    /\ UNCHANGED <<vs, created, running, pending, inflight, handled, phase, info,
                   nextT, cliCount, srvCount, cliQuota, srvQuota, renaming, wiping>>

\* rename_file's checks, made under the file system's read lock only: the
\* target must not exist and the source must (it is never locked)
RenameChecks(sid, from, to) ==
    /\ disk[sid][to] = NoFile
    /\ disk[sid][from] # NoFile

\* libteaspeak_file_system_rename_channel_file on a registered server:
\* rename_file passes its checks; the rename itself comes later
RenameChannelFile(sid, from, to) ==
    /\ vs[sid] # NoServer
    /\ RenameChecks(sid, from, to)
    /\ renaming' = renaming \cup {<<sid, from, to>>}
    /\ UNCHANGED <<vs, created, running, pending, inflight, handled, phase, info,
                   nextT, cliCount, srvCount, cliQuota, srvQuota, disk, wiping, removed>>

\* The rest of rename_file: fs::rename moves the source over whatever the
\* target now holds; a source gone meanwhile gives SourceNotFound
RenameApply(sid, from, to) ==
    /\ <<sid, from, to>> \in renaming
    /\ renaming' = renaming \ {<<sid, from, to>>}
    /\ disk' = IF disk[sid][from] = NoFile THEN disk
               ELSE [disk EXCEPT ![sid][to] = disk[sid][from], ![sid][from] = NoFile]
    /\ UNCHANGED <<vs, created, running, pending, inflight, handled, phase, info,
                   nextT, cliCount, srvCount, cliQuota, srvQuota, wiping, removed>>

HostStep ==
    \/ \E c \in Clients, sid \in ServerIds, d \in Dirs, size \in Sizes, n \in Names :
          Register(c, sid, d, size, n)
    \/ \E k \in RequestKeys, ok \in BOOLEAN : HandleTransferRequest(k, ok)
    \/ \E sid \in ServerIds :
          \/ CreateVirtualServer(sid)
          \/ \E deleteFiles \in BOOLEAN : DeleteVirtualServer(sid, deleteFiles)
          \/ \E n \in Names : DeleteFiles(sid, n)
          \/ \E from, to \in Names : RenameChannelFile(sid, from, to)
          \/ \E from, to \in Names : RenameApply(sid, from, to)

TaskStep ==
    \/ \E t \in Transfers : ProcessEnd(t)
    \/ \E n \in 1..MaxTransfers : Expire(n)
    \/ \E t \in Transfers, k \in EventKinds : Dispatch(t, k)
    \/ \E sid \in ServerIds : WipeFiles(sid)

\* Nothing left to do: the server waits for requests
Finished == ~ENABLED (HostStep \/ TaskStep) /\ UNCHANGED vars

Next == HostStep \/ TaskStep \/ Finished

\* The runtime runs every spawned task (event dispatch, processors) and
\* the 1 s tick task spawned by FileServer::do_start.  Each event and each
\* processor is stepped once, and only MaxTransfers of them are spawned, so
\* weak fairness of "some task steps" makes every one of them run.
Spec ==
    /\ Init /\ [][Next]_vars
    /\ WF_vars(\E n \in 1..MaxTransfers : Expire(n))
    /\ WF_vars(\E t \in Transfers : ProcessEnd(t))
    /\ WF_vars(\E t \in Transfers, k \in EventKinds : Dispatch(t, k))

-----------------------------------------------------------------------------
(* Properties *)

Live(t) == Held(t, pending, running, inflight)

\* The transfers of object o that are waiting for their client or running
Active(o) == {t \in Transfers : phase[t] \in {"pending", "running"} /\ info[t].obj = o}

\* The limits register enforces hold for the transfers that are pending or
\* running, per client and per virtual server, for the count and for the
\* pending quota of each direction: no RunningTransfer or PendingQuota is
\* given back while its transfer is still on the pending list or in a
\* server's running_transfers, across refused builders, claims and the
\* DrainFilter's drop, expiry, event dispatch and server deletion.
LimitsRespected ==
    \A o \in Objects :
        LET Bytes(S) == MapThenSumSet(LAMBDA t : info[t].size, S)
        IN
        /\ Cardinality(Active(o)) <= MaxConcurrentServer
        /\ \A d \in Dirs :
              Bytes({t \in Active(o) : info[t].dir = d}) <= MaxPendingServerQuota
        /\ \A c \in Clients :
              LET mine == {t \in Active(o) : info[t].client = c}
              IN  /\ Cardinality(mine) <= MaxConcurrentClient
                  /\ \A d \in Dirs :
                        Bytes({t \in mine : info[t].dir = d}) <= MaxPendingClientQuota

\* Every registered transfer's file passed generate_absolut_path
\* (TransferBuilder::register refuses a None as InvalidFilePath), and that
\* path resolution joins a user path below its area exactly where a walk
\* from the area's root ends, refusing it exactly when the walk climbs out
\* (PathsConfined): no transfer reaches a file outside its channel, icon
\* or avatar directory.
UserPathConfined == \A t \in Transfers : phase[t] # "free" => PathsConfined

\* A transfer that leaves the pending list without starting (it expired,
\* its server went away, handle_request failed, or the DrainFilter dropped
\* it) eventually loses its last holder, so its count and pending quota
\* are given back once the events fired for it have run.
DroppedTransferReleased ==
    \A t \in Transfers : phase[t] = "dropped" ~> ~Live(t)

\* A transfer whose processor has returned eventually stops counting
\* against its client's and server's concurrent limits and quotas (the
\* RunningTransferSummary counts running transfers).
FinishedTransferReleased ==
    \A t \in Transfers : phase[t] = "done" ~> ~Live(t)

\* No file's content is lost except by libteaspeak_file_system_delete_files
\* or the removal of a deleted server's directory: every content stays in
\* some file until one of those removes it, across transfer requests
\* (handle_request_upload), renames and server deletion.
NoFileLost ==
    \A x \in ServerIds \X InitialFiles :
        x \in removed \/ \E s \in ServerIds : x \in Stored(s)

=============================================================================
