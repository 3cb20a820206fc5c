# TLA+ models of the TeaSpeak RTC core and file-transfer registry

These modules model the media-routing core of the TeaSpeak server,
`src/Server/rtc/src`: clients publish audio and video, and the server fans it
out to the other clients of their channel. One module models the transfer
registry of the file server, `src/Server/teafile/filelib/src/request_handler`,
together with the file operations it and the C API perform on a virtual
server's files (`files/mod.rs`, `files/io.rs`, `capi/src/lib.rs`). Another
models the file server's front end, `filelib/src/request`: how connections
are accepted, how their requests are queued to the transfer registry, and how
an HTTP download reaches its peer.
The TLC configurations check the models.

## The system

| Part | Source | What it does |
|------|--------|--------------|
| Server registry | `server.rs` | Client and channel ids. Assigns a client to a channel (or to none). Destroys clients and channels. |
| Channel registry | `channel.rs` | Members. The audio broadcasts (keyed by owner) and video broadcasts (keyed by mode and owner). The video directory pushed to members. |
| Broadcast engine | `broadcast/{mod,audio,video,whisper}.rs` | One broadcaster per publishing stream. It takes packets from a *source* and sends them to a list of *sinks* (one sender per receiving client). It handles start/stop, timeouts and keyframe (PLI) requests. |
| Transport | `client/{rtp,rtp_sender,rtp_receiver,native}.rs` | RTP senders and receivers with sequence rebasing and the payload types of the remote's codecs. The receiver hand-off between successive sources. The native (non-WebRTC) audio path. |
| Codec utilities | `utils/{vp8,h264}.rs` | Keyframe detection on received VP8 and H.264 payloads, which drives the keyframe interval and PLI requests. |
| FFI | `exports.rs` | The C entry points. Each takes the server lock (read or write), then channel and client locks. |
| Transfer registry (teafile) | `request_handler/{mod,stats,server,transfer}.rs`, `events.rs` | Registers file transfers as pending, with concurrent-transfer and pending-quota limits. Hands a pending transfer to the client connection that sends its key. Expires pending transfers after 10 s. Runs downloads on virtual servers, which the C API creates and deletes. |
| Request front end (teafile) | `request/{mod,accept,request}.rs`, `server.rs` | A listener task per binding hands sockets to `handle_new_client`. Each connection gets an abortable task that runs the accept steps (protocol identification, raw key, TLS, HTTP header). It then queues the request on a channel of 32, which a consumer task of `FileServer` drains into the transfer registry. `shutdown` aborts the listeners and every listed connection. |
| Virtual file system (teafile) | `files/{mod,io,utils}.rs`, `capi/src/lib.rs` | Each virtual server's files, under `virtual_server_<unique id>`. Resolves a client's path below its channel, icon or avatar directory. Creates upload and download targets for transfers. Deletes and renames files for the C API. |

Concurrency:
- Every FFI call runs on the host's thread.
- Every broadcast has a poll task on a 4-thread tokio pool (`threads.rs`).
- Channel methods run under the channel's `RwLock` (write).
- Broadcasters and clients each have a `Mutex`.
- `Channel::register_client` and `broadcast_client_audio` do their fan-out in tasks spawned with `execute_task`, after the call has returned. So does the coalesced directory push.

The poll task of a broadcast holds only a `Weak` reference. It ends when the map drops the broadcast. When the source ends, it calls a shutdown callback that names the broadcast by its owner's client id only.

## Modules

### AudioBroadcast and ConsecutiveDelivery

Models `broadcast/audio.rs`: one `ClientAudioBroadcaster`, fed by a native client's `NativeAudioSourceSupplier` (`client/native.rs`, `librtc_audio_source_supply`). Every method runs under the broadcaster's mutex, so each is one action. The supplier's channel is FIFO and only the broadcast reads it, so a supplied event and its handling are one action too.

The sinks are of two kinds (`Client::create_audio_sender` prefers the native connection):
- an RTP receiver is told about the stream by `client_stream_start`/`_stop` (`view`);
- a native receiver gets numbers: the packet's number plus its sender's own count of stops.

State:
- `sender` (the sink list, as owner ids, in order);
- `last_send_packet` and `ended`;
- `view`, what each RTP receiver has been told by `send_start`/`send_stop`;
- a discrete clock `now`;
- the numbering: the host's next number (`wire`), the supplier's stop count, and each native sender's `last_sequence_id` and `stop_packet_count`.

`last_activity` is left out: no guard of the broadcaster reads it, only the whisper watchdog (modelled in Whisper).

Actions:
- `Supply` and `SupplyStop`, which are the `poll_source` events `SourcePacket` and `SourceEndSignal` plus the supplier's numbering; `SourceEnded`;
- `TestTimeout(at)`. The Instant may precede the last packet, because the channel sweep takes it before locking each broadcast (`channel.rs:128`);
- `RegisterClient`. A client without a connection gets no sender (`create_audio_sender` returns `None`). A native sender announces itself with one stop;
- `RemoveClient`, and `SenderClosed` (the reaping in `poll_senders`; a native sender never closes);
- `Tick`.

`ConsecutiveDelivery` is the abstract promise to a receiving client: after a reset, every packet or stop carries the number after the previous one. `Delivery == INSTANCE ConsecutiveDelivery WITH ...` maps each native receiver's last number to `last_sequence_id + stop_packet_count`. The refinement `ConsecutiveNumbers` is checked as a PROPERTY. `fresh` is an auxiliary variable for the mapping.

### Channel

Models `channel.rs`, the poll task and shutdown callback of `broadcast/mod.rs`, and the receiver revocation of `client/rtp_receiver.rs`.

A broadcast is an instance id with:
- an owner, a kind (audio or a video mode) and a stream;
- its sinks, and whether its source ended;
- the state of its poll task: `idle` → `polling` (Arc upgraded, lock held) → `idle` | `ending` → `done`.

The Channel methods are one action each:
- `RegisterClient` and `UnregisterClient(c, update)`;
- `BroadcastClientAudio(c, s)` and `BroadcastClientVideo(c, m, s)`. `s = NoStream` means the client has no source: the old broadcast is shut down and `ClientHasNoSource` is returned;
- `JoinVideoBroadcast` and `LeaveVideoBroadcast`.

The spawned tasks are their own actions, and they run in any order:
- `RegisterTask` and `BackfillTask`;
- `VideoBroadcastUpdateTask`, which clears `video_broadcast_update_pending`;
- `BroadcastPollStart`, `BroadcastPollEnd` and `BroadcastShutdown`.

The environment's `SourceEnd(i)` ends a source (the remote stream went away). Creating a source for a stream revokes the previous borrower of that stream's receiver (`RevokeSources`), which ends that broadcast's source.

Notes on the state:
- `requested` is a history variable: the audio broadcast each client last asked for. Only `AudioMapFaithful` reads it.
- `budget` caps the number of API calls (`MaxOps`). Once it is spent, `Done` lets the channel idle.

### VideoBroadcast

Models `broadcast/video.rs`: one `ClientVideoBroadcaster`.

State:
- the sink list `sender`;
- `joined`, what the publisher was told through `notify_client_join`/`notify_client_leave`;
- `last_received_packet`, `last_received_keyframe` and `ended`;
- the PLI rate limiter: `pli_request_timestamp` and the deadline of `pli_request_timer`;
- `withheld`, a history variable: a keyframe was asked for and no PLI has gone out since.

The source side (`RtpClientVideoSource` in `client/rtp_receiver.rs`) adds:
- `recv`, the state of its `RtpMediaReceiver` (waiting, owned, destroyed);
- `bandwidthLimit`, the limit the host configured, and `rxLimit`, the limit set on the `MediaReceiver`;
- `kfInterval`, the auto-keyframe interval.

`Configure` is `librtc_client_broadcast_video_configure` (`ApplyOptions`, with `SetBitrate`). `ReceiverReceived` is the source's first poll after the receiver arrives: it asks for a PLI and applies the stored limit. A packet is delivered only while the receiver is owned (`Delivering`). Its key flag is what the codec's parser says; for VP8 that is `Vp8IsKeyframe` (module Vp8).

`RequestPli(force)` is an operator returning the limiter's next state, because `poll_source`, `poll_senders` and `register_client` all call `request_pli`. The actions are the `poll_source` events (`SourcePacket`, `SourceSequenceEnd`, `SourceEnded`, and `SourceWake` for a due timer), `TestTimeout`, `RegisterClient`, `RemoveClient`, `PollSenders(closed, pli)` and `Tick`.

### Server

Models `server.rs` and the FFI calls that drive it.

State:
- the ids in `clients` and `channels`;
- `assignment` (`client_channel_assignments`) and each channel's `members`;
- the two id counters, which wrap at `2^IdBits` and skip 0;
- `destroyQueued`: `librtc_destroy_client` only spawns a task, and `DestroyClient` is that task.

`AssignChannelResult` is `assign_channel` as a function, because `destroy_client` and `destroy_channel` call it. `DestroyChannel` collects the ids exactly as line 141 does.

### Whisper

Models `broadcast/whisper.rs`, the session handling in `client/mod.rs` (`get_create_whisper_session` and its watchdog task), and `librtc_whisper_configure`/`librtc_whisper_reset`.

A session is its id. Its broadcast is abstracted to three things:
- its sinks;
- the ticks since `last_activity`;
- whether its source ended.

The watchdog has the states `running` → `finishing` → `done`. In `finishing`, `poll` returned `Ready` and the session lock is dropped, but the client lock is not yet taken.

### RtpConnection

Models the media plumbing of one WebRTC client: `client/rtp.rs`, the hand-off in `client/rtp_receiver.rs`, and the `Drop` of `RtpClientMediaSender`.

**Receiver hand-off.** A remote stream has one `MediaReceiver`, a unique object that moves between three places:
- the oneshot of a `Receiving` borrower (`inbox`);
- an `Owned` borrower;
- the return channel (`retq`).

Nothing in the model marks the receiver as lost. A step that drops the place it is in drops it, as Rust does.

The actions:
- `GetReceiver` is `create_audio_source` or `create_video_source` (`get_receiver`). It fires the previous revoke signal.
- Each borrower's task polls it in `BorrowerReceive`, `BorrowerOrphaned` (sender gone: `Err`), `BorrowerRevoked` and `StreamEnd`.
- `DropSource` is the host dropping a source.
- `InternalPoll` is the connection's receiver-poll task. It forwards the returned receiver or voids it (`VoidReceiverHandle`).

**Sender pool.** `senders` is `registered_sender`, with each sender's kind and `Owned`/`Borrowed` state. `assigned` is what the host was told through `client_stream_assignment`.

The actions:
- `ApplyRemoteOffer`;
- `GetCreateMediaSender`, which takes the first free sender or creates a batch and takes its last;
- `DropSender`, which spawns the release task `HandleMediaSenderReleased`;
- `SenderTerminated` and the reaping in `ExecutePeer`.

`Reset` (`librtc_reset_rtp_session`) clears both the receivers and the sender pool.

### MediaSender

Models `client/rtp_sender.rs`: the `RtpClientMediaSender` that a broadcast writes through, and the audio and video senders around it. One sender's life is a sequence of calls. A call is either a `send` (codec and virtual sequence number) or a `poll` of its event stream that finds `RemoteCodecsUpdated`, carrying the codec list the remote has then. The sender is a record, and `VideoSenderRun` and `AudioSenderRun` fold it over the calls (`FoldLeft`). The result is the list of packets put on the wire, each with a payload type and a sequence number.
- `MediaSend` is `RtpClientMediaSender::send`. The first packet fixes `base_seq` (the MediaSender's `current_sequence_no`) and `virtual_base_seq`. Every later packet is `base + (virtual - virtual_base)` modulo `SeqNoRange` (2^16 in the code).
- `VideoSenderNew`, `UpdateVideoCodec`, `UpdatePayloadType` and `VideoSend` are the video sender. It remembers the first H264 and VP8 entries of the remote's list and the last codec it sent. It re-selects the payload type on a codec change or a renegotiation, and drops packets of a codec the remote lacks.
- `UpdatePayloadFormatIds` and `AudioSend` are the audio sender's opus voice/music choice.

Timestamps are rebased by the same arithmetic and are left out. RtpConnection extends this module and checks it (`MediaSendersFaithful`).

### Vp8

Models `VP8PayloadDescriptor::parse` (`utils/vp8.rs`) and `vp8_is_keyframe` (`client/rtp_receiver.rs`) as operators over a payload, which is a sequence of byte values. A read past the end is the `io::Error` of `?`. The result is a set: `{}` for an error, `{TRUE}` or `{FALSE}`. The reference (`Layouts`, `Descriptor`, `Frame`, `Expected`) builds packets from every combination of the RFC 7741 descriptor flags and the frame-tag fields. `Expected` says, for every truncation, what a correct parser must report.

### FilePaths

Models the path check of the virtual file system: `path_traversal` (`TraversalStep`, folded by `PathTraversal`), `normalize_user_path` and `generate_absolut_path` (`files/utils.rs`, `files/mod.rs`). A path is the sequence of `std::path::Component`s: `root`, `cur`, `parent` and names. The reference `Walk` walks the components from the area's directory. It fails as soon as a `..` would leave the area.

### TransferHandler

Models the transfer registry of teafile. Its boundary is the filelib API: `TransferBuilder::register`, `handle_transfer_request` and the virtual server calls, with every argument a caller could pass. In this repository the only call of `register` is the dummy download that `FileServer::do_start` registers (`server.rs:167-172`), and the C API creates a `FileServer` (`capi/src/lib.rs:270`) but never starts it, so no production path registers a transfer. The model checks the registry as a library, for the callers a server built on it would have. `pending` is the pending list. `running[o]` is the `running_transfers` list of virtual server object `o`; objects are numbered by creation, so a deleted and re-registered server id gets a new object. `inflight` holds the events spawned by `fire_later` that have not run yet.

The counts and quotas (`stats.rs`) live in the `FileTransferInfo`: its `RunningTransfer` and `PendingQuota` give them back in their `Drop`. The model therefore tracks who holds the `Arc<FileTransferInfo>` (`Held`):
- the pending list;
- a handle in `running_transfers`;
- a queued event.

`Settle` applies the drops. Any step that removes the last holder unregisters the transfer (`Unregister`) and removes its quota (`RemoveQuota`), on the client summary and on the server summary.

The actions:
- `Register` is `TransferBuilder::register`. It counts the new transfer before it compares with the limits (`Admitted`, `>`). A refused builder changes nothing.
- `HandleTransferRequest` is the request loop calling `handle_transfer_request`. Every transfer has the same key (`KeyOf`, `mod.rs:356`), so a request takes the oldest pending transfer. Dropping the `DrainFilter` removes every other pending transfer as well.
- `Expire` is one tick of `poll_pending_transfers`. It drains a prefix of the list (the transfers at least 10 s old) and fires their timeout events.
- `Dispatch` runs one queued event.
- `ProcessEnd` is a download processor returning.
- `CreateVirtualServer` and `DeleteVirtualServer` are the C API's register and unregister. Deletion aborts the server's running transfers and drops their handles. With `delete_files` it spawns the removal of the server's directory, which `WipeFiles` runs later.

The files: `disk[sid][n]` is the content of file `n` of server id `sid`, or `NoFile`. The directory is named after the unique id, so files outlive the server object. A content is named by the place it started in, and `removed` records the contents that `delete_files` or `WipeFiles` removed.
- A download is registered only for a file that exists. It starts only if `execute_download` succeeds (`ok`) and `CreateDownloadTarget` finds the file.
- An upload request runs `handle_request_upload`: `CreateUploadTarget` opens the file with `create(true)` and `set_len`, and `AbortUpload` removes it. The request then fails.
- `DeleteFiles` is `libteaspeak_file_system_delete_files`.
- A rename is two steps, because `rename_file` holds only the file system's read lock: `RenameChannelFile` makes the checks (the target is free, the source exists) and `RenameApply` runs `fs::rename`, which replaces whatever the target holds by then.

`file_uploads` and `file_downloads` are left out. `create_download_target` never inserts into `file_downloads`, and every upload target is dropped before `handle_request_upload` returns. So `file_locked` and `directory_locked` are false whenever delete or rename asks.

### SdpCompress

Models `compress_sdp` mode 1 (`rtc/src/sdp.rs`), which turns a session description into JSON with shared maps: ICE transports by ufrag, codec descriptions by payload type, and extension URIs by extmap id. Each media line then names its entries by key; an application line is kept raw. A media line is a record of the attributes the passes read, and every string is a value of a small set.
- `GenerateCodecInfo` and `GenerateTransportInfo` are the two helpers, with `{}` for `None`.
- `IcePass`, `CodecPass` (with `CodecStep` per payload type), `ExtPass` and `MediaPass` are the four loops, each a fold over the lines. `CompressSdp` runs them in order; the first error (`Fail`) ends it, as the code's `?` does.
- The reference is declarative. `Encodable` says when a session can be encoded: every line has its ICE attributes, every audio or video line lists integer payload types with an rtpmap each, and a payload type or an extmap id means one thing in every line. `Decode` reads a media entry back through the maps. `ExpectedLine` is what the line itself says.

Nothing outside `sdp.rs` calls `compress_sdp`, and `decompress_sdp` is unimplemented. The module is therefore a pure operator, checked in the `rtp_connection` run (`SdpCompressionFaithful`).

### RequestServer

Models the request front end of teafile, for one binding.

The connections:
- `sock[c]` is the `RequestClient` state, with `new`, `incoming` and `refused` for the times before and without one. `task[c]` is its abortable `execute_client` task. `clientConnections` is the list that `shutdown` walks.
- `ListenerAccept` is `accept().await` returning in the listener task. `HandleNewClient` is the rest of that poll. An abort of the listener stops only later polls, so `HandleNewClient` has no guard on `listening`.
- `AcceptStep` is one poll of a connection that is still accepting. It runs one of `Identify`, `RawKey`, `SslSetup`, `SslHandshake`, `HttpHeader` and `FutureClose`. Each step ends in one of three ways:
  - `StepTo`: the next step;
  - `Finished`: a request, and the state becomes `Transferring`;
  - `Errored`: `Disconnected`.
  The peer's bytes are abstracted to which of these outcomes happens. Every step may return Pending first, so each is its own action.
- `Enqueue` is the rest of the poll after `Finished`. It runs with the client lock released, so a `Shutdown` can come between (`enqueuing`). On success the `.then` cleanup (`Cleanup`) runs in the same poll. On a full queue, `CloseFailedEnqueue` runs `close_request`: HTTP returns a 503 future (`Disconnecting`), and raw closes the socket. `ClientFinish` is the later poll that ends a Disconnecting or Disconnected connection, followed by the cleanup.
- `Shutdown` is `RequestServer::shutdown`. It aborts the listener. It aborts every listed task and takes its disconnect future, which the caller awaits. It clears the list.

The consumer and the download:
- `Consumer` is the task of `FileServer::do_start`. It takes a request and calls `handle_transfer_request`, then `close_request`. A raw request always fails and is closed. An HTTP request may fail before `execute_download` (503), fail after it took the socket (no response), or start the download (`StartDownload`). The model starts at most one download.
- The download is `RunningDownloadFileTransfer::poll_process` over a `TransferHttpDownload`. `ProcRead` fills the ring buffer from the file, which holds `onDisk` bytes: the registered size, or fewer if it shrank after registration. `ProcSpin` is the read loop meeting `Ok(0)` before `read_bytes_left` reaches 0: it spins inside the poll, and the download takes no further step. `SinkWrite` is one `poll_write`: while `AwaitingMediaBytes`, the sink buffers the first `min(32, size)` bytes; while `SendingHttp`, it writes the header and those bytes (`FlushSendingHttp`); while `SendingContent`, it writes to the socket. `SinkFlush` is `poll_flush` once everything is read and written. A peer reset (`SinkWriteError`) and a disk error end the transfer at any time.
- The `TimeoutWatcher` (`transfer.rs:69-104`) is three actions. `ArmTimeout` is the processor's first poll: it makes the one-second interval and keeps it in `alive_checker` (`checker`). `Tick` is the interval's next tick elapsing (`tickReady`). `TimeoutFire` is the poll that sees that tick. The watcher's loop re-reads the same `Ready` tick until `inactive_ticks` passes 10, so that poll returns `NetworkTimeout`, and `reset_timeout` never decides.
- `rx` is what the peer has received, as file positions, with 0 for the header.

### Terminal

Models the console of the standalone file server (`fileserver/src/terminal.rs`). `main.rs` loops on `terminal::next_event` and runs each command line it gets, until `Terminate`.
- A prompt is a record: `line_buffer` and `line_offset` (`line`, `offset`), `draw_buffer` and `draw_cursor` (`draw`, `cursor`), `temp_line_buffer` (`temp`), `history` and `history_offset` (`hoff`), and the instance's `control_issued` (`control`). `InitPrompt` is `TerminalPrompt::new`.
- `HandleKey(p, k)` is `TerminalInstance::handle_input` for one event. It returns the prompt after the event and what it sent to the command loop: `Terminate` for ^K after ^C, a `Command` for Enter on a line with a non-blank character, nothing otherwise. Enter and Resize return before `control_issued` is cleared, as in the code.
- `PromptInput` is `TerminalPrompt::handle_input`, one operator per key (`PromptChar`, `PromptBackspace`, `PromptDelete`, `PromptLeft`, `PromptRight`, `PromptUp`, `PromptDown`). `TakeLine` is `take_line`, and `Trimmed` is its loop that keeps the last `HistoryLimit` lines. `Recall` is `update_draw_buffer`.
- Characters are `" "` (what the blank-line test looks at), `"k"` (the key of the exit chord) and `"wide"`, a character longer than one byte, which the editor ignores.
- `Reachable` is every prompt a sequence of key events reaches, computed by `Explore` from `InitPrompt`. Characters are typed only while the line is shorter than `MaxLine`.

Drawing (`print_prompt`, `clear_prompt`, `update_cursor`) only writes to stdout, and `prompt_width` is never read. They are left out, and so is the event channel behind `send_terminal_event`. The module is a pure operator, checked in the `request_server` run while the server has not shut down.

### BufferStream

Models `BufferStreamReader` (`request/util.rs`). Every accept step reads the peer through it: ProtocolIdentify fills 8 bytes, Raw fills the transfer key and consumes it, Http fills up to its header limit and consumes the header, and the SSL stream reads it through `poll_read`.
- The k-th byte the peer sends is the number k, so the stream's order can be seen in the data. 0 is a byte the `resize` zeroed.
- A state is the reader (`buf` is the `Vec`, `bb` is `buffered_bytes`), how far it read the socket (`pos`), what the peer sent and whether it closed (`sent`, `closed`), what the steps and the request took (`out`), and the last call's result (`res`).
- `PollBuffered` is `poll_buffered`. Its loop takes any split of the bytes that have arrived, and it ends on `Pending`. An error drops what the loop read. The end of the stream makes the loop spin (`"spin"`), as does a full `ReadBuf` that tokio answers with `Ready(0)`; tokio may also answer it with `Pending`, so both are outcomes. `eof_received` is set only inside a loop that never ends, so it is left out.
- `ConsumeBuffer` is `consume_buffer` with its `copy_within`. `FilledBuffer` is `filled_buffer`. `PollRead` is the reader's `poll_read`: buffered bytes first, then the socket. `Consume` is a step taking the head of `filled_buffer` and consuming it.
- `StreamStates` is every state that a sequence of calls and peer steps reaches, computed by `ExploreStream`. The module is a pure operator, checked in the `request_server` run.

## Runs

| Run | Expect | Checks |
|-----|--------|--------|
| `audio_broadcast` | pass | `SinkViewConsistent`: every attached RTP receiver is started iff a packet went out since the last stop, so a mid-stream sink is started first and each stop reaches each running sink once. `ConsecutiveNumbers` (refinement of `ConsecutiveDelivery`): every native receiver is sent consecutive numbers from its first packet on, whatever the mix of host stops, timeout stops and late registrations; the numbers have 2 bits, so every counter wraps. A second sender for one client, which `register_client`'s `contains_client` check prevents, would also break it. |
| `video_broadcast` | pass | `WatchersNotified`: the publisher's view of its watchers equals the sink list, across reaping in `poll_senders`. `Vp8KeyframeDetected`: the VP8 parser behind every recorded keyframe reports a keyframe exactly for an intact key frame at the start of partition 0, and an error exactly for a truncated field. This holds for every descriptor layout and every truncation. `PliRequestServed` (liveness): a keyframe request held back by the 500 ms limit is eventually sent through the delay timer, unless the source ends. |
| `channel_core` | pass | `DirectoryTaskQueued`: the coalescing flag is set exactly while one directory task is queued, even though `unregister_client` borrows it. `DirectoryReachesNewMember` (liveness): a joining member is eventually sent the directory. `MembersEventuallySubscribed` (liveness): every member eventually becomes a sink of every audio broadcast it does not own. |
| `channel_stale_callback` | violation | `AudioMapFaithful` (audio only, `VideoModes = {}`). The sequence:<br>1. A client re-publishes audio on the same stream while the old broadcast's poll task holds its Arc.<br>2. The old source is revoked, so the poll returns `true`.<br>3. Its callback removes `audio_broadcasts[client]`, which is the new broadcast. |
| `server_registry` | pass | `MembershipMatchesAssignment`: a client is a member of a live channel iff it is assigned to it. `DestroyedClientLeaves` (liveness): a client passed to `librtc_destroy_client` is eventually gone. Client ids wrap within the run. |
| `whisper_session` | pass | `SinksAreTargets`: the whisper broadcast only sends to listed targets. `EndedSessionCleared` (liveness): a session whose source ended is removed by the watchdog, even though the broadcast's shutdown callback is empty. |
| `rtp_connection` | pass | `OwnerIsCurrentOrRevoked`: an owner of the stream is the latest borrower, or its revoke signal fired or closed. `SupersededOwnerYields` (liveness): such an owner lets go. `AssignmentViewFaithful`: the host's stream-assignment view matches the pool's Borrowed senders. `DroppedSenderReturns` (liveness): a dropped sender becomes lendable again or leaves the pool. `MediaSendersFaithful`: for up to 4 calls from every start, an audio or video sender sends exactly the packets that the codec list polled last allows. Each packet has that list's payload type, never one cached from before. The sequence numbers continue the MediaSender's own, without a gap or a repeat, across the wrap of either numbering. `SdpCompressionFaithful`: over every session of up to two media lines, `compress_sdp` fails exactly when the session cannot be encoded. Otherwise every line reads back as it was through the shared maps, so no payload type or extmap id stands for two values. When the bundled lines of a ufrag agree on their credentials, the ICE merge also loses no candidates. |
| `rtp_receiver_lost` | violation | `ReceiverConserved`. The sequence:<br>1. A void borrower owns the stream.<br>2. A source asks for it, and the void borrower is revoked and gives it back.<br>3. `InternalMediaReceiver::poll` forwards it into the source's oneshot.<br>4. The host drops the source before its first poll, and `destroy` (`rtp_receiver.rs:176`) returns only an Owned receiver.<br><br>The `MediaReceiver` is dropped, and every later source for the stream waits forever. |
| `transfer_handler` | pass | `LimitsRespected`: the transfers that are pending or running respect the client and server concurrent limits and pending quotas, so no count or quota is given back while its transfer is still pending or running. `UserPathConfined`: every path a transfer names resolves below its area, exactly where a walk from the area's directory ends. It is refused exactly when the walk climbs out, however `/`, `.` and `..` are mixed. `DroppedTransferReleased` (liveness): a transfer that leaves the pending list without starting eventually gives its count and quota back. This holds whether the transfer expired, its server went away, `handle_request` failed, or the `DrainFilter` dropped it. |
| `transfer_leak` | violation | `FinishedTransferReleased` (liveness). The sequence:<br>1. A download is registered, claimed and started.<br>2. Its processor returns.<br><br>Nothing takes the handle out of `running_transfers` (`server.rs:375`), so the transfer keeps counting against its client's concurrent limit and pending quota until the virtual server is deleted. |
| `request_server` | pass | `ConnectionsTracked`: `client_connections` holds exactly the connections whose task is running, across cleanup, shutdown, a failed enqueue and a listener poll that outlives its abort. `ResponseInOrder`: a download's peer always holds a prefix of header, media bytes and file, whatever the socket accepts at each write. `RequestsAnswered` (liveness): every request an accept produced is eventually queued and handled, or closed, including when the queue is full or a shutdown interleaves with the enqueue. `DownloadEnds` (liveness): every started download of a file that still holds its registered size ends, even when the peer stops reading, because the `TimeoutWatcher` interval armed by the first poll wakes the processor. `TerminalPromptFaithful`: after any key sequence the console shows the line it will hand over, with the cursor at the edit offset, and the history and its position stay in bounds. `RecallRestoresDraft`: from any prompt outside history mode, n presses of Up show the n-th newest history line and n presses of Down bring back the line being typed. `StreamPreserved`: whatever the order of `poll_buffered`, `consume_buffer` and `poll_read` and however the socket splits the bytes, what the steps took followed by the buffered bytes is exactly what was read from the socket, in order. |
| `transfer_upload_deletes` | violation | `NoFileLost`: a file's content disappears only through `delete_files` or the removal of a deleted server's directory. The sequence:<br>1. A virtual server is registered, with file `n1`.<br>2. An upload to `n1` is registered.<br>3. The client connects with the key.<br><br>`handle_request_upload` (`server.rs:385`) opens and truncates `n1`, and `abort_upload` removes it. The request is then refused with `NotImplemented`, and the file is gone. |

Every property of a passing run has a mutant in `PROJECT.json`: a plausible bug in the mapped code that TLC shows violates it. For example:
- dropping the flag reset at `channel.rs:304`;
- an `execute_broadcast` error that is not returned (`channel.rs:213`);
- leaving out the `send_start` for a mid-stream sink.

## Bounds

**AudioBroadcast** uses:
- one RTP receiver, two native receivers (symmetric) and one client without a connection;
- `AudioTimeout = 3` for the 500 ms and `MaxTime = 5`. A stream can therefore run, time out and restart within the bound; only the order of the durations matters to `test_timeout`;
- `SeqBits = 2`, so the host's numbers, the supplier's stop count and every sender's counters wrap.

**VideoBroadcast** uses:
- two watchers;
- `PliInterval = 2`, `KeyframeInterval = 3`, `VideoTimeout = 4` and `MaxTime = 9`. Within that window a request can fall inside the rate limit, the auto-keyframe interval can pass twice, and the stream can time out and be restarted by a later packet, with time left for a second PLI window. Only the order of the durations matters to the code's comparisons.

**Channel** uses:
- two clients and one stream;
- one video mode. Camera and Screen run identical code;
- `MaxInst = 2` broadcasts. Two are enough for a replacement, or for one audio and one video of the same owner, which are the cases of the races above;
- `MaxOps = 5` API calls.

**Server** uses `IdBits = 2` (ids 1..3) with six `create_client` calls. The client counter therefore wraps and skips 0 twice, and it can hand out the id of a client that is still live, with or without a channel and with its destruction queued. It uses three channel creations, so every channel id is used, clients move between channels, and the channel counter does not wrap. A wrap replaces a live channel (`server.rs:78`), but in the code that takes 2^32 creations, and no run checks it.

**Whisper** uses:
- the whisperer (connected), a known client without a connection, and an unknown id;
- two streams and two sessions;
- `IdleSecs = 1`, which keeps the `as_secs()` truncation (a session expires after 4 ticks);
- four FFI calls: enough for a configure, a reconfigure that reuses the session, a reset and a second session, interleaved with the watchdog.

**RtpConnection** uses:
- two `get_receiver` calls, enough for a request, a drop and a second request;
- the return channel's capacity of 2;
- one media kind, since audio and video run the same code;
- `SenderBatch = 2` for the code's 6, which keeps the control (create a batch, take its last) and shrinks the data;
- three sender ids, two sender requests, one terminated sender and one reset.

**TransferHandler** uses:
- two clients and one virtual server id, with two server objects, so the id can be deleted and registered again;
- two registrations of 1 or 3 bytes. Two transfers can be pending together, so the `DrainFilter` can drop one;
- a client limit of 1 transfer and 3 bytes, and a server limit of 2 transfers and 2 bytes. The bounds make two checks refuse on their own. The client count refuses a client's second registration while the server still has room. The server quota refuses a 3-byte transfer that the client quota admits. The other two checks cannot bind alone within two registrations: the client quota cannot, because the count refuses first, and the server count needs a third transfer. A third registration grows the state space past the run's time limit (over 600,000 states after a minute, against 140,000 in all);
- two file names with one file at the start, so a rename, a delete and a download of a missing file all happen;
- downloads only in `transfer_handler`. Uploads triple its state space. For the registry an upload is a failed request, the same as a download whose start fails, which the run includes. `transfer_upload_deletes` adds uploads.

With three names, two files and downloads only, `NoFileLost` fails in 6 states: two renames to one target pass their checks, and the second replaces the first file. PROJECT.json lists this as a hazard.

**MediaSender** (checked in the RtpConnection runs) uses:
- `SeqNoRange = 4` for the code's 2^16. The MediaSender starts at 0 or at 3 (`StartSeqs`), and the virtual numbers are 0..3, so both numberings wrap within four calls;
- up to `MaxCalls = 4` calls, each a send of either codec or a poll of any listed codec list. Four calls allow a send, a renegotiation, a send of the other codec and a send back;
- two dynamic payload types, 96 and 97, and four codec lists per medium: none, one codec, both, and a list with a duplicate or a renumbering. The audio lists include the single-codec case and a non-opus entry.

**Vp8** checks every combination of the descriptor flags, the picture-id length, the frame tag and the start code, each with every truncation. The check is exhaustive over the layouts RFC 7741 allows; only the values of the fields the parser skips are abstracted, to all-zero or all-one bits.

**FilePaths** uses the names `a` and `b`, the channel and avatar areas, and paths of up to `MaxPathLen = 5` components. That is enough for `..` after `.`, a root in the middle of the walk, two levels down and three up.

**RequestServer** uses:
- three connections, with a request queue of 1 for the code's 32, so a third request meets a full queue;
- file sizes 0, 1 and 3, with 1 media byte for the code's 32 and a ring buffer of 2 for its 8 KiB. A file of 3 needs two reads and sends content after the header, and a file of 1 is all media bytes. The file on disk holds any number of bytes up to the registered size, so it can run out before the first read, after the media bytes, or mid-content. Only the comparisons of sizes with these limits matter to the code.

**SdpCompress** (checked in `rtp_connection`) uses `MaxMediaLines = 2` and about 200 lines in three families:
- ICE lines vary the ufrag, the credentials (one value for password, fingerprint, options and setup, or missing) and the candidates;
- codec lines vary the format-list kind, the payload types, the rtpmaps (a missing one, two codecs, and a payload type given two rtpmaps), a wildcard or per-type rtcp-fb, and an fmtp;
- extension lines give one extmap id two URIs across lines, or two ids in descending order.

Two lines are enough for each cross-line check to fail and to pass. The whole set of sessions is evaluated once.

**BufferStream** (checked in `request_server`) uses `MaxBytes = 5`, `Targets = {2, 3, 4}` and `ReadSizes = {1, 2}`. That gives 5811 states. With three different targets, the buffer grows past `buffered_bytes` and keeps stale bytes behind it. Consumes then shift a tail of 1 to 3 bytes, and `poll_read` splits the buffer. Only the order of the targets and lengths matters, not their real sizes (8, the key size, the header limit).

**Terminal** (checked in `request_server`) uses `HistoryLimit = 2` for the code's 16 and `MaxLine = 2`. That gives about 5500 prompts. They include a full history that drops its oldest line, a saved draft in history mode, and lines that are empty, blank or not. Only the comparison of the history's length with the limit matters to `take_line`.

The run does not check deadlock: once every connection is done the server waits for peers that the bound no longer provides.

## Fairness

The liveness properties assume:
- **weak fairness** on every spawned task. In Channel these are `RegisterTask`, `BackfillTask`, `VideoBroadcastUpdateTask`, `BroadcastPollEnd` and `BroadcastShutdown`. In Server it is the deferred `DestroyClient`. In Whisper they are `WatchdogFinish` and `WatchdogGone`. The tokio pool eventually polls every spawned, woken task;
- **weak fairness** on `BroadcastPollStart` for a broadcast whose source ended, because the end wakes its task;
- **weak fairness** on the timers: `SourceWake` and `Tick` in VideoBroadcast (the PLI delay fires), and `Tick` in Whisper (the 500 ms interval).

- **weak fairness** in RtpConnection on every borrower's poll, the receiver-poll task, the release tasks and `execute_peer`. Each is a spawned task woken by the oneshot, channel or waker it waits on.

- **weak fairness** in TransferHandler on the tick task (`Expire`), on event dispatch and on the download processors. `FileServer::do_start` spawns the tick task, and the runtime runs every spawned task. Each event and each processor steps once, and there are at most `MaxTransfers` of each, so fairness of "some task steps" makes each one run. `WipeFiles` and `RenameApply` get no fairness: no property depends on them, so leaving them out only weakens the assumption.

- **weak fairness** in RequestServer on `Enqueue`, `ClientFinish` and `Consumer`. `Enqueue` finishes a poll that has started. A Disconnecting or Disconnected connection's task was woken, and the 5 s sleep bounds the wait. The consumer is woken by the channel. It also has weak fairness on `ArmTimeout`, `Tick` and `TimeoutFire`: the spawned processor is polled once, and the interval is a tokio timer that wakes it. The accept steps and the rest of the download get no fairness: they wait on the peer.

API calls, packets and source events are not fair: clients may stop calling or sending at any time.

## Not modelled (yet)

- **What `webrtc_lib` does with a sent packet.** MediaSender models `current_sequence_no` as advancing past every packet sent, as `send` sets it. Whether `webrtc_lib`'s `send_seq` also advances it is not in the repository. The receiver-side rebasing (`RtpMediaReceiver::poll_next`) is also not modelled.
- **The lock order of `whisper_configure`** (`exports.rs:630/642`). It locks the caller, then each target, under the server read lock. Two hosts' threads configuring mutual whispers can deadlock.
- SDP: `compress_sdp` mode 0 (the SDP text unchanged), `decompress_sdp` (unimplemented), and the JSON encoding. RTP header extensions (`extension.rs`, byte parsing) and H.264 keyframe detection (`utils/h264.rs`).
- Logging, `threads.rs`, and the FFI marshalling.
- The rest of teafile:
  - the rest of `request/util.rs`: `send_http_response` and the header text (formatting), `StreamStatistics` (relaxed `fetch_add` counters that only feed statistics) and `set_keepalive` (a socket option);
  - the reading and writing of file data (`files/io.rs`), the streaming download from an upload in progress, and directory queries and creation;
  - the console's drawing and event loops (`terminal.rs`), which write to stdout and forward events, and the C API's marshalling;
  - server instance removal, which nothing calls;
  - `update_quota_deltas`, which nothing calls.
- **The constant transfer key** (`mod.rs:356`). `TransferBuilder::new` overwrites the random key with a fixed string. Any connection that sends it claims the oldest pending transfer of any client. The model keeps this, and the runs above hold with it; what it does to privacy is not a property of the registry.
- **The whisper watchdog** (`client/mod.rs:279`). It decides that a session is idle under the session lock, and clears it later under the client lock. `ClearedSessionWasIdle` (Whisper) states that a cleared session was idle when cleared. TLC finds it violated under `MC_Whisper.cfg` in 8 states: audio arrives between the two steps and is cut off. The window is one watchdog step, so no run is kept for it.
- **`destroy_channel`** (`server.rs:141`) collects the assignments' channel ids instead of their client ids. Members of a destroyed channel stay assigned to it, and the client whose id equals the channel id is moved out of its own channel. `DestroyChannel` models the line as written. `DestroyChannelReassignsMembers` states the intent, and TLC finds it violated under `MC_Server.cfg`. The mistake is in one line, so no run is kept for it.
- **The channel registration task** (`channel.rs:156`) checks only that the channel and the client still exist. A client that left before the task ran is subscribed to the old channel's audio. `SinksAreMembers` states membership gating, and TLC finds it violated in MC_Channel; no run is kept for it.
- **The video shutdown callback** (`channel.rs:265`) calls `shutdown_broadcast_audio`. An ended video source therefore tears down its owner's audio broadcast and stays in the video directory. The mistake is in one line and needs no interleaving to reach, so no run checks it.
- **An ended remote stream stays registered.** On the end of a remote stream, `return_channel.send(None)` (`rtp_receiver.rs:238`) builds a future that is never polled. The `InternalMediaReceiver` never completes, and it stays in `registered_receivers`.
- **An empty download sends no response** (`request.rs:304`). For a file of size 0, `poll_process` never calls `poll_write`. It goes straight to `poll_flush`, so the sink stays in `AwaitingMediaBytes` and never sends the HTTP header, yet the transfer reports `Success`. The invariant `result = "success" => Len(rx) = fileSize + 1` fails in 8 states under `MC_RequestServer.cfg`. No run is kept for it; PROJECT.json lists it as a hazard.
- **A connection accepted after shutdown** (`mod.rs:375`). Aborting the listener does not stop a poll that is already past `accept().await`. That poll adds the connection after `shutdown` cleared the list. `shutDown => \A c : task[c] # "live"` fails in 4 states. `ConnectionsTracked` still holds: the late connection is listed.
- **No 503 after a failed download start** (`request_handler/server.rs:399`). `execute_download` takes the socket before the file is opened. If opening fails, `close_request` has nothing to answer on, and the peer's connection is closed without a response.

## Observed in the source, not checked

The following were seen while modelling. They are outside the modelled state or need no interleaving to reach, so no run checks them.
- **The console's exit chord survives Enter** (`terminal.rs:496-505`). Enter and Resize return before `control_issued` is cleared. So ^C, Enter, ^K terminates the server, as ^C ^K does. `HandleKey` keeps this.
- **`clear_prompt` over-clears** (`terminal.rs:370`). Each pass writes `min(bytes_written, 60)` blanks instead of the remaining `prompt_length - bytes_written`. The total doubles until it passes the old length, and can run past the terminal width and wrap.
- **Directory queries** (`files/mod.rs:313`, `capi/src/lib.rs:144`). `query_path_info_` sets `empty` to `not_empty`. The C API then reports a directory with `file_type: 2`, the value it gives a file.
- **`create_channel_directory` frees the caller's string** (`capi/src/lib.rs:465`). It takes the C caller's `path` with `CString::from_raw`, which frees it with Rust's allocator when dropped. The other entry points read with `CStr::from_ptr`.
- **The HTTP header scan** (`request/accept.rs:356`). It looks for the last `\r\n\r\n` in the buffer (`rposition`), not the first. `buffer_scan_index` is set but only asserted on. A pipelined body that contains a blank line is therefore taken as part of the header.
- **The download timeout fires early** (`transfer.rs:89`). `TimeoutWatcher` loops on one `poll_tick` result, so every transfer times out at its first tick, about a second after it starts, however fast the peer reads. The model keeps this (`TimeoutFire`). Only an ending is a property (`DownloadEnds`), because the intended 10 s of inactivity is not observable in the modelled state.
- **Bundled transports are merged without a check** (`sdp.rs:253`). The comparison of two lines' transports under one ufrag is commented out. A later line's different password, fingerprint or setup is dropped silently. `SdpCompressionFaithful` therefore asks for faithful transports only when the bundled lines agree.
- **H.264 STAP-A** (`utils/h264.rs`). After it reads an aggregation unit's 16-bit size and its NAL header byte, the parser skips `psize` bytes instead of `psize - 1`. Every unit after the first is then read from the wrong offset. `h264_is_keyframe` (`rtp_receiver.rs:523`) can therefore miss an SPS in a later unit, or take a payload byte for one. A keyframe property for H.264 would fail for this reason, not from any interleaving, so the codec is left out of `VideoBroadcast`'s keyframe check.
- **`poll_buffered` at end of stream** (`request/util.rs:49-56`). The loop ends only on `Pending`. At end of stream, `poll_read` keeps returning `Ready(Ok)` with nothing read, so the loop spins.
- **A lost wakeup in streamed downloads** (`filelib/src/files/io.rs:254-262`). `StreamingDownloadTarget::poll_read` checks the upload with `try_read` and releases the lock. Only after that does it register its waker. If the uploader wakes the waiters in between, that wakeup is lost. The reader then stalls until the next write, `finish_upload` or `abort_upload` (`io.rs:135`, `io.rs:147`). Only the `test_streaming` path (`files/mod.rs:536`) streams, because in production every upload is aborted, so the files model leaves this out.
- **The OPTIONS check** (`request/accept.rs:89`). `&buffer[0..4] == b"OPTIONS"` compares 4 bytes with 7, so it never matches.
- **The video bitrate cap.** `register_remote_stream` (`rtp.rs:377`) limits a remote video stream to `max_video_bitrate`. The source's first poll after the hand-over (`rtp_receiver.rs:559`) sets the limit to the source's `bandwidth_limit`, which is `None` until the host configures one (line 418). The cap is therefore lost, and a remote's video is limited only by what the host configures. The model keeps this (`ReceiverReceived` applies the source's limit), but no property states the cap, because the run slots are taken by the findings above and a test of one stream reaches the case directly.
- **A download of a shrunken file never ends** (`files/io.rs:351`, `transfer.rs:204-224`). `read_bytes_left` is `transfer_info.file_size`, taken at registration (`mod.rs:480`). `NormalDownloadTarget::new` opens the file without comparing its size. A file that shrank in between answers `File::read` with `Ok(0)` while `read_bytes_left > 0`. The read loop feeds nothing and goes round again inside the same poll. The processor never returns, the timeout is never polled, and a runtime worker is lost. RequestServer models this (`onDisk`, `ProcSpin`): TLC reaches the spinning state, and `DownloadEnds` is stated for a file of the registered size only.
- **Opus music with a multi-codec remote** (`rtp_sender.rs:158-193`). If the remote lists opus mono and any other codec, music packets go out with `OPUS_MUSIC_PAYLOAD_TYPE` (112), which was never negotiated. `MediaSendersFaithful` states the code's choice, because the intended one is not documented.
