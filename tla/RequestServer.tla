---------------------------- MODULE RequestServer ----------------------------
(***************************************************************************)
(* The teafile request front end: one binding's listener task and         *)
(* RequestServerClients (filelib/src/request/mod.rs), the accept steps of *)
(* AcceptingConnectionHandle (request/accept.rs), the request objects     *)
(* (request/request.rs), the request consumer task of FileServer::do_start *)
(* (filelib/src/server.rs) with TransferHandler::handle_transfer_request   *)
(* and handle_request_download (request_handler/), and, for the one       *)
(* download the model lets a request start, the TransferHttpDownload sink *)
(* driven by RunningDownloadFileTransfer::poll_process.                    *)
(*                                                                         *)
(* The bytes a peer sends are abstracted to the outcome of each accept    *)
(* step; a step that may return Pending is its own action, so every state *)
(* between two polls is a state of the model.  A client poll holds the    *)
(* client's lock, so a step is atomic with respect to shutdown, except    *)
(* for the try_send after an accepted request, which runs with the lock   *)
(* released (enqueuing).  A byte of the download is its position in the   *)
(* file; position 0 stands for the HTTP response header.                  *)
(***************************************************************************)
EXTENDS Naturals, Sequences, SequencesExt, Terminal, BufferStream

CONSTANTS
    Conns,          \* TCP connections peers may open to the binding
    QueueCapacity,  \* capacity of the request_upstream channel (32)
    FileSizes,      \* file sizes a download may serve
    MaxMediaBytes,  \* MAX_MEDIA_BYTES_LENGTH (32)
    RingSize        \* capacity of the download's ring buffer (8 KiB)

None == "none"
Smaller(a, b) == IF a < b THEN a ELSE b

\* RequestClientSocket, plus the states of a connection before it is one
SockStates == {"new", "incoming", "refused",
               "accepting", "transferring", "disconnecting", "disconnected"}
\* the accept steps: ProtocolIdentify, Raw, Ssl (Uninitialized and
\* Initialized), Http, FutureClose
Steps == {"identify", "raw", "ssl_init", "ssl_handshake", "http", "close"}
\* the kinds of TransferRequest: TransferRequestRaw, TransferRequestHttp
RequestKinds == {"raw", "http"}
\* what a peer with a request ends up with
Answers == {None, "dropped", "response", "download"}
Results == {None, "success", "client_disconnect", "network_timeout",
            "disk_io_error"}

VARIABLES
    listening,      \* the binding's listener task has not been aborted
    sock,           \* RequestClient.state of each connection
    step,           \* AcceptingConnectionHandle.current_step
    task,           \* the abortable execute_client task: none/live/aborted/done
    clientConnections, \* RequestServerClients.client_connections
    request,        \* kind of the TransferRequest the accept produced
    enqueuing,      \* connections whose poll released the lock to try_send
    upstream,       \* request_upstream / request_downstream
    answer,         \* what a peer with a request was finally given
    shutDown,       \* FileServer.started cleared by shutdown
    dl,             \* the connection the download runs on, or None
    fileSize,       \* transfer_info.file_size of the download
    onDisk,         \* the bytes the opened file really holds
    spinning,       \* poll_process is caught in its read loop for good
    status,         \* TransferHttpDownloadState
    media,          \* AwaitingMediaBytes: bytes[0..bytes_buffered]
    written,        \* SendingHttp: written
    readLeft,       \* read_bytes_left
    ring,           \* the ring buffer's readable bytes
    rx,             \* the bytes the peer has received on the download
    result,         \* the transfer's result
    checker,        \* TimeoutWatcher.alive_checker: "none" or "armed"
    tickReady       \* the armed interval's next one-second tick has elapsed

acceptVars == <<sock, step, task, clientConnections, request, enqueuing>>
dlVars == <<dl, fileSize, onDisk, spinning, status, media, written, readLeft, ring, rx, result,
            checker, tickReady>>
frontVars == <<listening, acceptVars, upstream, answer, shutDown>>
vars == <<frontVars, dlVars>>

TypeOK ==
    /\ listening \in BOOLEAN
    /\ sock \in [Conns -> SockStates]
    /\ step \in [Conns -> Steps \cup {None}]
    /\ task \in [Conns -> {None, "live", "aborted", "done"}]
    /\ clientConnections \subseteq Conns
    /\ request \in [Conns -> RequestKinds \cup {None}]
    /\ enqueuing \subseteq Conns
    /\ upstream \in Seq(Conns) /\ Len(upstream) <= QueueCapacity
    /\ answer \in [Conns -> Answers]
    /\ shutDown \in BOOLEAN
    /\ dl \in Conns \cup {None}
    /\ fileSize \in FileSizes \cup {0}
    /\ onDisk \in 0..fileSize /\ spinning \in BOOLEAN
    /\ status \in {"awaiting", "sending_http", "sending_content"}
    /\ media \in Seq(Nat) /\ written \in Nat
    /\ readLeft \in Nat /\ ring \in Seq(Nat) /\ rx \in Seq(Nat)
    /\ result \in Results
    /\ checker \in {"none", "armed"} /\ tickReady \in BOOLEAN

\* RequestServer::new and a successful FileServer::do_start (one binding)
Init ==
    /\ listening = TRUE
    /\ sock = [c \in Conns |-> "new"]
    /\ step = [c \in Conns |-> None]
    /\ task = [c \in Conns |-> None]
    /\ clientConnections = {}
    /\ request = [c \in Conns |-> None]
    /\ enqueuing = {}
    /\ upstream = <<>>
    /\ answer = [c \in Conns |-> None]
    /\ shutDown = FALSE
    /\ dl = None
    /\ fileSize = 0 /\ onDisk = 0 /\ spinning = FALSE
    /\ status = "awaiting" /\ media = <<>> /\ written = 0
    /\ readLeft = 0 /\ ring = <<>> /\ rx = <<>>
    /\ result = None
    /\ checker = "none" /\ tickReady = FALSE

-----------------------------------------------------------------------------
(* The listener and the connection tasks (request/mod.rs).                 *)

\* the listener task of add_binding: listener.accept().await yields a socket
ListenerAccept(c) ==
    /\ listening
    /\ sock[c] = "new"
    /\ \A d \in Conns : sock[d] # "incoming"
    /\ sock' = [sock EXCEPT ![c] = "incoming"]
    /\ UNCHANGED <<listening, step, task, clientConnections, request, enqueuing,
                   upstream, answer, shutDown, dlVars>>

\* the same poll of the listener task locks the connections and runs
\* handle_new_client; an abort of the listener only stops later polls
HandleNewClient(c) ==
    /\ sock[c] = "incoming"
    /\ \/ \* set_keepalive failed: the socket is dropped
          /\ sock' = [sock EXCEPT ![c] = "refused"]
          /\ UNCHANGED <<step, task, clientConnections>>
       \/ /\ sock' = [sock EXCEPT ![c] = "accepting"]
          /\ step' = [step EXCEPT ![c] = "identify"]
          /\ task' = [task EXCEPT ![c] = "live"]
          /\ clientConnections' = clientConnections \cup {c}
    /\ UNCHANGED <<listening, request, enqueuing, upstream, answer, shutDown,
                   dlVars>>

\* a poll of execute_client in Accepting runs the current step
Accepting(c, s) ==
    /\ task[c] = "live" /\ sock[c] = "accepting" /\ step[c] = s

\* AcceptStepResult::NextStep: the handle's poll loop goes on with step s
StepTo(c, s) ==
    /\ step' = [step EXCEPT ![c] = s]
    /\ UNCHANGED <<sock, request, enqueuing>>

\* AcceptStepResult::Finished: handle_client_request passes the request on,
\* the state becomes Transferring and the lock is released for try_send
Finished(c) ==
    /\ sock' = [sock EXCEPT ![c] = "transferring"]
    /\ step' = [step EXCEPT ![c] = None]
    /\ request' = [request EXCEPT ![c] = step[c]]
    /\ enqueuing' = enqueuing \cup {c}

\* AcceptStepResult::Errored (or the loop's Aborted): handle_client_request
\* returns None and disconnect finds no current step to abort, so the
\* state becomes Disconnected at once
Errored(c) ==
    /\ sock' = [sock EXCEPT ![c] = "disconnected"]
    /\ step' = [step EXCEPT ![c] = None]
    /\ UNCHANGED <<request, enqueuing>>

\* AcceptStepProtocolIdentify: eight bytes select raw, HTTP (GET, POST,
\* HEAD) or a TLS record; anything else, or an io error, is an error
Identify(c) ==
    /\ Accepting(c, "identify")
    /\ \/ \E s \in {"raw", "http", "ssl_init"} : StepTo(c, s)
       \/ Errored(c)

\* AcceptStepRaw: the 32-byte transfer key makes a TransferRequestRaw
RawKey(c) ==
    /\ Accepting(c, "raw")
    /\ Finished(c) \/ Errored(c)

\* AcceptStepSsl, Uninitialized: the binding's key and certificate make
\* the SslStream (the step returns Pending and wakes itself); a missing
\* or unloadable key or certificate is a CustomError
SslSetup(c) ==
    /\ Accepting(c, "ssl_init")
    /\ StepTo(c, "ssl_handshake") \/ Errored(c)

\* AcceptStepSsl, Initialized: the handshake leads to AcceptStepHttp, or
\* fails with SslCertificateRejected or SslError
SslHandshake(c) ==
    /\ Accepting(c, "ssl_handshake")
    /\ StepTo(c, "http") \/ Errored(c)

\* AcceptStepHttp: a complete header becomes a TransferRequestHttp
\* (handle_http_data, TransferRequestHttp::parse); a header over 8 KiB,
\* a parse or URL error, another method, a missing or malformed key, or
\* an OPTIONS preflight becomes an AcceptStepFutureClose response
HttpHeader(c) ==
    /\ Accepting(c, "http")
    /\ Finished(c) \/ StepTo(c, "close") \/ Errored(c)

\* AcceptStepFutureClose: once the response future is done, Denied
FutureClose(c) ==
    /\ Accepting(c, "close")
    /\ Errored(c)

\* one poll of a connection still accepting
AcceptStep(c) ==
    /\ \/ Identify(c) \/ RawKey(c) \/ SslSetup(c) \/ SslHandshake(c)
       \/ HttpHeader(c) \/ FutureClose(c)
    /\ UNCHANGED <<listening, task, clientConnections, upstream, answer,
                   shutDown, dlVars>>

\* Mutant: the cleanup leaves the entry in client_connections
CleanupNoDrain(c) ==
    /\ UNCHANGED clientConnections
    /\ sock' = [sock EXCEPT ![c] = "disconnected"]
    /\ task' = [task EXCEPT ![c] = "done"]

\* the `.then` of execute_client: drop the client from client_connections
\* and leave it Disconnected; the task ends
Cleanup(c) ==
    /\ clientConnections' = clientConnections \ {c}
    /\ sock' = [sock EXCEPT ![c] = "disconnected"]
    /\ task' = [task EXCEPT ![c] = "done"]

\* Mutant: a failed enqueue returns Pending without closing the request
CloseFailedEnqueueLost(c) ==
    UNCHANGED <<sock, answer, task, clientConnections>>

\* TransferRequest::close_request after a failed enqueue: an HTTP request
\* returns the 503 response future, a raw request closes the socket
CloseFailedEnqueue(c) ==
    /\ sock' = [sock EXCEPT ![c] = IF request[c] = "http" THEN "disconnecting"
                                                          ELSE "disconnected"]
    \* an aborted task is never polled again: its future is dropped
    /\ answer' = [answer EXCEPT ![c] =
                    IF request[c] = "http" /\ task[c] = "live"
                    THEN "response" ELSE "dropped"]
    /\ UNCHANGED <<task, clientConnections>>

\* Mutant: an enqueue that ignores the channel's capacity
EnqueueUnbounded(c) ==
    /\ c \in enqueuing
    /\ enqueuing' = enqueuing \ {c}
    /\ upstream' = Append(upstream, c)
    /\ Cleanup(c)
    /\ UNCHANGED <<answer, listening, step, request, shutDown, dlVars>>

\* the rest of the poll: request_upstream.try_send
Enqueue(c) ==
    /\ c \in enqueuing
    /\ enqueuing' = enqueuing \ {c}
    /\ \/ /\ Len(upstream) < QueueCapacity
          /\ upstream' = Append(upstream, c)
          /\ Cleanup(c)
          /\ UNCHANGED answer
       \/ /\ Len(upstream) = QueueCapacity
          /\ CloseFailedEnqueue(c)
          /\ UNCHANGED upstream
    /\ UNCHANGED <<listening, step, request, shutDown, dlVars>>

\* a poll in Disconnecting (the close future completed or the 5 s sleep
\* elapsed) or in Disconnected returns Ready, and the `.then` runs
ClientFinish(c) ==
    /\ task[c] = "live"
    /\ sock[c] \in {"disconnecting", "disconnected"}
    /\ Cleanup(c)
    /\ UNCHANGED <<listening, step, request, enqueuing, upstream, answer,
                   shutDown, dlVars>>

\* FileServer::shutdown -> RequestServer::shutdown: abort the listener,
\* then, holding the connections lock, abort every listed task, take its
\* disconnect_into_future (awaited by the caller) and clear the list
Shutdown ==
    /\ ~shutDown
    /\ shutDown' = TRUE
    /\ listening' = FALSE
    /\ task' = [c \in Conns |-> IF c \in clientConnections THEN "aborted"
                                                           ELSE task[c]]
    /\ sock' = [c \in Conns |-> IF c \in clientConnections THEN "disconnected"
                                                           ELSE sock[c]]
    /\ step' = [c \in Conns |-> IF c \in clientConnections THEN None
                                                           ELSE step[c]]
    /\ clientConnections' = {}
    /\ UNCHANGED <<request, enqueuing, upstream, answer, dlVars>>

-----------------------------------------------------------------------------
(* The request consumer task of FileServer::do_start and the download.     *)

\* the number of media bytes the sink buffers before the response header
MediaTotal == Smaller(MaxMediaBytes, fileSize)
\* SendingHttp.buffer: the header (position 0) and the media bytes
HttpBuffer == <<0>> \o media

\* handle_request_download succeeded: TransferHttpDownload::new and
\* RunningDownloadFileTransfer::new on the request's socket (the model
\* starts one download).  file_size was taken when the transfer was
\* registered; create_download_target opens the file without looking at it
\* again, so the file may have shrunk since
StartDownload(c) ==
    /\ dl = None
    /\ answer' = [answer EXCEPT ![c] = "download"]
    /\ dl' = c
    /\ \E s \in FileSizes : fileSize' = s /\ readLeft' = s /\ onDisk' \in 0..s
    /\ UNCHANGED <<spinning, status, media, written, ring, rx, result,
                   checker, tickReady>>

\* a request from request_downstream: handle_transfer_request, then
\* close_request, whose future (if any) is spawned
Consumer ==
    /\ upstream # <<>>
    /\ upstream' = Tail(upstream)
    /\ LET c == Head(upstream) IN
       \/ \* a raw request: every path fails (execute_download is
          \* NotSupported) and close_request closes the socket
          /\ request[c] = "raw"
          /\ answer' = [answer EXCEPT ![c] = "dropped"]
          /\ UNCHANGED dlVars
       \/ \* failed before execute_download (unknown key, instance or
          \* server gone, an upload): close_request sends 503
          /\ request[c] = "http"
          /\ answer' = [answer EXCEPT ![c] = "response"]
          /\ UNCHANGED dlVars
       \/ \* execute_download took the socket, create_download_target
          \* failed: close_request finds no socket and returns an empty future
          /\ request[c] = "http"
          /\ answer' = [answer EXCEPT ![c] = "dropped"]
          /\ UNCHANGED dlVars
       \/ \* the download starts; close_request's future is empty
          /\ request[c] = "http"
          /\ StartDownload(c)
    /\ UNCHANGED <<listening, acceptVars, shutDown>>

Running == dl # None /\ result = None /\ ~spinning

\* the file has no byte left at the read offset: File::read returns Ok(0)
Exhausted == fileSize - readLeft >= onDisk

\* flush_sending_http: write the rest of the buffer; the loop ends with
\* Pending either when the socket blocks or, the buffer out, after
\* switching to SendingContent and waking the task
FlushSendingHttp ==
    \E m \in 1..(Len(HttpBuffer) - written) :
        /\ rx' = rx \o SubSeq(HttpBuffer, written + 1, written + m)
        /\ written' = written + m
        /\ status' = IF written + m = Len(HttpBuffer) THEN "sending_content"
                                                     ELSE "sending_http"

\* the read loop of poll_process: source.poll_read into the ring buffer
ProcRead ==
    /\ Running /\ readLeft > 0 /\ Len(ring) < RingSize /\ ~Exhausted
    /\ \E k \in 1..Smaller(RingSize - Len(ring), onDisk - (fileSize - readLeft)) :
          /\ ring' = ring \o [i \in 1..k |-> fileSize - readLeft + i]
          /\ readLeft' = readLeft - k
    /\ UNCHANGED <<dl, fileSize, onDisk, spinning, status, media, written, rx,
                   result, checker, tickReady>>

\* the read loop meets Ok(0) while read_bytes_left > 0 and the ring has
\* room: it feeds nothing and goes round again, inside the same poll, so
\* the processor never returns and no waker, timeout included, reaches it
ProcSpin ==
    /\ Running /\ readLeft > 0 /\ Len(ring) < RingSize /\ Exhausted
    /\ spinning' = TRUE
    /\ UNCHANGED <<dl, fileSize, onDisk, status, media, written, readLeft,
                   ring, rx, result, checker, tickReady>>

\* source.poll_read fails: DiskIoError (FileDeleted for NotFound)
ProcReadError ==
    /\ Running /\ readLeft > 0 /\ Len(ring) < RingSize
    /\ result' = "disk_io_error"
    /\ UNCHANGED <<dl, fileSize, onDisk, spinning, status, media, written, readLeft, ring, rx,
                   checker, tickReady>>

\* Mutant: AwaitingMediaBytes reports the whole buffer written
SinkWriteConsumeAll ==
    /\ Running /\ ring # <<>>
    /\ \/ /\ status = "awaiting"
          /\ LET wb == Smaller(MediaTotal - Len(media), Len(ring)) IN
             /\ media' = media \o SubSeq(ring, 1, wb)
             /\ ring' = <<>>
             /\ status' = IF Len(media) + wb = MediaTotal THEN "sending_http"
                                                         ELSE "awaiting"
             /\ written' = 0
          /\ UNCHANGED rx
       \/ /\ status = "sending_http"
          /\ FlushSendingHttp
          /\ UNCHANGED <<media, ring>>
       \/ /\ status = "sending_content"
          /\ \E n \in 1..Len(ring) :
                /\ rx' = rx \o SubSeq(ring, 1, n)
                /\ ring' = SubSeq(ring, n + 1, Len(ring))
          /\ UNCHANGED <<status, media, written>>
    /\ UNCHANGED <<dl, fileSize, onDisk, spinning, readLeft, result,
                   checker, tickReady>>

\* the write loop of poll_process: target.poll_write(ring)
SinkWrite ==
    /\ Running /\ ring # <<>>
    /\ \/ \* AwaitingMediaBytes: buffer up to bytes_total, report them written
          /\ status = "awaiting"
          /\ LET wb == Smaller(MediaTotal - Len(media), Len(ring)) IN
             /\ media' = media \o SubSeq(ring, 1, wb)
             /\ ring' = SubSeq(ring, wb + 1, Len(ring))
             /\ status' = IF Len(media) + wb = MediaTotal THEN "sending_http"
                                                         ELSE "awaiting"
             /\ written' = 0
          /\ UNCHANGED rx
       \/ /\ status = "sending_http"
          /\ FlushSendingHttp
          /\ UNCHANGED <<media, ring>>
       \/ \* SendingContent: the socket takes some of the bytes
          /\ status = "sending_content"
          /\ \E n \in 1..Len(ring) :
                /\ rx' = rx \o SubSeq(ring, 1, n)
                /\ ring' = SubSeq(ring, n + 1, Len(ring))
          /\ UNCHANGED <<status, media, written>>
    /\ UNCHANGED <<dl, fileSize, onDisk, spinning, readLeft, result,
                   checker, tickReady>>

\* the buffer is empty and nothing is left to read: target.poll_flush
SinkFlush ==
    /\ Running /\ ring = <<>> /\ readLeft = 0
    /\ \/ /\ status = "sending_http"
          /\ FlushSendingHttp
          /\ UNCHANGED result
       \/ \* the socket's flush: the transfer succeeded
          /\ status # "sending_http"
          /\ result' = "success"
          /\ UNCHANGED <<status, written, rx>>
    /\ UNCHANGED <<dl, fileSize, onDisk, spinning, media, readLeft, ring,
                   checker, tickReady>>

\* a socket write or flush fails: handle_write_error
SinkWriteError ==
    /\ Running /\ status # "awaiting"
    /\ result' = "client_disconnect"
    /\ UNCHANGED <<dl, fileSize, onDisk, spinning, status, media, written, readLeft, ring, rx,
                   checker, tickReady>>

(* TimeoutWatcher (request_handler/transfer.rs), polled first by every    *)
(* poll_process.  Its poll loops on one poll_tick result: a ready tick     *)
(* makes the loop count inactive_ticks up past timeout_ticks (10) without *)
(* polling again, so the first tick after the interval is armed ends the  *)
(* transfer, whatever reset_timeout did; the counter never decides.       *)

\* Mutant: the interval is made and drained but alive_checker is not set
ArmTimeoutNotKept ==
    /\ Running /\ checker = "none"
    /\ UNCHANGED <<dl, fileSize, onDisk, spinning, status, media, written, readLeft, ring, rx,
                   result, checker, tickReady>>

\* the first poll of the spawned processor: tokio::time::interval(1 s),
\* its immediate first tick drained, kept as alive_checker
ArmTimeout ==
    /\ Running /\ checker = "none"
    /\ checker' = "armed" /\ tickReady' = FALSE
    /\ UNCHANGED <<dl, fileSize, onDisk, spinning, status, media, written, readLeft, ring, rx,
                   result>>

\* a second passes: the interval's tick is due and wakes the processor
Tick ==
    /\ Running /\ checker = "armed" /\ ~tickReady
    /\ tickReady' = TRUE
    /\ UNCHANGED <<dl, fileSize, onDisk, spinning, status, media, written, readLeft, ring, rx,
                   result, checker>>

\* the next poll_process: the watcher returns Ready, NetworkTimeout
TimeoutFire ==
    /\ Running /\ checker = "armed" /\ tickReady
    /\ result' = "network_timeout"
    /\ UNCHANGED <<dl, fileSize, onDisk, spinning, status, media, written, readLeft, ring, rx,
                   checker, tickReady>>

\* a poll of the download's processor task leaves the front end alone
DownloadStep ==
    /\ \/ ProcRead \/ ProcSpin \/ ProcReadError \/ SinkWrite \/ SinkFlush
       \/ SinkWriteError \/ ArmTimeout \/ Tick \/ TimeoutFire
    /\ UNCHANGED <<listening, acceptVars, upstream, answer, shutDown>>

Next ==
    \/ \E c \in Conns :
          \/ ListenerAccept(c) \/ HandleNewClient(c)
          \/ AcceptStep(c)
          \/ Enqueue(c) \/ ClientFinish(c)
    \/ Shutdown
    \/ Consumer
    \/ DownloadStep

\* The tokio runtime polls every woken task: a connection task whose state
\* no longer waits on its peer, the consumer while requests are queued,
\* the download processor once spawned and whenever its interval ticks;
\* the timer fires once a second passes.  The peer's reads are not fair.
Fairness ==
    /\ \A c \in Conns : WF_vars(Enqueue(c)) /\ WF_vars(ClientFinish(c))
    /\ WF_vars(Consumer)
    /\ WF_vars(ArmTimeout /\ UNCHANGED frontVars)
    /\ WF_vars(Tick /\ UNCHANGED frontVars)
    /\ WF_vars(TimeoutFire /\ UNCHANGED frontVars)

Spec == Init /\ [][Next]_vars /\ Fairness

-----------------------------------------------------------------------------
(* Properties.                                                             *)

\* client_connections holds exactly the connections whose execute_client
\* task is still running: the `.then` cleanup, shutdown's abort-and-clear
\* and a handle_new_client that the listener's abort did not stop keep the
\* list and the tasks in step, so shutdown reaches every running task.
ConnectionsTracked ==
    \A c \in Conns : c \in clientConnections <=> task[c] = "live"

\* The peer of a download receives a prefix of the HTTP response: the
\* header, the media bytes TransferHttpDownload held back, then the rest of
\* the file in order, whatever the socket accepts at each poll_write.
ResponseInOrder ==
    IsPrefix(rx, [i \in 1..(fileSize + 1) |-> i - 1])

\* Every request a connection's accept produced is eventually answered:
\* queued and handled by the consumer, or closed when request_upstream is
\* full, even when a shutdown interleaves with the enqueue.
RequestsAnswered ==
    \A c \in Conns : request[c] # None ~> answer[c] # None

\* Every download of a file that still holds the registered file_size
\* bytes eventually ends, even when the peer stops reading: the
\* TimeoutWatcher's interval, armed by the processor's first poll, wakes it
\* a second later and poll_process returns NetworkTimeout.  (A file that
\* shrank after registration catches the read loop on Ok(0) for good.)
DownloadEnds == dl # None /\ onDisk = fileSize ~> result # None

\* While the server runs, main.rs reads the console through the Terminal
\* prompt (terminal::next_event).  Whatever keys the operator has typed,
\* the screen shows the line the prompt will hand to the command loop,
\* with the cursor at the edit offset, and the history and its position
\* stay within bounds (TerminalPrompt::handle_input and take_line).
TerminalPromptFaithful == ~shutDown => TerminalPromptFaithfulAll

\* While the server runs, paging up through the console history and back
\* down again returns the line the operator was typing (the Up branch
\* saves it in temp_line_buffer, the Down branch past the newest entry
\* restores it).
RecallRestoresDraft == ~shutDown => RecallRestoresDraftAll

\* Every accept step (ProtocolIdentify, Raw, Http, and Ssl through
\* poll_read) reads the peer through one BufferStreamReader.  However the
\* socket splits the bytes and in whatever order the steps call
\* poll_buffered, consume_buffer and poll_read, the bytes they and the
\* request take, followed by what is still buffered, are the bytes read
\* from the socket in order.
StreamPreserved == ~shutDown => StreamPreservedAll
=============================================================================
