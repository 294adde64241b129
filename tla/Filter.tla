------------------------------- MODULE Filter -------------------------------
(***************************************************************************)
(* The per-stream state machine of crates/envoy-files-filter/src/filter.rs *)
(*                                                                         *)
(* One HTTP stream: the worker thread resolves the request to a file       *)
(* (precompressed candidates, the identity file, index files, a directory  *)
(* listing), then streams the body in chunks that are read out of order by *)
(* the I/O engine and sent in order.  I/O threads complete operations in   *)
(* any order; each completion is pushed on the EventBridge and then, in a  *)
(* second step, announced with scheduler.commit.  Envoy interleaves        *)
(* on_scheduled, the watermark hooks (also reentrantly, inside a send) and *)
(* on_stream_complete.                                                     *)
(*                                                                         *)
(* Data is abstracted: a path is a name, a response plan is the sequence   *)
(* of chunk kinds it streams, a read's bytes are the number of its chunk.  *)
(***************************************************************************)
EXTENDS Integers, Sequences, FiniteSets

CONSTANTS
    EncodedPaths,   \* precompressed variants of the requested file
    Identity,       \* the requested path itself, root.join(relative)
    IndexPaths,     \* index files under the requested path
    Requests,       \* the requests a client may send
    Configs,        \* the filter configurations
    Trees,          \* the states of the document root
    WholePlans,     \* chunk sequences of a whole-file body
    RangePlans,     \* chunk sequences of a 206 body (segments, multipart)
    MaxInflight,    \* config.max_inflight_reads
    MaxHighs,       \* bound: high watermark callbacks per stream
    MaxTreeChanges  \* bound: changes of the document root during a stream

Paths == EncodedPaths \cup {Identity} \cup IndexPaths

\* std::io::ErrorKind as far as status_for_io_error tells kinds apart; Loop is
\* a kind it does not name with raw_os_error = ELOOP.
IoErrors == {"NotFound", "PermissionDenied", "NotADirectory", "IsADirectory",
             "Loop", "Other"}

RejectReasons == {"BadEncoding", "Traversal", "Dotfile", "TooLong", "BadCharacter"}

DirectoryModes == {"Index", "Listing", "Deny"}

ChunkKinds == {"Inline", "File"}

Plans == {<<>>} \cup WholePlans \cup RangePlans

\* RequestData, with what precedes it in on_request_headers: whether the path
\* lies under strip_prefix, what resolve_request_path says of it, and the
\* encodings negotiate_precompressed accepts, as the paths they stand for.
RequestType ==
    [method : {"GET", "HEAD", "Other"}, mounted : BOOLEAN,
     verdict : {"Ok"} \cup RejectReasons, trailingSlash : BOOLEAN,
     range : BOOLEAN, accepted : Seq(EncodedPaths)]

ConfigType ==
    [indexFiles : Seq(IndexPaths), directory : DirectoryModes, redirect : BOOLEAN]

\* A body has at least one chunk (file_chunks of a non-empty range), and a
\* whole-file body is all file chunks.
ASSUME FilterAssumption ==
    /\ MaxInflight \in Nat \ {0}
    /\ MaxHighs \in Nat
    /\ MaxTreeChanges \in Nat
    /\ Requests \subseteq RequestType
    /\ Configs \subseteq ConfigType
    /\ Trees \subseteq [Paths -> {"File", "Dir"} \cup IoErrors]
    /\ WholePlans \subseteq Seq({"File"}) \ {<<>>}
    /\ RangePlans \subseteq Seq(ChunkKinds) \ {<<>>}
    /\ Identity \notin EncodedPaths
    /\ IndexPaths \cap (EncodedPaths \cup {Identity}) = {}

VARIABLES
    config,       \* Config of the mount, fixed for the stream
    request,      \* the client's request, fixed for the stream
    tree,         \* what an open of each path finds
    treeChanges,  \* number of changes made to tree
    phase,        \* discriminant of Phase
    pending,      \* candidates or index files not tried yet
    handle,       \* Streaming.handle: "None", "Live" or "Inert" (id 0)
    chunks,       \* Streaming.chunks, as their kinds
    ready,        \* keys of Streaming.ready
    nextSend,     \* Streaming.next_send
    issueCursor,  \* Streaming.issue_cursor
    inflight,     \* Streaming.inflight
    depth,        \* Streaming.watermark_depth
    pc,           \* where the worker thread is
    batch,        \* the events on_scheduled drained and has not handled
    bridge,       \* the events in the EventBridge
    closed,       \* on_stream_complete ran; Envoy drops the filter
    io,           \* operations submitted to the engine and not completed
    uncommitted,  \* I/O threads between bridge.send and scheduler.commit
    commits,      \* commits the worker's dispatcher has not run yet
    wm,           \* high watermark callbacks minus low watermark callbacks
    highs,        \* number of high watermark callbacks
    wire,         \* history: what the filter sent to Envoy
    reply         \* history: the head of the response

fixed == <<config, request>>
disk == <<tree, treeChanges>>
streaming == <<handle, chunks, ready, nextSend, issueCursor, inflight, depth>>
worker == <<pc, batch>>
mailbox == <<bridge, closed, uncommitted, commits>>
downstream == <<wm, highs>>
sent == <<wire, reply>>
vars == <<fixed, disk, phase, pending, streaming, worker, mailbox, io,
          downstream, sent>>

-----------------------------------------------------------------------------
(* Operations, events and messages. *)

OpenOp(path) == [kind |-> "Open", path |-> path, seq |-> 0]
ReadOp(seq) == [kind |-> "Read", path |-> Identity, seq |-> seq]
DirOp == [kind |-> "Dir", path |-> Identity, seq |-> 0]

OpType == [kind : {"Open", "Read", "Dir"}, path : Paths, seq : Nat]

\* IoEvent: the completed operation with its result; plan and prefetch are
\* meaningful for an opened file only.
Event(op, result, plan, prefetch) ==
    [kind |-> op.kind, path |-> op.path, seq |-> op.seq, result |-> result,
     plan |-> plan, prefetch |-> prefetch]

EventType ==
    [kind : {"Open", "Read", "Dir"}, path : Paths, seq : Nat,
     result : {"Ok", "File", "Dir"} \cup IoErrors, plan : Plans, prefetch : BOOLEAN]

\* Calls of send_response ("Response"), send_response_headers ("Headers") and
\* send_response_data ("Data", or "Cut" for the empty final one after a read
\* error).
Message(kind, seq, end) == [kind |-> kind, seq |-> seq, end |-> end]

MessageType ==
    [kind : {"Response", "Headers", "Data", "Cut"}, seq : Nat, end : BOOLEAN]

\* The head of a response: its status, the path it serves and the number of
\* chunks its Content-Length announces.  For a file, 200 stands for the status
\* that plan_response chooses.
NoReply == [status |-> 0, path |-> Identity, body |-> 0]
StatusReply(status) == [status |-> status, path |-> Identity, body |-> 0]
FileReply(path, plan) == [status |-> 200, path |-> path, body |-> Len(plan)]

ReplyType == [status : Nat, path : Paths, body : Nat]

status_for_io_error(kind) ==
    CASE kind \in {"NotFound", "NotADirectory"} -> 404
      [] kind \in {"PermissionDenied", "IsADirectory", "Loop"} -> 403
      [] OTHER -> 500

reject_status(reason) ==
    CASE reason = "TooLong" -> 414
      [] reason \in {"BadEncoding", "BadCharacter"} -> 400
      [] reason \in {"Traversal", "Dotfile"} -> 404

-----------------------------------------------------------------------------
Init ==
    /\ config \in Configs
    /\ request \in Requests
    /\ tree \in Trees
    /\ treeChanges = 0
    /\ phase = "Idle"
    /\ pending = <<>>
    /\ handle = "None"
    /\ chunks = <<>>
    /\ ready = {}
    /\ nextSend = 0
    /\ issueCursor = 0
    /\ inflight = 0
    /\ depth = 0
    /\ pc = "Idle"
    /\ batch = <<>>
    /\ bridge = <<>>
    /\ closed = FALSE
    /\ io = {}
    /\ uncommitted = 0
    /\ commits = 0
    /\ wm = 0
    /\ highs = 0
    /\ wire = <<>>
    /\ reply = NoReply

-----------------------------------------------------------------------------
(* Building blocks of the handlers. *)

\* set_phase(Done) drops the old phase and everything it owns.
DropPhase ==
    /\ phase' = "Done"
    /\ pending' = <<>>
    /\ handle' = "None"
    /\ chunks' = <<>>
    /\ ready' = {}
    /\ nextSend' = 0
    /\ issueCursor' = 0
    /\ inflight' = 0
    /\ depth' = 0

\* A terminal send: the phase is Done before it, and on_scheduled returns
\* right after it, dropping the events it has not handled.
EndStream(message, head) ==
    /\ DropPhase
    /\ wire' = Append(wire, message)
    /\ reply' = head
    /\ pc' = "Idle"
    /\ batch' = <<>>
    /\ UNCHANGED io

\* send_response: a complete response with no streamed body.
Respond(status) ==
    EndStream(Message("Response", 0, TRUE), StatusReply(status))

\* The handler returned false: on_scheduled goes on with its next event.
NextEvent ==
    /\ pc' = "Events"
    /\ batch' = Tail(batch)
    /\ UNCHANGED sent

\* Mutant: every candidate is opened at once.
SubmitAll(queue) ==
    /\ pending' = <<>>
    /\ io' = io \cup {OpenOp(queue[i]) : i \in 1 .. Len(queue)}
    /\ UNCHANGED streaming

\* submit_open of the first path of a non-empty queue of candidates.
SubmitFirst(queue) ==
    /\ pending' = Tail(queue)
    /\ io' = io \cup {OpenOp(Head(queue))}
    /\ UNCHANGED streaming

open_next_candidate ==
    IF pending = <<>>
    THEN Respond(404)
    ELSE /\ SubmitFirst(pending)
         /\ NextEvent
         /\ UNCHANGED phase

directory_fallback ==
    IF config.directory = "Listing"
    THEN /\ io' = io \cup {DirOp}
         /\ NextEvent
         /\ UNCHANGED <<phase, pending, streaming>>
    ELSE Respond(404)

open_next_index ==
    IF pending = <<>>
    THEN directory_fallback
    ELSE /\ SubmitFirst(pending)
         /\ NextEvent
         /\ UNCHANGED phase

\* Mutant: the directory mode is looked at before the redirect.
handle_directory_deny_first ==
    IF config.directory = "Deny" THEN Respond(403)
    ELSE IF ~request.trailingSlash /\ config.redirect THEN Respond(301)
    ELSE IF config.indexFiles = <<>> THEN directory_fallback
    ELSE /\ phase' = "ResolvingIndex"
         /\ SubmitFirst(config.indexFiles)
         /\ NextEvent

handle_directory ==
    IF ~request.trailingSlash /\ config.redirect THEN Respond(301)
    ELSE IF config.directory = "Deny" THEN Respond(403)
    ELSE IF config.indexFiles = <<>> THEN directory_fallback
    ELSE /\ phase' = "ResolvingIndex"
         /\ SubmitFirst(config.indexFiles)
         /\ NextEvent

advance_after_open_miss ==
    CASE phase = "ResolvingFile" -> open_next_candidate
      [] phase = "ResolvingIndex" -> open_next_index
      [] OTHER -> NextEvent /\ UNCHANGED <<phase, pending, streaming, io>>

\* Mutants: multipart framing is not seeded; the prefetch is not seeded.
SeededPrefetchOnly(plan, prefetch) ==
    {i \in 0 .. Len(plan) - 1 : i = 0 /\ prefetch}

SeededInlineOnly(plan, prefetch) ==
    {i \in 0 .. Len(plan) - 1 : plan[i + 1] = "Inline"}

\* Streaming.ready at the start: every inline chunk, and chunk 0 when the
\* prefetch covers it exactly.
Seeded(plan, prefetch) ==
    {i \in 0 .. Len(plan) - 1 :
        plan[i + 1] = "Inline" \/ (i = 0 /\ prefetch)}

\* begin_streaming and the execute_plan that calls it.  The engine returns the
\* inert handle, whose file is closed already, exactly when the prefetch holds
\* the whole file, that is, the only chunk.
begin_streaming(event) ==
    IF event.plan = <<>>
    THEN EndStream(Message("Headers", 0, TRUE), FileReply(event.path, event.plan))
    ELSE /\ phase' = "Streaming"
         /\ pending' = <<>>
         /\ handle' = IF event.prefetch /\ Len(event.plan) = 1 THEN "Inert" ELSE "Live"
         /\ chunks' = event.plan
         /\ ready' = Seeded(event.plan, event.prefetch)
         /\ nextSend' = 0
         /\ issueCursor' = 0
         /\ inflight' = 0
         /\ depth' = 0
         /\ wire' = Append(wire, Message("Headers", 0, FALSE))
         /\ reply' = FileReply(event.path, event.plan)
         /\ pc' = "InHeaders"
         /\ batch' = Tail(batch)
         /\ UNCHANGED io

-----------------------------------------------------------------------------
(* The worker thread: on_request_headers. *)

\* The first half of on_request_headers: the status it answers at once, or 0.
RejectedWith ==
    IF request.method = "Other" THEN 405
    ELSE IF ~request.mounted THEN 404
    ELSE IF request.verdict # "Ok" THEN reject_status(request.verdict)
    ELSE 0

\* Precompressed variants, only for a path with no trailing slash, then the
\* identity file.
build_file_candidates ==
    (IF request.trailingSlash THEN <<>> ELSE request.accepted) \o <<Identity>>

OnRequestHeadersReject ==
    /\ phase = "Idle" /\ ~closed
    /\ RejectedWith # 0
    /\ Respond(RejectedWith)
    /\ UNCHANGED <<fixed, disk, mailbox, downstream>>

OnRequestHeadersResolve ==
    /\ phase = "Idle" /\ ~closed
    /\ RejectedWith = 0
    /\ phase' = "ResolvingFile"
    /\ SubmitFirst(build_file_candidates)
    /\ UNCHANGED <<fixed, disk, worker, mailbox, downstream, sent>>

-----------------------------------------------------------------------------
(* The worker thread: on_scheduled. *)

\* bridge.process moves every pending event to a local vector.
OnScheduled ==
    /\ pc = "Idle" /\ ~closed /\ commits > 0
    /\ commits' = commits - 1
    /\ batch' = bridge
    /\ bridge' = <<>>
    /\ pc' = "Events"
    /\ UNCHANGED <<fixed, disk, phase, pending, streaming, closed, uncommitted,
                    io, downstream, sent>>

\* The event loop of on_scheduled; InHeaders is the same place while
\* send_response_headers of begin_streaming is still on the stack.
Handling(kind) ==
    /\ pc \in {"Events", "InHeaders"}
    /\ batch # <<>>
    /\ Head(batch).kind = kind
    /\ UNCHANGED <<fixed, disk, mailbox, downstream>>

HandleOpened ==
    /\ Handling("Open")
    /\ LET event == Head(batch) IN
         /\ event.result \in {"File", "Dir"}
         /\ IF event.result = "File" THEN begin_streaming(event)
            ELSE IF event.path \in EncodedPaths THEN advance_after_open_miss
            ELSE handle_directory

HandleOpenError ==
    /\ Handling("Open")
    /\ Head(batch).result \in IoErrors
    /\ IF phase = "ResolvingFile" /\ pending = <<>>
       THEN Respond(status_for_io_error(Head(batch).result))
       ELSE advance_after_open_miss

HandleDir ==
    /\ Handling("Dir")
    /\ LET result == Head(batch).result IN
         Respond(IF result = "Ok" THEN 200 ELSE status_for_io_error(result))

\* Mutant: a completed read is not taken off the in-flight count.
HandleReadOkNoDecrement ==
    /\ Handling("Read")
    /\ Head(batch).result = "Ok"
    /\ NextEvent
    /\ ready' = IF phase = "Streaming" THEN ready \cup {Head(batch).seq} ELSE ready
    /\ UNCHANGED <<phase, pending, handle, chunks, nextSend, issueCursor, inflight,
                    depth, io>>

HandleReadOk ==
    /\ Handling("Read")
    /\ Head(batch).result = "Ok"
    /\ NextEvent
    /\ IF phase = "Streaming"
       THEN /\ inflight' = IF inflight = 0 THEN 0 ELSE inflight - 1
            /\ ready' = ready \cup {Head(batch).seq}
       ELSE UNCHANGED <<inflight, ready>>
    /\ UNCHANGED <<phase, pending, handle, chunks, nextSend, issueCursor, depth, io>>

\* Mutant: the stream is cut but the phase stays Streaming.
HandleReadErrorKeepsPhase ==
    /\ Handling("Read")
    /\ Head(batch).result \in IoErrors
    /\ wire' = IF phase = "Streaming" THEN Append(wire, Message("Cut", 0, TRUE)) ELSE wire
    /\ batch' = Tail(batch)
    /\ pc' = "Events"
    /\ UNCHANGED <<phase, pending, streaming, io, reply>>

HandleReadError ==
    /\ Handling("Read")
    /\ Head(batch).result \in IoErrors
    /\ IF phase = "Streaming"
       THEN EndStream(Message("Cut", 0, TRUE), reply)
       ELSE NextEvent /\ UNCHANGED <<phase, pending, streaming, io>>

EventsHandled ==
    /\ pc \in {"Events", "InHeaders"}
    /\ batch = <<>>
    /\ pc' = IF phase = "Streaming" THEN "Pump" ELSE "Idle"
    /\ UNCHANGED <<fixed, disk, phase, pending, streaming, batch, mailbox, io,
                    downstream, sent>>

-----------------------------------------------------------------------------
(* The worker thread: pump.  InData is the flush loop while a                *)
(* send_response_data of it is still on the stack.                           *)

Flushing == pc \in {"Pump", "InData"}

FlushBlocked ==
    /\ Flushing /\ depth > 0
    /\ pc' = "Idle"
    /\ UNCHANGED <<fixed, disk, phase, pending, streaming, batch, mailbox, io,
                    downstream, sent>>

FlushChunk ==
    /\ Flushing /\ depth = 0 /\ nextSend \in ready
    /\ nextSend < Len(chunks) - 1
    /\ ready' = ready \ {nextSend}
    /\ nextSend' = nextSend + 1
    /\ wire' = Append(wire, Message("Data", nextSend, FALSE))
    /\ pc' = "InData"
    /\ UNCHANGED <<fixed, disk, phase, pending, handle, chunks, issueCursor,
                    inflight, depth, batch, mailbox, io, downstream, reply>>

\* Mutant: last_index is one short.
FlushLastEarly ==
    /\ Flushing /\ depth = 0 /\ nextSend \in ready
    /\ nextSend >= Len(chunks) - 2
    /\ EndStream(Message("Data", nextSend, TRUE), reply)
    /\ UNCHANGED <<fixed, disk, mailbox, downstream>>

FlushLast ==
    /\ Flushing /\ depth = 0 /\ nextSend \in ready
    /\ nextSend = Len(chunks) - 1
    /\ EndStream(Message("Data", nextSend, TRUE), reply)
    /\ UNCHANGED <<fixed, disk, mailbox, downstream>>

FlushDone ==
    /\ Flushing /\ depth = 0 /\ nextSend \notin ready
    /\ pc' = "Issue"
    /\ UNCHANGED <<fixed, disk, phase, pending, streaming, batch, mailbox, io,
                    downstream, sent>>

\* Mutant: one read too many.
WindowOpenOffByOne == inflight <= MaxInflight /\ issueCursor < Len(chunks)

\* One iteration of the read-issue loop: the chunk under the cursor is skipped
\* when it is in ready or inline, and read otherwise.
WindowOpen == inflight < MaxInflight /\ issueCursor < Len(chunks)

NeedsRead(index) == index \notin ready /\ chunks[index + 1] = "File"

IssueSkip ==
    /\ pc = "Issue" /\ WindowOpen
    /\ ~NeedsRead(issueCursor)
    /\ issueCursor' = issueCursor + 1
    /\ UNCHANGED <<fixed, disk, phase, pending, handle, chunks, ready, nextSend,
                    inflight, depth, worker, mailbox, io, downstream, sent>>

IssueRead ==
    /\ pc = "Issue" /\ WindowOpen
    /\ NeedsRead(issueCursor)
    /\ issueCursor' = issueCursor + 1
    /\ inflight' = inflight + 1
    /\ io' = io \cup {ReadOp(issueCursor)}
    /\ UNCHANGED <<fixed, disk, phase, pending, handle, chunks, ready, nextSend,
                    depth, worker, mailbox, downstream, sent>>

IssueDone ==
    /\ pc = "Issue" /\ ~WindowOpen
    /\ pc' = "Idle"
    /\ UNCHANGED <<fixed, disk, phase, pending, streaming, batch, mailbox, io,
                    downstream, sent>>

-----------------------------------------------------------------------------
(* Envoy: watermark hooks and the end of the stream.  A hook runs from the   *)
(* worker's event loop or inside a send of this filter.                      *)

HookPoint == pc \in {"Idle", "InHeaders", "InData"} /\ ~closed

HighWatermark ==
    /\ HookPoint /\ highs < MaxHighs
    /\ wm' = wm + 1
    /\ highs' = highs + 1
    /\ depth' = IF phase = "Streaming" THEN depth + 1 ELSE depth
    /\ UNCHANGED <<fixed, disk, phase, pending, handle, chunks, ready, nextSend,
                    issueCursor, inflight, worker, mailbox, io, sent>>

\* Mutants: the depth is decremented without saturating; the hook does not
\* commit; the hook is lost while a send holds the phase.
LowWatermarkUnsaturated ==
    /\ HookPoint /\ wm > 0
    /\ wm' = wm - 1
    /\ depth' = IF phase = "Streaming" THEN depth - 1 ELSE depth
    /\ commits' = IF phase = "Streaming" /\ depth' = 0 THEN commits + 1 ELSE commits
    /\ UNCHANGED <<fixed, disk, phase, pending, handle, chunks, ready, nextSend,
                    issueCursor, inflight, worker, bridge, closed, uncommitted, io,
                    highs, sent>>

LowWatermarkNoCommit ==
    /\ HookPoint /\ wm > 0
    /\ wm' = wm - 1
    /\ depth' = IF phase = "Streaming" /\ depth > 0 THEN depth - 1 ELSE depth
    /\ UNCHANGED <<fixed, disk, phase, pending, handle, chunks, ready, nextSend,
                    issueCursor, inflight, worker, mailbox, io, highs, sent>>

LowWatermarkLostInSend ==
    /\ HookPoint /\ wm > 0
    /\ wm' = wm - 1
    /\ depth' = IF phase = "Streaming" /\ depth > 0 /\ pc = "Idle"
                THEN depth - 1 ELSE depth
    /\ commits' = IF phase = "Streaming" /\ depth' = 0 THEN commits + 1 ELSE commits
    /\ UNCHANGED <<fixed, disk, phase, pending, handle, chunks, ready, nextSend,
                    issueCursor, inflight, worker, bridge, closed, uncommitted, io,
                    highs, sent>>

LowWatermark ==
    /\ HookPoint /\ wm > 0
    /\ wm' = wm - 1
    /\ depth' = IF phase = "Streaming" /\ depth > 0 THEN depth - 1 ELSE depth
    /\ commits' = IF phase = "Streaming" /\ depth' = 0 THEN commits + 1 ELSE commits
    /\ UNCHANGED <<fixed, disk, phase, pending, handle, chunks, ready, nextSend,
                    issueCursor, inflight, worker, bridge, closed, uncommitted, io,
                    highs, sent>>

\* on_stream_complete closes the bridge; Envoy then destroys the filter and
\* drops its scheduled events.  It happens after a terminal send and, when the
\* client goes away, between any two callbacks.
OnStreamComplete ==
    /\ pc = "Idle" /\ ~closed
    /\ closed' = TRUE
    /\ bridge' = <<>>
    /\ commits' = 0
    /\ DropPhase
    /\ UNCHANGED <<fixed, disk, worker, uncommitted, io, downstream, sent>>

-----------------------------------------------------------------------------
(* The I/O threads.  An operation completes in any order; Waker.deliver      *)
(* pushes the event and then commits, and drops it once the bridge is closed.*)

Deliver(event) ==
    /\ bridge' = IF closed THEN bridge ELSE Append(bridge, event)
    /\ uncommitted' = IF closed THEN uncommitted ELSE uncommitted + 1
    /\ UNCHANGED <<fixed, disk, phase, pending, streaming, worker, closed, commits,
                    downstream, sent>>

\* What serve_file can plan for the file: submit_open asks for a prefetch only
\* for a GET without Range, whose plan then is the whole file or no body (a
\* conditional request); the prefetch may still come back short.
Served(plan, prefetch) ==
    /\ request.method = "HEAD" => plan = <<>> /\ ~prefetch
    /\ ~request.range => plan \notin RangePlans \ WholePlans
    /\ prefetch => ~request.range /\ plan # <<>>

CompleteOpen ==
    \E op \in io :
        /\ op.kind = "Open"
        /\ io' = io \ {op}
        /\ \/ /\ tree[op.path] = "File"
              /\ \E plan \in Plans, prefetch \in BOOLEAN :
                    /\ Served(plan, prefetch)
                    /\ Deliver(Event(op, "File", plan, prefetch))
           \/ /\ tree[op.path] # "File"
              /\ Deliver(Event(op, tree[op.path], <<>>, FALSE))

\* An engine read fails with the error kinds of read_at.
CompleteRead ==
    \E op \in io, result \in {"Ok", "NotFound", "Other"} :
        /\ op.kind = "Read"
        /\ io' = io \ {op}
        /\ Deliver(Event(op, result, <<>>, FALSE))

\* read_dir fails with whatever opening the directory or reading an entry gives,
\* or with other_error when its task is lost.
CompleteDir ==
    \E op \in io, result \in {"Ok"} \cup IoErrors :
        /\ op.kind = "Dir"
        /\ io' = io \ {op}
        /\ Deliver(Event(op, result, <<>>, FALSE))

Commit ==
    /\ uncommitted > 0
    /\ uncommitted' = uncommitted - 1
    /\ commits' = IF closed THEN commits ELSE commits + 1
    /\ UNCHANGED <<fixed, disk, phase, pending, streaming, worker, bridge, closed,
                    io, downstream, sent>>

\* Another process changes the document root.
TreeChange ==
    /\ treeChanges < MaxTreeChanges
    /\ treeChanges' = treeChanges + 1
    /\ tree' \in Trees \ {tree}
    /\ UNCHANGED <<fixed, phase, pending, streaming, worker, mailbox, io,
                    downstream, sent>>

\* The stream is over: destroyed, with nothing left on the I/O threads.
Finished ==
    /\ closed /\ io = {} /\ uncommitted = 0
    /\ UNCHANGED vars

-----------------------------------------------------------------------------
WorkerStep ==
    \/ OnScheduled
    \/ HandleOpened \/ HandleOpenError \/ HandleDir
    \/ HandleReadOk \/ HandleReadError \/ EventsHandled
    \/ FlushBlocked \/ FlushChunk \/ FlushLast \/ FlushDone
    \/ IssueSkip \/ IssueRead \/ IssueDone

Complete == CompleteOpen \/ CompleteRead \/ CompleteDir

Next ==
    \/ OnRequestHeadersReject \/ OnRequestHeadersResolve
    \/ WorkerStep
    \/ HighWatermark \/ LowWatermark \/ OnStreamComplete
    \/ Complete \/ Commit
    \/ TreeChange
    \/ Finished

Spec == Init /\ [][Next]_vars

\* Envoy's dispatcher runs what is posted to it, the engine completes every
\* operation, and a client that stays connected eventually drains its buffer.
\* Nothing forces a high watermark, a reset or a change of the tree.
Fairness ==
    /\ WF_vars(OnRequestHeadersReject \/ OnRequestHeadersResolve)
    /\ WF_vars(WorkerStep)
    /\ WF_vars(Complete)
    /\ WF_vars(Commit)
    /\ WF_vars(LowWatermark)

FairSpec == Spec /\ Fairness

-----------------------------------------------------------------------------
(* Properties. *)

\* The part of TypeOK that only the environment's steps touch, and the part
\* that the worker's handlers write.
EnvType ==
    /\ config \in ConfigType
    /\ request \in RequestType
    /\ tree \in [Paths -> {"File", "Dir"} \cup IoErrors]
    /\ treeChanges \in Nat
    /\ bridge \in Seq(EventType)
    /\ closed \in BOOLEAN
    /\ uncommitted \in Nat
    /\ commits \in Nat
    /\ wm \in Nat
    /\ highs \in Nat

StreamType ==
    /\ phase \in {"Idle", "ResolvingFile", "ResolvingIndex", "Streaming", "Done"}
    /\ pending \in Seq(Paths)
    /\ handle \in {"None", "Live", "Inert"}
    /\ chunks \in Seq(ChunkKinds)
    /\ ready \subseteq Nat
    /\ nextSend \in Nat
    /\ issueCursor \in Nat
    /\ inflight \in Nat
    /\ depth \in Nat

WorkerType ==
    /\ pc \in {"Idle", "Events", "InHeaders", "Pump", "InData", "Issue"}
    /\ batch \in Seq(EventType)
    /\ io \subseteq OpType
    /\ wire \in Seq(MessageType)
    /\ reply \in ReplyType

TypeOK == EnvType /\ StreamType /\ WorkerType

\* The chunks a read is under way for: in the engine, in the bridge or in the
\* batch on_scheduled is working through.
ReadOps == {op.seq : op \in {o \in io : o.kind = "Read"}}
ReadEvents(queue) ==
    {queue[i].seq : i \in {j \in 1 .. Len(queue) : queue[j].kind = "Read"}}
Outstanding == ReadOps \cup ReadEvents(bridge) \cup ReadEvents(batch)

\* Streaming.inflight counts exactly the reads under way, through every
\* interleaving of completions, batches and errors, and stays within
\* max_inflight_reads: saturating_sub in handle_read never saturates.
ReadAccounting ==
    phase = "Streaming" =>
        /\ inflight = Cardinality(Outstanding)
        /\ inflight <= MaxInflight

\* Between the send cursor and the issue cursor no chunk is lost and none is
\* in two places: each is in ready or its read is under way.
WindowCovered ==
    phase = "Streaming" =>
        \A i \in nextSend .. issueCursor - 1 :
            (i \in ready) # (i \in Outstanding)

\* No lost wakeup: whenever the worker sits in its event loop with a stream
\* that is neither answered nor held back by a watermark, an operation is in
\* the engine or a wakeup is on its way (push in bridge.send happens before
\* commit, pump leaves the rest of the work to later completions, and the low
\* watermark hook commits by itself).
NeverStranded ==
    (pc = "Idle" /\ phase \notin {"Idle", "Done"} /\ depth = 0)
        => io # {} \/ uncommitted + commits > 0

\* The watermark depth never exceeds the high watermarks Envoy has not taken
\* back: once the client has drained its buffer the stream is not held back.
DepthNeverAhead == depth <= wm

\* handle_opened and handle_dir do not look at the phase: what keeps a second
\* answer off the wire is that a stream that streams, or is done, has no open
\* or directory read left anywhere, and that a resolving one has exactly one.
OneResolution ==
    LET opens == {op \in io : op.kind # "Read"}
        Opened(queue) == {i \in 1 .. Len(queue) : queue[i].kind # "Read"}
    IN ~closed =>
         Cardinality(opens) + Cardinality(Opened(bridge)) + Cardinality(Opened(batch))
           = (IF phase \in {"ResolvingFile", "ResolvingIndex"} THEN 1 ELSE 0)

\* What Envoy is sent is one response: a head first and only first, then the
\* chunks 0, 1, 2, ... with no gap, no repetition and nothing after the end.
WellFormedResponse ==
    \A i \in 1 .. Len(wire) :
        /\ wire[i].end => i = Len(wire)
        /\ i = 1 <=> wire[i].kind \in {"Response", "Headers"}
        /\ wire[i].kind = "Response" => wire[i].end
        /\ wire[i].kind = "Data" => wire[i].seq = i - 2

Ended == wire # <<>> /\ wire[Len(wire)].end

\* A response that ends without a read error carries every chunk that its
\* Content-Length announced.
BodyComplete ==
    Ended /\ wire[Len(wire)].kind # "Cut" => Len(wire) = reply.body + 1

\* Whatever the order of completions, errors and watermark hooks, pump sends one
\* response in order, and all of it unless a read failed.
ResponseExact == WellFormedResponse /\ BodyComplete

\* The inert handle (id 0) of open_stat names no file: no read is issued for
\* it, because the prefetch that made it inert is the whole body.
InertNeverRead == handle = "Inert" => Outstanding = {}

\* The answers for a document root that does not change: the first accepted
\* precompressed file, else the path itself, else, for a directory, a redirect,
\* an index file or what the mode prescribes.  Mode `deny` forbids a directory
\* before its index files are looked for, and a listing can fail in all the ways
\* that a directory can fail to be read.
FirstFile(queue) ==
    LET files == {i \in 1 .. Len(queue) : tree[queue[i]] = "File"}
    IN {queue[i] : i \in {j \in files : \A k \in files : j <= k}}

ListingStatuses == {200} \cup {status_for_io_error(kind) : kind \in IoErrors}

Replies ==
    LET encoded == IF request.trailingSlash THEN {} ELSE FirstFile(request.accepted)
        index == FirstFile(config.indexFiles)
    IN  IF encoded # {} THEN [path : encoded, status : {200}]
        ELSE IF tree[Identity] = "File" THEN [path : {Identity}, status : {200}]
        ELSE [path : {Identity}, status :
               IF tree[Identity] # "Dir" THEN {status_for_io_error(tree[Identity])}
               ELSE IF ~request.trailingSlash /\ config.redirect THEN {301}
               ELSE IF config.directory = "Deny" THEN {403}
               ELSE IF index # {} THEN {}
               ELSE IF config.directory = "Index" THEN {404}
               ELSE ListingStatuses]
             \cup
             [path : IF tree[Identity] = "Dir" /\ (request.trailingSlash \/ ~config.redirect)
                        /\ config.directory # "Deny" THEN index ELSE {},
              status : {200}]

\* The resolution as a whole, over all completions and misses: candidates in order,
\* misses and directories among the variants skipped, then the directory's own
\* rules.  Where README.md says otherwise of `deny`, see MCFilter.
ReplyMatchesTree ==
    (reply # NoReply /\ RejectedWith = 0 /\ treeChanges = 0)
        => [path |-> reply.path, status |-> reply.status] \in Replies

\* Every request is answered to the end unless the client goes away.
Answered == ~closed ~> (closed \/ Ended)
=============================================================================
