---------------------------- MODULE FilterProofs ----------------------------
(* Proofs about Filter, for every value of its constants. *)
EXTENDS Filter, SequenceTheorems, FiniteSetTheorems, TLAPS

-----------------------------------------------------------------------------
(* Type correctness. *)

\* Every response plan is a sequence of chunk kinds.
LEMMA PlanType ==
    /\ Plans \subseteq Seq(ChunkKinds)
    /\ <<>> \in Plans
<1>1. ASSUME NEW plan \in WholePlans PROVE plan \in Seq(ChunkKinds)
  <2>1. plan \in Seq({"File"})
    BY FilterAssumption
  <2>2. /\ Len(plan) \in Nat
        /\ plan \in [1 .. Len(plan) -> ChunkKinds]
    BY <2>1 DEF ChunkKinds
  <2> QED
    BY <2>2
<1>2. RangePlans \subseteq Seq(ChunkKinds)
  BY FilterAssumption
<1>3. <<>> \in Seq(ChunkKinds)
  OBVIOUS
<1> QED
  BY <1>1, <1>2, <1>3 DEF Plans

\* A terminal send leaves the stream and the worker well typed.
LEMMA EndStreamType ==
    ASSUME TypeOK, NEW message \in MessageType, NEW head \in ReplyType,
           EndStream(message, head)
    PROVE  StreamType' /\ WorkerType'
  BY DEF TypeOK, EnvType, EndStream, DropPhase, StreamType, WorkerType

\* send_response with any status leaves the stream and the worker well typed.
LEMMA RespondType ==
    ASSUME TypeOK, NEW status \in Nat, Respond(status)
    PROVE  StreamType' /\ WorkerType'
<1>1. /\ Message("Response", 0, TRUE) \in MessageType
      /\ StatusReply(status) \in ReplyType
  BY DEF Message, MessageType, StatusReply, ReplyType, Paths
<1> QED
  BY <1>1, EndStreamType DEF Respond

\* Dropping the handled event keeps the batch a sequence of events.
LEMMA NextEventType ==
    ASSUME TypeOK, batch # <<>>, NextEvent
    PROVE  pc' = "Events" /\ batch' \in Seq(EventType) /\ wire' = wire /\ reply' = reply
  BY DEF TypeOK, WorkerType, StreamType, EnvType, NextEvent, sent

\* submit_open of the first path of a queue keeps the types.
LEMMA SubmitFirstType ==
    ASSUME TypeOK, NEW queue \in Seq(Paths), queue # <<>>, SubmitFirst(queue)
    PROVE  /\ pending' \in Seq(Paths)
           /\ io' \subseteq OpType
           /\ UNCHANGED <<handle, chunks, ready, nextSend, issueCursor, inflight, depth>>
<1>1. Head(queue) \in Paths /\ Tail(queue) \in Seq(Paths)
  OBVIOUS
<1>2. OpenOp(Head(queue)) \in OpType
  BY <1>1 DEF OpenOp, OpType
<1> QED
  BY <1>1, <1>2 DEF TypeOK, WorkerType, StreamType, EnvType, SubmitFirst, streaming

\* Error kinds and rejected paths map to status numbers.
LEMMA StatusType ==
    /\ \A kind : status_for_io_error(kind) \in Nat
    /\ request \in RequestType => RejectedWith \in Nat
  BY DEF status_for_io_error, RejectedWith, reject_status, RequestType, RejectReasons

\* directory_fallback keeps the types.
LEMMA DirectoryFallbackType ==
    ASSUME TypeOK, batch # <<>>, directory_fallback
    PROVE  StreamType' /\ WorkerType'
<1>1. CASE config.directory = "Listing"
  <2>1. DirOp \in OpType
    BY DEF DirOp, OpType, Paths
  <2>2. /\ io' = io \cup {DirOp}
        /\ NextEvent
        /\ UNCHANGED <<phase, pending, streaming>>
    BY <1>1 DEF directory_fallback
  <2> QED
    BY <2>1, <2>2, NextEventType DEF TypeOK, EnvType, StreamType, WorkerType, streaming
<1>2. CASE config.directory # "Listing"
  BY <1>2, RespondType DEF directory_fallback
<1> QED
  BY <1>1, <1>2

\* open_next_candidate and open_next_index keep the types.
LEMMA OpenNextType ==
    ASSUME TypeOK, batch # <<>>,
           open_next_candidate \/ open_next_index
    PROVE  StreamType' /\ WorkerType'
<1>1. CASE pending = <<>>
  BY <1>1, RespondType, DirectoryFallbackType DEF open_next_candidate, open_next_index
<1>2. CASE pending # <<>>
  <2>1. SubmitFirst(pending) /\ NextEvent /\ UNCHANGED phase
    BY <1>2 DEF open_next_candidate, open_next_index
  <2>2. pending \in Seq(Paths)
    BY DEF TypeOK, WorkerType, StreamType, EnvType
  <2> QED
    BY <1>2, <2>1, <2>2, SubmitFirstType, NextEventType DEF TypeOK, EnvType, StreamType, WorkerType
<1> QED
  BY <1>1, <1>2

\* advance_after_open_miss keeps the types.
LEMMA MissType ==
    ASSUME TypeOK, batch # <<>>, advance_after_open_miss
    PROVE  StreamType' /\ WorkerType'
<1>1. CASE phase \in {"ResolvingFile", "ResolvingIndex"}
  BY <1>1, OpenNextType DEF advance_after_open_miss
<1>2. CASE phase \notin {"ResolvingFile", "ResolvingIndex"}
  BY <1>2, NextEventType
  DEF advance_after_open_miss, TypeOK, EnvType, StreamType, WorkerType, streaming
<1> QED
  BY <1>1, <1>2

\* handle_directory keeps the types.
LEMMA DirectoryType ==
    ASSUME TypeOK, batch # <<>>, handle_directory
    PROVE  StreamType' /\ WorkerType'
<1>1. CASE Respond(301) \/ Respond(403) \/ directory_fallback
  BY <1>1, RespondType, DirectoryFallbackType
<1>2. CASE /\ config.indexFiles # <<>>
           /\ phase' = "ResolvingIndex"
           /\ SubmitFirst(config.indexFiles)
           /\ NextEvent
  <2>1. config.indexFiles \in Seq(Paths)
    BY DEF TypeOK, WorkerType, StreamType, EnvType, ConfigType, Paths
  <2> QED
    BY <1>2, <2>1, SubmitFirstType, NextEventType DEF TypeOK, EnvType, StreamType, WorkerType
<1> QED
  BY <1>1, <1>2 DEF handle_directory

\* begin_streaming installs a well-typed Streaming phase.
LEMMA BeginStreamingType ==
    ASSUME TypeOK, batch # <<>>, NEW event \in EventType, begin_streaming(event)
    PROVE  StreamType' /\ WorkerType'
<1>1. event.plan \in Seq(ChunkKinds) /\ event.path \in Paths
  BY PlanType DEF EventType
<1>2. FileReply(event.path, event.plan) \in ReplyType
  BY <1>1 DEF FileReply, ReplyType
<1>3. /\ Message("Headers", 0, TRUE) \in MessageType
      /\ Message("Headers", 0, FALSE) \in MessageType
  BY DEF Message, MessageType
<1>4. CASE event.plan = <<>>
  BY <1>2, <1>3, <1>4, EndStreamType DEF begin_streaming
<1>5. CASE event.plan # <<>>
  <2>1. Seeded(event.plan, event.prefetch) \subseteq Nat
    BY <1>1 DEF Seeded
  <2>4. handle' \in {"Live", "Inert"}
    BY <1>5, Zenon DEF begin_streaming
  <2>5. /\ phase' = "Streaming" /\ pending' = <<>> /\ chunks' = event.plan
        /\ ready' = Seeded(event.plan, event.prefetch)
        /\ nextSend' = 0 /\ issueCursor' = 0 /\ inflight' = 0 /\ depth' = 0
    BY <1>5, Zenon DEF begin_streaming
  <2>2. StreamType'
    BY <1>1, <2>1, <2>4, <2>5 DEF StreamType
  <2>3. WorkerType'
    <3>1. PICK message \in MessageType : wire' = Append(wire, message)
      BY <1>3, <1>5 DEF begin_streaming
    <3>2. /\ reply' \in ReplyType /\ pc' = "InHeaders"
          /\ batch' = Tail(batch) /\ UNCHANGED io
      BY <1>2, <1>5 DEF begin_streaming
    <3> QED
      BY <3>1, <3>2 DEF TypeOK, WorkerType
  <2> QED
    BY <2>2, <2>3
<1> QED
  BY <1>4, <1>5

\* A completion takes one operation out of the engine and delivers its event.
LEMMA DeliverCompletes ==
    ASSUME TypeOK, Complete
    PROVE  \E op \in io :
              /\ io' = io \ {op}
              /\ \E event \in EventType :
                    event.kind = op.kind /\ event.seq = op.seq /\ Deliver(event)
<1>1. ASSUME NEW op \in io,
             NEW result \in {"Ok", "File", "Dir"} \cup IoErrors,
             NEW plan \in Plans, NEW prefetch \in BOOLEAN
      PROVE  /\ Event(op, result, plan, prefetch) \in EventType
             /\ Event(op, result, plan, prefetch).kind = op.kind
             /\ Event(op, result, plan, prefetch).seq = op.seq
  BY DEF Event, EventType, TypeOK, WorkerType, OpType
<1>2. <<>> \in Plans
  BY PlanType
<1>3. CASE CompleteOpen
  <2>1. \A op \in io : tree[op.path] \in {"File", "Dir"} \cup IoErrors
    BY DEF TypeOK, EnvType, WorkerType, OpType
  <2>2. PICK op \in io :
            /\ io' = io \ {op}
            /\ \E result \in {"Ok", "File", "Dir"} \cup IoErrors,
                  plan \in Plans, prefetch \in BOOLEAN :
                  Deliver(Event(op, result, plan, prefetch))
    BY <1>2, <1>3, <2>1 DEF CompleteOpen
  <2> QED
    BY <1>1, <2>2
<1>4. CASE CompleteRead \/ CompleteDir
  BY <1>1, <1>2, <1>4 DEF CompleteRead, CompleteDir, IoErrors
<1> QED
  BY <1>3, <1>4 DEF Complete

\* The type invariant: in particular every counter of Streaming (inflight,
\* watermark_depth, the two cursors) stays a natural number, so that no
\* subtraction of handle_read or the low watermark hook underflows.
THEOREM TypeCorrect == Spec => []TypeOK
<1>1. Init => TypeOK
  <2>1. NoReply \in ReplyType
    BY DEF NoReply, ReplyType, Paths
  <2> QED
    <3>1. Init => EnvType
      <4>1. Init => /\ config \in ConfigType /\ request \in RequestType
                    /\ tree \in [Paths -> {"File", "Dir"} \cup IoErrors]
                    /\ closed \in BOOLEAN
        BY FilterAssumption, Zenon DEF Init
      <4>2. Init => /\ treeChanges \in Nat /\ bridge \in Seq(EventType)
                    /\ uncommitted \in Nat /\ commits \in Nat
                    /\ wm \in Nat /\ highs \in Nat
        BY DEF Init
      <4> QED
        BY <4>1, <4>2 DEF EnvType
    <3>2. Init => StreamType
      BY DEF Init, StreamType
    <3>3. Init => WorkerType
      BY <2>1 DEF Init, WorkerType
    <3> QED
      BY <3>1, <3>2, <3>3 DEF TypeOK
<1>2. TypeOK /\ [Next]_vars => TypeOK'
  <2> SUFFICES ASSUME TypeOK, [Next]_vars
               PROVE  EnvType' /\ StreamType' /\ WorkerType'
    BY DEF TypeOK
  <2>1. CASE OnRequestHeadersReject
    BY <2>1, RespondType, StatusType
    DEF OnRequestHeadersReject, TypeOK, WorkerType, StreamType, EnvType, fixed, disk, mailbox,
        downstream
  <2>2. CASE OnRequestHeadersResolve
    <3>1. build_file_candidates \in Seq(Paths) /\ build_file_candidates # <<>>
      <4>1. request.accepted \in Seq(Paths)
        BY DEF TypeOK, WorkerType, StreamType, EnvType, RequestType, Paths
      <4>2. <<>> \in Seq(Paths) /\ <<Identity>> \in Seq(Paths)
        BY DEF Paths
      <4> DEFINE first == IF request.trailingSlash THEN <<>> ELSE request.accepted
      <4>3. first \in Seq(Paths)
        BY <4>1, <4>2
      <4>4. first \o <<Identity>> \in Seq(Paths) /\ first \o <<Identity>> # <<>>
        BY <4>2, <4>3
      <4> QED
        BY <4>4 DEF build_file_candidates
    <3> QED
      BY <2>2, <3>1, SubmitFirstType
      DEF OnRequestHeadersResolve, TypeOK, EnvType, StreamType, WorkerType,
          fixed, disk, worker, mailbox, downstream, sent
  <2>3. CASE OnScheduled
    BY <2>3 DEF OnScheduled, TypeOK, EnvType, StreamType, WorkerType,
       fixed, disk, streaming, downstream, sent
  <2>4. ASSUME NEW kind, Handling(kind)
        PROVE  /\ EnvType'
               /\ batch # <<>> /\ Head(batch) \in EventType /\ Tail(batch) \in Seq(EventType)
    BY <2>4 DEF Handling, TypeOK, WorkerType, StreamType, EnvType, fixed, disk, mailbox, downstream
  <2>5. CASE HandleOpened
    <3>1. Handling("Open")
      BY <2>5 DEF HandleOpened
    <3>2. begin_streaming(Head(batch)) \/ advance_after_open_miss \/ handle_directory
      BY <2>5 DEF HandleOpened
    <3> QED
      BY <2>4, <3>1, <3>2, BeginStreamingType, MissType, DirectoryType
  <2>6. CASE HandleOpenError
    <3>1. Handling("Open")
      BY <2>6 DEF HandleOpenError
    <3>2. Respond(status_for_io_error(Head(batch).result)) \/ advance_after_open_miss
      BY <2>6 DEF HandleOpenError
    <3> QED
      BY <2>4, <3>1, <3>2, RespondType, StatusType, MissType
  <2>7. CASE HandleDir
    <3>1. Handling("Dir")
      BY <2>7 DEF HandleDir
    <3>2. PICK status \in Nat : Respond(status)
      BY <2>7, StatusType DEF HandleDir
    <3> QED
      BY <2>4, <3>1, <3>2, RespondType
  <2>8. CASE HandleReadOk
    <3>1. Handling("Read") /\ NextEvent
      BY <2>8 DEF HandleReadOk
    <3>2. Head(batch).seq \in Nat
      BY <2>4, <3>1 DEF EventType
    <3>3. batch # <<>> /\ EnvType'
      BY <2>4, <3>1
    <3>4. ready' \subseteq Nat /\ inflight' \in Nat
      <4>1. ready \subseteq Nat /\ inflight \in Nat
        BY DEF TypeOK, StreamType
      <4>2. /\ ready' = ready \cup {Head(batch).seq} \/ ready' = ready
            /\ inflight' \in {0, inflight - 1, inflight}
            /\ inflight = 0 => inflight' = 0
        BY <2>8 DEF HandleReadOk
      <4>3. ready' \subseteq Nat
        BY <3>2, <4>1, <4>2
      <4>4. inflight' \in Nat
        BY <4>1, <4>2
      <4> QED
        BY <4>3, <4>4
    <3> QED
      BY <2>8, <3>1, <3>3, <3>4, NextEventType
      DEF HandleReadOk, TypeOK, EnvType, StreamType, WorkerType
  <2>9. CASE HandleReadError
    <3>1. Handling("Read")
      BY <2>9 DEF HandleReadError
    <3>2. batch # <<>> /\ EnvType'
      BY <2>4, <3>1
    <3>3. CASE EndStream(Message("Cut", 0, TRUE), reply)
      <4>1. Message("Cut", 0, TRUE) \in MessageType /\ reply \in ReplyType
        BY DEF Message, MessageType, TypeOK, WorkerType, StreamType, EnvType
      <4> QED
        BY <3>2, <3>3, <4>1, EndStreamType
    <3>4. CASE NextEvent /\ UNCHANGED <<phase, pending, streaming, io>>
      BY <3>2, <3>4, NextEventType DEF TypeOK, EnvType, StreamType, WorkerType, streaming
    <3> QED
      BY <2>9, <3>3, <3>4 DEF HandleReadError
  <2>10. CASE EventsHandled \/ FlushBlocked \/ FlushDone \/ IssueDone
    BY <2>10 DEF EventsHandled, FlushBlocked, FlushDone, IssueDone, TypeOK, EnvType,
       StreamType, WorkerType, fixed, disk, streaming, mailbox, downstream, sent
  <2>11. CASE FlushChunk
    <3>1. Message("Data", nextSend, FALSE) \in MessageType
      BY DEF Message, MessageType, TypeOK, WorkerType, StreamType, EnvType
    <3>2. EnvType'
      BY <2>11 DEF FlushChunk, TypeOK, EnvType, fixed, disk, mailbox, downstream
    <3>3. StreamType'
      BY <2>11 DEF FlushChunk, TypeOK, StreamType
    <3>4. WorkerType'
      <4>1. PICK message \in MessageType : wire' = Append(wire, message)
        BY <2>11, <3>1 DEF FlushChunk
      <4>2. pc' = "InData" /\ UNCHANGED <<batch, io, reply>>
        BY <2>11 DEF FlushChunk
      <4> QED
        BY <4>1, <4>2 DEF TypeOK, WorkerType
    <3> QED
      BY <3>2, <3>3, <3>4
  <2>12. CASE FlushLast
    <3>1. Message("Data", nextSend, TRUE) \in MessageType /\ reply \in ReplyType
      BY DEF Message, MessageType, TypeOK, WorkerType, StreamType, EnvType
    <3> QED
      BY <2>12, <3>1, EndStreamType
      DEF FlushLast, TypeOK, WorkerType, StreamType, EnvType, fixed, disk, mailbox, downstream
  <2>13. CASE IssueSkip \/ IssueRead
    <3>1. ReadOp(issueCursor) \in OpType
      BY DEF ReadOp, OpType, Paths, TypeOK, WorkerType, StreamType, EnvType
    <3>2. EnvType'
      BY <2>13 DEF IssueSkip, IssueRead, TypeOK, EnvType, fixed, disk, mailbox, downstream
    <3>3. StreamType'
      <4>1. /\ issueCursor' = issueCursor + 1
            /\ inflight' \in {inflight, inflight + 1}
            /\ UNCHANGED <<phase, pending, handle, chunks, ready, nextSend, depth>>
        BY <2>13 DEF IssueSkip, IssueRead
      <4> QED
        BY <4>1 DEF TypeOK, StreamType
    <3>4. WorkerType'
      BY <2>13, <3>1 DEF IssueSkip, IssueRead, TypeOK, WorkerType, worker, sent
    <3> QED
      BY <3>2, <3>3, <3>4
  <2>14. CASE HighWatermark \/ LowWatermark
    <3>1. EnvType'
      BY <2>14 DEF HighWatermark, LowWatermark, TypeOK, EnvType, fixed, disk, mailbox
    <3>2. StreamType'
      <4>1. depth \in Nat
        BY DEF TypeOK, StreamType
      <4>2. depth' \in Nat
        BY <2>14, <4>1 DEF HighWatermark, LowWatermark
      <4>3. UNCHANGED <<phase, pending, handle, chunks, ready, nextSend, issueCursor,
                        inflight>>
        BY <2>14 DEF HighWatermark, LowWatermark
      <4> QED
        BY <4>2, <4>3 DEF TypeOK, StreamType
    <3>3. WorkerType'
      BY <2>14 DEF HighWatermark, LowWatermark, TypeOK, WorkerType, worker, sent
    <3> QED
      BY <3>1, <3>2, <3>3
  <2>15. CASE OnStreamComplete
    BY <2>15 DEF OnStreamComplete, DropPhase, TypeOK, EnvType, StreamType, WorkerType,
       fixed, disk, worker, downstream, sent
  <2>16. ASSUME NEW event \in EventType, Deliver(event), io' \subseteq OpType
         PROVE  EnvType' /\ StreamType' /\ WorkerType'
    BY <2>16 DEF Deliver, TypeOK, EnvType, StreamType, WorkerType,
       fixed, disk, streaming, worker, downstream, sent
  <2>18. CASE Complete
    <3>1. PICK op \in io : /\ io' = io \ {op}
                           /\ \E event \in EventType : Deliver(event)
      BY <2>18, DeliverCompletes
    <3> QED
      BY <3>1, <2>16 DEF TypeOK, WorkerType
  <2>19. CASE Commit
    BY <2>19 DEF Commit, TypeOK, EnvType, StreamType, WorkerType,
       fixed, disk, streaming, worker, downstream, sent
  <2>20. CASE TreeChange
    BY <2>20, FilterAssumption DEF TreeChange, TypeOK, EnvType, StreamType, WorkerType,
       fixed, streaming, worker, mailbox, downstream, sent
  <2>21. CASE UNCHANGED vars
    BY <2>21 DEF vars, TypeOK, WorkerType, StreamType, EnvType, fixed, disk, streaming,
                  worker, mailbox, downstream, sent
  <2> QED
    BY <2>1, <2>2, <2>3, <2>5, <2>6, <2>7, <2>8, <2>9, <2>10, <2>11, <2>12, <2>13, <2>14,
       <2>15, <2>18, <2>19, <2>20, <2>21 DEF Next, WorkerStep, Finished
<1> QED
  BY <1>1, <1>2, PTL DEF Spec

-----------------------------------------------------------------------------
(* The inductive invariant, in the order in which its parts are proved: each *)
(* part may use the ones before it.                                          *)

Resolving == phase \in {"ResolvingFile", "ResolvingIndex"}

OnlyReads(queue) == \A i \in 1 .. Len(queue) : queue[i].kind = "Read"

\* Where the worker may be in each phase.
Control ==
    /\ closed => phase = "Done" /\ pc = "Idle" /\ bridge = <<>>
    /\ phase = "Idle" => /\ pc = "Idle" /\ io = {} /\ bridge = <<>>
                         /\ commits = 0 /\ uncommitted = 0
    /\ pc \in {"InHeaders", "Pump", "InData", "Issue"} => phase = "Streaming"
    /\ pc # "Events" => batch = <<>>

\* A resolving stream has one operation, which is in the engine, in the bridge
\* or in the batch; afterwards only reads are left.
Token ==
    /\ Resolving =>
         \/ /\ bridge = <<>> /\ batch = <<>>
            /\ \E op \in io : io = {op} /\ op.kind # "Read"
         \/ /\ io = {} /\ batch = <<>>
            /\ Len(bridge) = 1 /\ bridge[1].kind # "Read"
         \/ /\ io = {} /\ bridge = <<>>
            /\ Len(batch) = 1 /\ batch[1].kind # "Read"
    /\ (phase \in {"Streaming", "Done"} /\ ~closed) =>
         /\ \A op \in io : op = ReadOp(op.seq)
         /\ OnlyReads(bridge)
         /\ OnlyReads(batch)

Distinct(queue) ==
    \A i, j \in 1 .. Len(queue) : i # j => queue[i].seq # queue[j].seq

\* The reads under way and the chunks buffered, against the two cursors.
Window ==
    phase = "Streaming" =>
        /\ nextSend < Len(chunks)
        /\ issueCursor <= Len(chunks)
        /\ ready \subseteq 0 .. Len(chunks) - 1
        /\ Distinct(bridge)
        /\ Distinct(batch)
        /\ ReadOps \cap ReadEvents(bridge) = {}
        /\ ReadOps \cap ReadEvents(batch) = {}
        /\ ReadEvents(bridge) \cap ReadEvents(batch) = {}
        /\ Outstanding \subseteq 0 .. issueCursor - 1
        /\ ready \cap Outstanding = {}
        /\ \A i \in nextSend .. issueCursor - 1 : i \in ready \cup Outstanding
        /\ \A i \in nextSend .. Len(chunks) - 1 : chunks[i + 1] = "Inline" => i \in ready

Counting ==
    phase = "Streaming" =>
        /\ inflight = Cardinality(Outstanding)
        /\ inflight <= MaxInflight

\* Events in the bridge have a wakeup on its way, and a worker back in its
\* event loop has flushed and issued all it could, or has a wakeup coming.
Wakeups ==
    /\ bridge # <<>> => uncommitted + commits > 0
    /\ pc = "Issue" => nextSend \notin ready
    /\ (pc = "Idle" /\ phase = "Streaming" /\ depth = 0 /\ uncommitted + commits = 0) =>
         /\ nextSend \notin ready
         /\ issueCursor = Len(chunks) \/ inflight >= MaxInflight

\* What is on the wire in each phase.
OnWire ==
    /\ (phase \notin {"Streaming", "Done"}) => wire = <<>>
    /\ phase = "Streaming" =>
         /\ Len(wire) = nextSend + 1
         /\ reply.body = Len(chunks)
         /\ ~wire[Len(wire)].end

\* Only a streaming filter is held back by a watermark.
Held ==
    /\ depth <= wm
    /\ phase # "Streaming" => depth = 0

\* The inert handle serves its only chunk from the prefetch.
InertSeeded ==
    /\ handle = "Inert" => /\ phase = "Streaming" /\ Len(chunks) = 1
                           /\ nextSend = 0 /\ 0 \in ready
                           /\ io = {} /\ bridge = <<>> /\ batch = <<>>

-----------------------------------------------------------------------------
(* What a step of the resolution amounts to: an answer, another operation or *)
(* the start of a body.                                                      *)

Answers ==
    \E kind \in {"Response", "Headers"}, head \in ReplyType :
        head.body = 0 /\ EndStream(Message(kind, 0, TRUE), head)

Submits ==
    /\ phase' \in {"ResolvingFile", "ResolvingIndex"}
    /\ NextEvent
    /\ UNCHANGED streaming
    /\ \E op \in OpType : op.kind # "Read" /\ io' = io \cup {op}

Begins == \E event \in EventType : event.plan # <<>> /\ begin_streaming(event)

\* send_response is an answer with an empty body.
LEMMA RespondAnswers ==
    ASSUME TypeOK, NEW status \in Nat, Respond(status)
    PROVE  Answers
<1>1. StatusReply(status) \in ReplyType /\ StatusReply(status).body = 0
  BY DEF StatusReply, ReplyType, Paths
<1> QED
  BY <1>1 DEF Answers, Respond

\* submit_open of a queue's first path submits one operation that is no read.
LEMMA SubmitFirstSubmits ==
    ASSUME NEW queue \in Seq(Paths), queue # <<>>, SubmitFirst(queue), NextEvent,
           phase' \in {"ResolvingFile", "ResolvingIndex"}
    PROVE  Submits
<1>1. OpenOp(Head(queue)) \in OpType /\ OpenOp(Head(queue)).kind # "Read"
  BY DEF OpenOp, OpType
<1> QED
  BY <1>1 DEF Submits, SubmitFirst

\* directory_fallback answers or submits the directory read.
LEMMA FallbackStep ==
    ASSUME TypeOK, Resolving, directory_fallback
    PROVE  Answers \/ Submits
<1>1. CASE config.directory = "Listing"
  <2>1. DirOp \in OpType /\ DirOp.kind # "Read"
    BY DEF DirOp, OpType, Paths
  <2> QED
    BY <1>1, <2>1 DEF directory_fallback, Submits, Resolving
<1>2. CASE config.directory # "Listing"
  BY <1>2, RespondAnswers DEF directory_fallback
<1> QED
  BY <1>1, <1>2

\* After a miss the filter answers or submits the next open.
LEMMA MissStep ==
    ASSUME TypeOK, Resolving, advance_after_open_miss
    PROVE  Answers \/ Submits
<1>1. open_next_candidate \/ open_next_index
  BY DEF Resolving, advance_after_open_miss
<1>2. CASE pending = <<>>
  BY <1>1, <1>2, RespondAnswers, FallbackStep DEF open_next_candidate, open_next_index
<1>3. CASE pending # <<>>
  <2>1. SubmitFirst(pending) /\ NextEvent /\ phase' = phase
    BY <1>1, <1>3 DEF open_next_candidate, open_next_index
  <2>2. pending \in Seq(Paths)
    BY DEF TypeOK, StreamType
  <2> QED
    BY <1>3, <2>1, <2>2, SubmitFirstSubmits DEF Resolving
<1> QED
  BY <1>2, <1>3

\* handle_directory answers or submits one operation.
LEMMA DirectoryStep ==
    ASSUME TypeOK, Resolving, handle_directory
    PROVE  Answers \/ Submits
<1>1. CASE Respond(301) \/ Respond(403) \/ directory_fallback
  BY <1>1, RespondAnswers, FallbackStep
<1>2. CASE /\ config.indexFiles # <<>>
           /\ phase' = "ResolvingIndex"
           /\ SubmitFirst(config.indexFiles)
           /\ NextEvent
  <2>1. config.indexFiles \in Seq(Paths)
    BY DEF TypeOK, EnvType, ConfigType, Paths
  <2> QED
    BY <1>2, <2>1, SubmitFirstSubmits
<1> QED
  BY <1>1, <1>2 DEF handle_directory

\* An opened file is answered without a body or starts one.
LEMMA BeginStep ==
    ASSUME TypeOK, NEW event \in EventType, begin_streaming(event)
    PROVE  Answers \/ Begins
<1>1. CASE event.plan = <<>>
  <2>1. event.path \in Paths /\ Len(event.plan) = 0
    BY <1>1 DEF EventType
  <2>2. /\ FileReply(event.path, event.plan) \in ReplyType
        /\ FileReply(event.path, event.plan).body = 0
    BY <2>1 DEF FileReply, ReplyType
  <2> QED
    BY <1>1, <2>2 DEF begin_streaming, Answers
<1>2. CASE event.plan # <<>>
  BY <1>2 DEF Begins
<1> QED
  BY <1>1, <1>2

\* An event that is not a read is handled while resolving, alone in its batch,
\* with nothing left in the engine or the bridge.
LEMMA ResolutionStep ==
    ASSUME TypeOK, Control, Token, HandleOpened \/ HandleOpenError \/ HandleDir
    PROVE  /\ Resolving /\ ~closed
           /\ io = {} /\ bridge = <<>> /\ Tail(batch) = <<>>
           /\ Answers \/ Submits \/ Begins
<1>1. /\ batch # <<>> /\ Head(batch).kind # "Read"
      /\ batch \in Seq(EventType)
  BY DEF HandleOpened, HandleOpenError, HandleDir, Handling, TypeOK, WorkerType
<1>2. Len(batch) \in Nat /\ 1 \in 1 .. Len(batch) /\ batch[1].kind # "Read"
  BY <1>1
<1>3. ~closed /\ phase # "Idle"
  BY <1>1 DEF Control
<1>4. ~OnlyReads(batch)
  BY <1>2 DEF OnlyReads
<1>5. Resolving
  BY <1>3, <1>4 DEF Token, TypeOK, StreamType, Resolving
<1>6. io = {} /\ bridge = <<>> /\ Len(batch) = 1
  BY <1>1, <1>5 DEF Token
<1>7. Tail(batch) = <<>>
  <2>1. Tail(batch) \in Seq(EventType) /\ Len(Tail(batch)) = 0
    BY <1>1, <1>6
  <2> QED
    BY <2>1, EmptySeq
<1>8. Head(batch) \in EventType
  BY <1>1
<1>9. HandleOpened => Answers \/ Submits \/ Begins
  BY <1>5, <1>8, BeginStep, MissStep, DirectoryStep DEF HandleOpened
<1>10. HandleOpenError => Answers \/ Submits
  BY <1>5, RespondAnswers, StatusType, MissStep DEF HandleOpenError
<1>11. HandleDir => Answers
  BY RespondAnswers, StatusType DEF HandleDir
<1> QED
  BY <1>3, <1>5, <1>6, <1>7, <1>9, <1>10, <1>11

\* Every step preserves the places of the worker and the single operation of a
\* resolving stream.
LEMMA ControlTokenStep ==
    ASSUME TypeOK, Control, Token, [Next]_vars
    PROVE  Control' /\ Token'
<1> USE DEF Resolving
<1>1. CASE OnRequestHeadersReject
  <2>1. /\ phase = "Idle" /\ phase' = "Done" /\ pc' = "Idle" /\ batch' = <<>>
        /\ io' = io /\ bridge' = bridge /\ closed' = closed /\ ~closed
    BY <1>1 DEF OnRequestHeadersReject, Respond, EndStream, DropPhase, mailbox
  <2> QED
    BY <2>1 DEF Control, Token, OnlyReads
<1>2. CASE OnRequestHeadersResolve
  <2>1. PICK op : op = OpenOp(Head(build_file_candidates))
    OBVIOUS
  <2>2. op.kind # "Read"
    BY <2>1 DEF OpenOp
  <2>3. /\ phase = "Idle" /\ phase' = "ResolvingFile"
        /\ io' = io \cup {op} /\ bridge' = bridge /\ closed' = closed /\ ~closed
        /\ UNCHANGED <<pc, batch>>
    BY <1>2, <2>1 DEF OnRequestHeadersResolve, SubmitFirst, mailbox, worker
  <2> QED
    BY <2>2, <2>3 DEF Control, Token
<1>3. CASE OnScheduled
  <2>1. /\ pc = "Idle" /\ ~closed /\ phase # "Idle" /\ batch = <<>>
        /\ batch' = bridge /\ bridge' = <<>> /\ pc' = "Events"
        /\ UNCHANGED <<phase, io, closed>>
    BY <1>3 DEF OnScheduled, Control, TypeOK, EnvType
  <2>2. OnlyReads(<<>>)
    BY DEF OnlyReads
  <2>3. OnlyReads(bridge) => OnlyReads(batch') /\ OnlyReads(bridge')
    BY <2>1, <2>2 DEF OnlyReads
  <2> QED
    BY <2>1, <2>3 DEF Control, Token
<1>4. CASE HandleOpened \/ HandleOpenError \/ HandleDir
  <2>1. /\ Resolving /\ ~closed
        /\ io = {} /\ bridge = <<>> /\ Tail(batch) = <<>>
        /\ Answers \/ Submits \/ Begins
    BY <1>4, ResolutionStep
  <2>2. UNCHANGED <<bridge, closed>>
    BY <1>4 DEF HandleOpened, HandleOpenError, HandleDir, Handling, mailbox
  <2>3. CASE Answers
    <3>1. /\ phase' = "Done" /\ pc' = "Idle" /\ batch' = <<>> /\ io' = io
      BY <2>3 DEF Answers, EndStream, DropPhase
    <3> QED
      BY <2>1, <2>2, <3>1 DEF Control, Token, OnlyReads
  <2>4. CASE Submits
    <3>1. PICK op \in OpType : op.kind # "Read" /\ io' = io \cup {op}
      BY <2>4 DEF Submits
    <3>2. /\ phase' \in {"ResolvingFile", "ResolvingIndex"}
          /\ pc' = "Events" /\ batch' = Tail(batch)
      BY <2>4 DEF Submits, NextEvent
    <3> QED
      BY <2>1, <2>2, <3>1, <3>2 DEF Control, Token
  <2>5. CASE Begins
    <3>1. /\ phase' = "Streaming" /\ pc' = "InHeaders" /\ batch' = Tail(batch) /\ io' = io
      BY <2>5 DEF Begins, begin_streaming
    <3> QED
      BY <2>1, <2>2, <3>1 DEF Control, Token, OnlyReads
  <2> QED
    BY <2>1, <2>3, <2>4, <2>5
<1>5. ASSUME Handling("Read")
      PROVE  /\ phase \in {"Streaming", "Done"} /\ ~closed
             /\ UNCHANGED <<bridge, closed>>
             /\ OnlyReads(Tail(batch))
  <2>1. batch \in Seq(EventType) /\ batch # <<>> /\ Head(batch).kind = "Read"
    BY <1>5 DEF Handling, TypeOK, WorkerType
  <2>2. Len(batch) \in Nat /\ Len(batch) >= 1 /\ batch[1].kind = "Read"
    BY <2>1
  <2>3. ~closed /\ phase # "Idle" /\ ~Resolving
    BY <2>1, <2>2 DEF Control, Token
  <2>4. phase \in {"Streaming", "Done"}
    BY <2>3 DEF TypeOK, StreamType
  <2>5. OnlyReads(Tail(batch))
    BY <2>1, <2>3, <2>4 DEF Token, OnlyReads
  <2> QED
    BY <1>5, <2>3, <2>4, <2>5 DEF Handling, mailbox
<1>6. CASE HandleReadOk
  <2>1. Handling("Read") /\ pc' = "Events" /\ batch' = Tail(batch) /\ UNCHANGED <<phase, io>>
    BY <1>6 DEF HandleReadOk, NextEvent
  <2> QED
    BY <1>5, <2>1 DEF Control, Token, OnlyReads
<1>7. CASE HandleReadError
  <2>1. Handling("Read") /\ UNCHANGED io
    BY <1>7 DEF HandleReadError, EndStream
  <2>2. \/ phase' = "Done" /\ pc' = "Idle" /\ batch' = <<>>
        \/ phase' = phase /\ pc' = "Events" /\ batch' = Tail(batch)
    BY <1>7 DEF HandleReadError, EndStream, DropPhase, NextEvent
  <2>3. /\ phase \in {"Streaming", "Done"} /\ ~closed
        /\ UNCHANGED <<bridge, closed>>
        /\ OnlyReads(Tail(batch))
    BY <1>5, <2>1
  <2>4. phase' \in {"Streaming", "Done"} /\ OnlyReads(batch')
    <3>1. OnlyReads(<<>>)
      BY DEF OnlyReads
    <3> QED
      BY <2>2, <2>3, <3>1
  <2>5. OnlyReads(bridge') /\ (OnlyReads(bridge) <=> OnlyReads(bridge'))
    BY <2>3 DEF Token
  <2>7. Token'
    BY <2>1, <2>3, <2>4, <2>5 DEF Token, OnlyReads
  <2>6. Control'
    BY <2>1, <2>2, <2>3 DEF Control
  <2> QED
    BY <2>6, <2>7
<1>8. CASE EventsHandled \/ FlushBlocked \/ FlushDone \/ IssueDone
  BY <1>8 DEF EventsHandled, FlushBlocked, FlushDone, IssueDone, Flushing, mailbox,
     Control, Token, OnlyReads
<1>9. CASE FlushChunk \/ IssueSkip
  <2>1. /\ UNCHANGED <<phase, batch, bridge, closed, io, commits, uncommitted>>
        /\ phase = "Streaming" /\ batch = <<>>
        /\ pc' \in {"InData", "Issue"}
    BY <1>9 DEF FlushChunk, IssueSkip, Flushing, worker, mailbox, Control
  <2> QED
    BY <2>1 DEF Control, Token, OnlyReads
<1>10. CASE FlushLast
  <2>1. /\ phase = "Streaming" /\ phase' = "Done" /\ pc' = "Idle" /\ batch' = <<>>
        /\ UNCHANGED <<io, bridge, closed>>
    BY <1>10 DEF FlushLast, Flushing, EndStream, DropPhase, mailbox, Control
  <2> QED
    BY <2>1 DEF Control, Token, OnlyReads
<1>11. CASE IssueRead
  <2>1. /\ phase = "Streaming" /\ ~closed
        /\ io' = io \cup {ReadOp(issueCursor)}
        /\ UNCHANGED <<phase, pc, batch, bridge, closed>>
    BY <1>11 DEF IssueRead, worker, mailbox, Control
  <2>2. ReadOp(issueCursor) = ReadOp(ReadOp(issueCursor).seq)
    BY DEF ReadOp
  <2> QED
    BY <2>1, <2>2 DEF Control, Token, OnlyReads
<1>12. CASE HighWatermark \/ LowWatermark
  BY <1>12 DEF HighWatermark, LowWatermark, worker, mailbox, Control, Token, OnlyReads
<1>13. CASE OnStreamComplete
  BY <1>13 DEF OnStreamComplete, DropPhase, worker, Control, Token
<1>14. CASE Complete
  <2>1. PICK op \in io : /\ io' = io \ {op}
                         /\ \E event : event.kind = op.kind /\ Deliver(event)
    BY <1>14, DeliverCompletes
  <2>2. PICK event : event.kind = op.kind /\ Deliver(event)
    BY <2>1
  <2>3. event.kind = op.kind
    BY <2>2
  <2>4. /\ bridge' = IF closed THEN bridge ELSE Append(bridge, event)
        /\ UNCHANGED <<phase, pc, batch, closed>>
    BY <2>2 DEF Deliver, worker
  <2>5. phase # "Idle"
    BY DEF Control
  <2>6. CASE closed
    BY <2>1, <2>4, <2>5, <2>6 DEF Control, Token
  <2>7. CASE ~closed
    <3>1. bridge \in Seq(EventType) /\ Len(bridge) \in Nat
      BY DEF TypeOK, EnvType
    <3>2. /\ Len(bridge') = Len(bridge) + 1
          /\ \A i \in 1 .. Len(bridge) : bridge'[i] = bridge[i]
          /\ bridge'[Len(bridge) + 1] = event
      BY <2>4, <2>7, <3>1
    <3>3. Control'
      BY <2>4, <2>5, <2>7 DEF Control
    <3>4. CASE Resolving
      <4>1. io = {op} /\ op.kind # "Read" /\ bridge = <<>> /\ batch = <<>>
        BY <3>4 DEF Token
      <4>2. Len(bridge') = 1 /\ bridge'[1].kind # "Read"
        BY <2>3, <3>2, <4>1
      <4> QED
        BY <2>1, <2>4, <3>3, <3>4, <4>1, <4>2 DEF Token
    <3>5. CASE phase \in {"Streaming", "Done"}
      <4>1. op.kind = "Read"
        BY <2>7, <3>5 DEF Token, ReadOp
      <4>2. OnlyReads(bridge')
        BY <2>3, <2>7, <3>1, <3>2, <3>5, <4>1 DEF Token, OnlyReads
      <4>3. \A o \in io' : o = ReadOp(o.seq)
        BY <2>1, <2>7, <3>5 DEF Token
      <4> QED
        BY <2>4, <2>7, <3>3, <3>5, <4>2, <4>3 DEF Token, OnlyReads
    <3> QED
      BY <2>5, <3>4, <3>5 DEF TypeOK, StreamType
  <2> QED
    BY <2>6, <2>7
<1>15. CASE Commit
  BY <1>15 DEF Commit, worker, Control, Token, OnlyReads
<1>16. CASE TreeChange
  BY <1>16 DEF TreeChange, worker, mailbox, Control, Token, OnlyReads
<1>17. CASE UNCHANGED vars
  BY <1>17 DEF vars, worker, mailbox, Control, Token, OnlyReads
<1> QED
  BY <1>1, <1>2, <1>3, <1>4, <1>6, <1>7, <1>8, <1>9, <1>10, <1>11, <1>12, <1>13, <1>14,
     <1>15, <1>16, <1>17 DEF Next, WorkerStep, Finished

-----------------------------------------------------------------------------
(* The reads under way, as operations and as events. *)

\* An empty queue holds no read.
LEMMA ReadEventsEmpty == ReadEvents(<<>>) = {} /\ Distinct(<<>>)
  BY DEF ReadEvents, Distinct

\* In a queue of reads, the reads are the events.
LEMMA ReadEventsMember ==
    ASSUME NEW queue \in Seq(EventType), OnlyReads(queue), NEW seq
    PROVE  seq \in ReadEvents(queue) <=> \E i \in 1 .. Len(queue) : queue[i].seq = seq
  BY DEF ReadEvents, OnlyReads

\* bridge.send of a new read adds its chunk to the queue's reads.
LEMMA ReadEventsAppend ==
    ASSUME NEW queue \in Seq(EventType), OnlyReads(queue), Distinct(queue),
           NEW event \in EventType, event.kind = "Read",
           event.seq \notin ReadEvents(queue)
    PROVE  /\ ReadEvents(Append(queue, event)) = ReadEvents(queue) \cup {event.seq}
           /\ Distinct(Append(queue, event))
<1> DEFINE longer == Append(queue, event)
<1>1. /\ longer \in Seq(EventType) /\ Len(queue) \in Nat /\ Len(longer) = Len(queue) + 1
      /\ \A i \in 1 .. Len(queue) : longer[i] = queue[i]
      /\ longer[Len(queue) + 1] = event
  OBVIOUS
<1>2. OnlyReads(longer)
  BY <1>1 DEF OnlyReads
<1>3. ASSUME NEW seq
      PROVE  seq \in ReadEvents(longer) <=> seq \in ReadEvents(queue) \cup {event.seq}
  <2>1. (\E i \in 1 .. Len(longer) : longer[i].seq = seq)
           <=> (\E i \in 1 .. Len(queue) : queue[i].seq = seq) \/ seq = event.seq
    BY <1>1
  <2> HIDE DEF longer
  <2> QED
    BY <1>1, <1>2, <2>1, ReadEventsMember
<1>4. \A i \in 1 .. Len(queue) : queue[i].seq # event.seq
  BY ReadEventsMember
<1>5. Distinct(longer)
  BY <1>1, <1>4 DEF Distinct
<1> QED
  BY <1>3, <1>5

\* Handling the first read of a queue removes its chunk from the queue's reads.
LEMMA ReadEventsTail ==
    ASSUME NEW queue \in Seq(EventType), queue # <<>>, OnlyReads(queue), Distinct(queue)
    PROVE  /\ Head(queue).seq \in ReadEvents(queue)
           /\ ReadEvents(Tail(queue)) = ReadEvents(queue) \ {Head(queue).seq}
           /\ Distinct(Tail(queue))
<1> DEFINE rest == Tail(queue)
<1>1. /\ rest \in Seq(EventType) /\ Len(queue) \in Nat /\ Len(queue) >= 1
      /\ Len(rest) = Len(queue) - 1
      /\ \A i \in 1 .. Len(rest) : rest[i] = queue[i + 1]
      /\ Head(queue) = queue[1]
  OBVIOUS
<1>2. OnlyReads(rest)
  BY <1>1 DEF OnlyReads
<1>3. ASSUME NEW seq
      PROVE  seq \in ReadEvents(rest) <=> seq \in ReadEvents(queue) \ {Head(queue).seq}
  <2>1. (\E i \in 1 .. Len(rest) : rest[i].seq = seq)
           <=> (\E i \in 2 .. Len(queue) : queue[i].seq = seq)
    <3>1. ASSUME NEW i \in 2 .. Len(queue), queue[i].seq = seq
          PROVE  \E j \in 1 .. Len(rest) : rest[j].seq = seq
      <4>1. i - 1 \in 1 .. Len(rest) /\ rest[i - 1] = queue[i]
        BY <1>1
      <4> QED
        BY <3>1, <4>1
    <3>2. ASSUME NEW i \in 1 .. Len(rest), rest[i].seq = seq
          PROVE  \E j \in 2 .. Len(queue) : queue[j].seq = seq
      <4>1. i + 1 \in 2 .. Len(queue) /\ rest[i] = queue[i + 1]
        BY <1>1
      <4> QED
        BY <3>2, <4>1
    <3> QED
      BY <3>1, <3>2
  <2>2. \A i \in 2 .. Len(queue) : queue[i].seq # queue[1].seq
    BY <1>1 DEF Distinct
  <2>3. (\E i \in 2 .. Len(queue) : queue[i].seq = seq)
           <=> (\E i \in 1 .. Len(queue) : queue[i].seq = seq) /\ seq # queue[1].seq
    BY <1>1, <2>2
  <2> HIDE DEF rest
  <2> QED
    BY <1>1, <1>2, <2>1, <2>3, ReadEventsMember
<1>4. Head(queue).seq \in ReadEvents(queue)
  BY <1>1, ReadEventsMember
<1>5. Distinct(rest)
  BY <1>1 DEF Distinct
<1> QED
  BY <1>3, <1>4, <1>5

\* The engine's reads after a submission and after a completion.
LEMMA ReadOpsChange ==
    ASSUME TypeOK, \A op \in io : op = ReadOp(op.seq)
    PROVE  /\ \A op \in io : op.kind = "Read" /\ op.seq \in ReadOps
           /\ \A op \in io : io' = io \ {op} => ReadOps' = ReadOps \ {op.seq}
           /\ \A seq \in Nat : io' = io \cup {ReadOp(seq)} => ReadOps' = ReadOps \cup {seq}
           /\ io' = io => ReadOps' = ReadOps
<1>1. \A op \in io : op.kind = "Read"
  BY DEF ReadOp
<1>2. \A op \in io : op.seq \in ReadOps
  BY <1>1 DEF ReadOps
<1>3. ASSUME NEW op \in io, io' = io \ {op} PROVE ReadOps' = ReadOps \ {op.seq}
  BY <1>1, <1>3 DEF ReadOps
<1>4. ASSUME NEW seq \in Nat, io' = io \cup {ReadOp(seq)} PROVE ReadOps' = ReadOps \cup {seq}
  <2>1. ReadOp(seq).kind = "Read" /\ ReadOp(seq).seq = seq
    BY DEF ReadOp
  <2> QED
    BY <1>1, <1>4, <2>1 DEF ReadOps
<1> QED
  BY <1>1, <1>2, <1>3, <1>4 DEF ReadOps

\* The reads under way are finitely many, all below the issue cursor.
LEMMA OutstandingFinite ==
    ASSUME TypeOK, Window, phase = "Streaming"
    PROVE  /\ IsFiniteSet(Outstanding)
           /\ Cardinality(Outstanding) \in Nat
           /\ Outstanding \subseteq Nat
<1>1. issueCursor \in Nat
  BY DEF TypeOK, StreamType
<1>2. IsFiniteSet(0 .. issueCursor - 1)
  BY <1>1, FS_Interval
<1>3. Outstanding \subseteq 0 .. issueCursor - 1
  BY DEF Window
<1>4. IsFiniteSet(Outstanding)
  BY <1>2, <1>3, FS_Subset
<1>5. Cardinality(Outstanding) \in Nat
  BY <1>4, FS_CardinalityType
<1> QED
  BY <1>1, <1>3, <1>4, <1>5

\* Every step preserves the read window and its count.
LEMMA WindowStep ==
    ASSUME TypeOK, Control, Token, Window, Counting, [Next]_vars
    PROVE  Window' /\ Counting'
<1>1. CASE phase' # "Streaming"
  BY <1>1 DEF Window, Counting
<1>2. CASE phase' = "Streaming"
  <2> DEFINE relevant == <<phase, chunks, ready, nextSend, issueCursor, inflight,
                           io, bridge, batch>>
  <2>1. CASE UNCHANGED relevant
    <3>1. /\ ReadOps' = ReadOps
          /\ ReadEvents(bridge') = ReadEvents(bridge)
          /\ ReadEvents(batch') = ReadEvents(batch)
          /\ Distinct(bridge') <=> Distinct(bridge)
          /\ Distinct(batch') <=> Distinct(batch)
      BY <2>1 DEF ReadOps
    <3>2. Outstanding' = Outstanding
      BY <3>1 DEF Outstanding
    <3> QED
      BY <2>1, <3>1, <3>2 DEF Window, Counting
  <2>2. CASE HandleOpened \/ HandleOpenError \/ HandleDir
    <3>1. /\ io = {} /\ bridge = <<>> /\ Tail(batch) = <<>>
          /\ Answers \/ Submits \/ Begins
      BY <2>2, ResolutionStep
    <3>2. PICK event \in EventType : event.plan # <<>> /\ begin_streaming(event)
      BY <1>2, <3>1 DEF Answers, EndStream, DropPhase, Submits, Begins
    <3>3. /\ chunks' = event.plan /\ nextSend' = 0 /\ issueCursor' = 0 /\ inflight' = 0
          /\ ready' = Seeded(event.plan, event.prefetch)
          /\ io' = {} /\ batch' = <<>>
      BY <3>1, <3>2, Zenon DEF begin_streaming
    <3>4. bridge' = <<>>
      BY <2>2, <3>1 DEF HandleOpened, HandleOpenError, HandleDir, Handling, mailbox
    <3>5. /\ ReadOps' = {} /\ ReadEvents(bridge') = {} /\ ReadEvents(batch') = {}
          /\ Distinct(bridge') /\ Distinct(batch')
      BY <3>3, <3>4, ReadEventsEmpty DEF ReadOps
    <3>6. Outstanding' = {}
      BY <3>5 DEF Outstanding
    <3>7. event.plan \in Seq(ChunkKinds) /\ Len(event.plan) \in Nat /\ Len(event.plan) > 0
      BY <3>2, PlanType DEF EventType
    <3>8. /\ ready' \subseteq 0 .. Len(event.plan) - 1
          /\ \A i \in 0 .. Len(event.plan) - 1 : event.plan[i + 1] = "Inline" => i \in ready'
      BY <3>3 DEF Seeded
    <3>9. Window'
      BY <1>2, <3>3, <3>5, <3>6, <3>7, <3>8 DEF Window
    <3>10. Counting'
      BY <3>3, <3>6, FS_EmptySet, FilterAssumption DEF Counting
    <3> QED
      BY <3>9, <3>10
  <2> DEFINE O == ReadOps
             B == ReadEvents(bridge)
             T == ReadEvents(batch)
  <2>3. ASSUME phase = "Streaming"
        PROVE  /\ ~closed
               /\ \A op \in io : op = ReadOp(op.seq)
               /\ OnlyReads(bridge) /\ OnlyReads(batch)
               /\ batch \in Seq(EventType) /\ bridge \in Seq(EventType)
               /\ chunks \in Seq(ChunkKinds) /\ Len(chunks) \in Nat
               /\ nextSend \in Nat /\ issueCursor \in Nat /\ inflight \in Nat
    BY <2>3 DEF Control, Token, TypeOK, EnvType, StreamType, WorkerType
  <2>4. CASE OnScheduled
    <3>1. /\ phase = "Streaming" /\ batch = <<>> /\ batch' = bridge /\ bridge' = <<>>
          /\ UNCHANGED <<chunks, ready, nextSend, issueCursor, inflight, io>>
      BY <1>2, <2>4 DEF OnScheduled, Control, streaming
    <3>2. /\ ReadOps' = O /\ ReadEvents(batch') = B /\ ReadEvents(bridge') = T
          /\ Distinct(batch') /\ Distinct(bridge')
      BY <3>1, ReadEventsEmpty DEF ReadOps, Window
    <3>3. Outstanding' = Outstanding
      BY <3>2 DEF Outstanding
    <3> QED
      BY <1>2, <3>1, <3>2, <3>3 DEF Window, Counting
  <2>5. CASE HandleReadOk
    <3>1. /\ phase = "Streaming" /\ batch # <<>> /\ batch' = Tail(batch)
          /\ ready' = ready \cup {Head(batch).seq}
          /\ inflight' = IF inflight = 0 THEN 0 ELSE inflight - 1
          /\ UNCHANGED <<chunks, nextSend, issueCursor, io, bridge>>
      BY <1>2, <2>5 DEF HandleReadOk, Handling, NextEvent, mailbox
    <3>2. PICK seq : seq = Head(batch).seq
      OBVIOUS
    <3>3. /\ seq \in T /\ ReadEvents(batch') = T \ {seq}
          /\ Distinct(batch') /\ Distinct(bridge')
          /\ ReadOps' = O /\ ReadEvents(bridge') = B
      BY <2>3, <3>1, <3>2, ReadEventsTail DEF Window, ReadOps
    <3>4. Outstanding' = Outstanding \ {seq} /\ seq \in Outstanding
      BY <3>1, <3>3 DEF Outstanding, Window
    <3>5. Window'
      <4>1. seq \in 0 .. Len(chunks) - 1
        BY <2>3, <3>1, <3>4 DEF Window
      <4> HIDE DEF O, B, T
      <4> QED
        BY <1>2, <2>3, <3>1, <3>2, <3>3, <3>4, <4>1 DEF Window, O, B, T
    <3>6. Counting'
      <4>1. Cardinality(Outstanding) \in Nat /\ IsFiniteSet(Outstanding)
        BY <3>1, OutstandingFinite
      <4>2. Cardinality(Outstanding \ {seq}) = Cardinality(Outstanding) - 1
        BY <3>4, <4>1, FS_RemoveElement
      <4>3. Cardinality(Outstanding) # 0
        BY <3>4, <4>1, FS_EmptySet
      <4> QED
        BY <1>2, <2>3, <3>1, <3>4, <4>1, <4>2, <4>3, FilterAssumption DEF Counting
    <3> QED
      BY <3>5, <3>6
  <2>6. CASE HandleReadError
    BY <1>2, <2>6 DEF HandleReadError, EndStream, DropPhase
  <2>7. CASE FlushChunk
    <3>1. /\ phase = "Streaming" /\ nextSend \in ready /\ nextSend < Len(chunks) - 1
          /\ ready' = ready \ {nextSend} /\ nextSend' = nextSend + 1
          /\ UNCHANGED <<chunks, issueCursor, inflight, io, bridge, batch>>
      BY <1>2, <2>7 DEF FlushChunk, mailbox
    <3>2. /\ ReadOps' = O /\ ReadEvents(bridge') = B /\ ReadEvents(batch') = T
          /\ Distinct(batch') /\ Distinct(bridge') /\ Outstanding' = Outstanding
      BY <3>1 DEF ReadOps, Outstanding, Window
    <3> QED
      BY <1>2, <2>3, <3>1, <3>2 DEF Window, Counting
  <2>8. CASE IssueSkip
    <3>1. /\ phase = "Streaming" /\ issueCursor < Len(chunks)
          /\ issueCursor \in ready \/ chunks[issueCursor + 1] # "File"
          /\ issueCursor' = issueCursor + 1
          /\ UNCHANGED <<chunks, ready, nextSend, inflight, io, bridge, batch>>
      BY <1>2, <2>8 DEF IssueSkip, WindowOpen, NeedsRead, mailbox, worker
    <3>2. /\ ReadOps' = O /\ ReadEvents(bridge') = B /\ ReadEvents(batch') = T
          /\ Distinct(batch') /\ Distinct(bridge') /\ Outstanding' = Outstanding
      BY <3>1 DEF ReadOps, Outstanding, Window
    <3>3. issueCursor >= nextSend => issueCursor \in ready
      BY <2>3, <3>1 DEF Window, ChunkKinds
    <3> QED
      BY <1>2, <2>3, <3>1, <3>2, <3>3 DEF Window, Counting
  <2>9. CASE IssueRead
    <3>1. /\ phase = "Streaming" /\ inflight < MaxInflight /\ issueCursor < Len(chunks)
          /\ issueCursor \notin ready
          /\ issueCursor' = issueCursor + 1 /\ inflight' = inflight + 1
          /\ io' = io \cup {ReadOp(issueCursor)}
          /\ UNCHANGED <<chunks, ready, nextSend, bridge, batch>>
      BY <1>2, <2>9 DEF IssueRead, WindowOpen, NeedsRead, mailbox, worker
    <3>2. /\ ReadOps' = O \cup {issueCursor}
          /\ ReadEvents(bridge') = B /\ ReadEvents(batch') = T
          /\ Distinct(batch') /\ Distinct(bridge')
      BY <2>3, <3>1, ReadOpsChange DEF Window
    <3>3. /\ Outstanding' = Outstanding \cup {issueCursor}
          /\ issueCursor \notin Outstanding
      BY <2>3, <3>1, <3>2 DEF Outstanding, Window
    <3>4. Window'
      <4>1. issueCursor \notin O /\ issueCursor \notin B /\ issueCursor \notin T
        BY <3>3 DEF Outstanding
      <4> HIDE DEF O, B, T
      <4> QED
        BY <1>2, <2>3, <3>1, <3>2, <3>3, <4>1 DEF Window, O, B, T
    <3>5. Counting'
      <4>1. Cardinality(Outstanding) \in Nat /\ IsFiniteSet(Outstanding)
        BY <3>1, OutstandingFinite
      <4>2. Cardinality(Outstanding \cup {issueCursor}) = Cardinality(Outstanding) + 1
        BY <3>3, <4>1, FS_AddElement
      <4> QED
        BY <1>2, <2>3, <3>1, <3>3, <4>1, <4>2, FilterAssumption DEF Counting
    <3> QED
      BY <3>4, <3>5
  <2>10. CASE Complete
    <3>1. PICK op \in io :
              /\ io' = io \ {op}
              /\ \E event \in EventType :
                    event.kind = op.kind /\ event.seq = op.seq /\ Deliver(event)
      BY <2>10, DeliverCompletes
    <3>2. PICK event \in EventType :
              event.kind = op.kind /\ event.seq = op.seq /\ Deliver(event)
      BY <3>1
    <3>3. phase = "Streaming"
      BY <1>2, <3>2 DEF Deliver
    <3>4. /\ bridge' = Append(bridge, event)
          /\ UNCHANGED <<chunks, ready, nextSend, issueCursor, inflight, batch>>
      BY <2>3, <3>2, <3>3 DEF Deliver, streaming, worker
    <3>5. op.kind = "Read" /\ op.seq \in O /\ ReadOps' = O \ {op.seq}
      BY <2>3, <3>1, <3>3, ReadOpsChange
    <3>6. op.seq \notin B
      BY <3>3, <3>5 DEF Window
    <3>7. /\ ReadEvents(bridge') = B \cup {op.seq} /\ ReadEvents(batch') = T
          /\ Distinct(bridge') /\ Distinct(batch')
      BY <2>3, <3>2, <3>3, <3>4, <3>5, <3>6, ReadEventsAppend DEF Window
    <3>8. Outstanding' = Outstanding
      BY <3>5, <3>7 DEF Outstanding
    <3> QED
      BY <1>2, <3>3, <3>4, <3>5, <3>7, <3>8 DEF Window, Counting
  <2>11. CASE OnRequestHeadersReject \/ OnRequestHeadersResolve \/ FlushLast \/ OnStreamComplete
    BY <1>2, <2>11 DEF OnRequestHeadersReject, OnRequestHeadersResolve, FlushLast,
       OnStreamComplete, Respond, EndStream, DropPhase
  <2>12. CASE EventsHandled \/ FlushBlocked \/ FlushDone \/ IssueDone
    BY <2>1, <2>12 DEF EventsHandled, FlushBlocked, FlushDone, IssueDone, streaming, mailbox
  <2>13. CASE HighWatermark \/ LowWatermark \/ Commit \/ TreeChange
    BY <2>1, <2>13 DEF HighWatermark, LowWatermark, Commit, TreeChange, streaming,
       mailbox, worker
  <2>14. CASE UNCHANGED vars
    BY <2>1, <2>14 DEF vars, streaming, mailbox, worker
  <2> QED
    BY <2>2, <2>4, <2>5, <2>6, <2>7, <2>8, <2>9, <2>10, <2>11, <2>12, <2>13, <2>14
    DEF Next, WorkerStep, Finished
<1> QED
  BY <1>1, <1>2
-----------------------------------------------------------------------------
(* Wakeups. *)

\* Every step preserves the wakeups: push before commit, flush before issue.
LEMMA WakeupsStep ==
    ASSUME TypeOK, Control, Token, Window, Wakeups, [Next]_vars
    PROVE  Wakeups'
<1> USE DEF Wakeups
<1>1. commits \in Nat /\ uncommitted \in Nat /\ bridge \in Seq(EventType)
  BY DEF TypeOK, EnvType
<1>2. depth \in Nat /\ inflight \in Nat /\ issueCursor \in Nat /\ Len(chunks) \in Nat
  BY DEF TypeOK, StreamType
<1>3. CASE OnRequestHeadersReject
  <2>1. bridge' = <<>> /\ phase' = "Done" /\ pc' = "Idle"
    BY <1>3 DEF OnRequestHeadersReject, Respond, EndStream, DropPhase, mailbox, Control
  <2> QED
    BY <2>1
<1>4. CASE OnRequestHeadersResolve
  <2>1. bridge' = <<>> /\ phase' = "ResolvingFile" /\ pc' = "Idle"
    BY <1>4 DEF OnRequestHeadersResolve, worker, mailbox, Control
  <2> QED
    BY <2>1
<1>5. CASE OnScheduled
  BY <1>5 DEF OnScheduled
<1>6. CASE HandleOpened \/ HandleOpenError \/ HandleDir
  <2>1. /\ Answers \/ Submits \/ Begins
        /\ bridge = <<>>
    BY <1>6, ResolutionStep
  <2>2. \/ pc' = "Idle" /\ phase' = "Done"
        \/ pc' \in {"Events", "InHeaders"}
    BY <2>1 DEF Answers, EndStream, DropPhase, Submits, NextEvent, Begins, begin_streaming
  <2>3. bridge' = bridge
    BY <1>6 DEF HandleOpened, HandleOpenError, HandleDir, Handling, mailbox
  <2> QED
    BY <2>1, <2>2, <2>3
<1>7. CASE HandleReadOk \/ HandleReadError
  <2>1. \/ pc' = "Idle" /\ phase' = "Done"
        \/ pc' = "Events"
    BY <1>7 DEF HandleReadOk, HandleReadError, EndStream, DropPhase, NextEvent
  <2>2. UNCHANGED <<bridge, commits, uncommitted>>
    BY <1>7 DEF HandleReadOk, HandleReadError, Handling, mailbox
  <2> QED
    BY <2>1, <2>2
<1>8. CASE EventsHandled
  BY <1>8 DEF EventsHandled, mailbox
<1>9. CASE FlushBlocked \/ FlushDone \/ FlushChunk
  <2>1. UNCHANGED <<bridge, commits, uncommitted>>
    BY <1>9 DEF FlushBlocked, FlushDone, FlushChunk, mailbox
  <2>2. \/ pc' = "Idle" /\ depth' > 0
        \/ pc' = "Issue" /\ nextSend' \notin ready'
        \/ pc' = "InData"
    <3>1. FlushBlocked => pc' = "Idle" /\ depth' > 0
      BY DEF FlushBlocked, streaming
    <3>2. FlushDone => pc' = "Issue" /\ nextSend' \notin ready'
      BY DEF FlushDone, streaming
    <3>3. FlushChunk => pc' = "InData"
      BY DEF FlushChunk
    <3> QED
      BY <1>9, <3>1, <3>2, <3>3
  <2> QED
    BY <1>2, <2>1, <2>2
<1>10. CASE FlushLast
  BY <1>10 DEF FlushLast, EndStream, DropPhase, mailbox
<1>11. CASE IssueSkip \/ IssueRead
  BY <1>11 DEF IssueSkip, IssueRead, worker, mailbox
<1>12. CASE IssueDone
  <2>1. issueCursor <= Len(chunks)
    BY <1>12 DEF IssueDone, Control, Window
  <2>2. issueCursor = Len(chunks) \/ inflight >= MaxInflight
    BY <1>2, <1>12, <2>1, FilterAssumption DEF IssueDone, WindowOpen
  <2> QED
    BY <1>12, <2>2 DEF IssueDone, mailbox, streaming
<1>13. CASE HighWatermark
  BY <1>2, <1>13 DEF HighWatermark, worker, mailbox
<1>14. CASE LowWatermark
  <2>1. CASE phase = "Streaming" /\ depth' = 0
    <3>1. commits' + uncommitted' > 0 /\ UNCHANGED <<ready, nextSend, pc>>
      BY <1>1, <1>14, <2>1 DEF LowWatermark, worker
    <3> QED
      BY <1>1, <1>14, <3>1 DEF LowWatermark
  <2>2. CASE ~(phase = "Streaming" /\ depth' = 0)
    BY <1>14, <2>2 DEF LowWatermark, worker
  <2> QED
    BY <2>1, <2>2
<1>15. CASE OnStreamComplete
  BY <1>15 DEF OnStreamComplete, DropPhase, worker
<1>16. CASE Complete
  <2>1. PICK event : Deliver(event)
    BY <1>16, DeliverCompletes
  <2>2. CASE closed
    BY <2>1, <2>2 DEF Deliver, worker, streaming
  <2>3. CASE ~closed
    <3>1. uncommitted' + commits' > 0
      BY <1>1, <2>1, <2>3 DEF Deliver
    <3> QED
      BY <2>1, <3>1 DEF Deliver, worker, streaming
  <2> QED
    BY <2>2, <2>3
<1>17. CASE Commit
  <2>1. ~closed => uncommitted' + commits' = uncommitted + commits
    BY <1>1, <1>17 DEF Commit
  <2> QED
    BY <1>17, <2>1 DEF Commit, worker, streaming, Control
<1>18. CASE TreeChange
  BY <1>18 DEF TreeChange, worker, streaming, mailbox
<1>19. CASE UNCHANGED vars
  BY <1>19 DEF vars, worker, streaming, mailbox
<1> QED
  BY <1>3, <1>4, <1>5, <1>6, <1>7, <1>8, <1>9, <1>10, <1>11, <1>12, <1>13, <1>14,
     <1>15, <1>16, <1>17, <1>18, <1>19 DEF Next, WorkerStep, Finished

-----------------------------------------------------------------------------
(* The inert handle and the watermark depth. *)

\* Every step keeps the inert handle's only chunk in ready until it is sent.
LEMMA InertStep ==
    ASSUME TypeOK, Control, Token, Window, Wakeups, InertSeeded, [Next]_vars
    PROVE  InertSeeded'
<1> SUFFICES ASSUME handle' = "Inert"
             PROVE  InertSeeded'
  BY DEF InertSeeded
<1>1. CASE HandleOpened \/ HandleOpenError \/ HandleDir
  <2>1. /\ Answers \/ Submits \/ Begins
        /\ Resolving /\ io = {} /\ bridge = <<>> /\ Tail(batch) = <<>>
    BY <1>1, ResolutionStep
  <2>2. handle # "Inert"
    BY <2>1 DEF InertSeeded, Resolving
  <2>3. PICK event \in EventType : event.plan # <<>> /\ begin_streaming(event)
    BY <2>1, <2>2 DEF Answers, EndStream, DropPhase, Submits, streaming, Begins
  <2>4. event.prefetch /\ Len(event.plan) = 1
    BY <2>3, Zenon DEF begin_streaming
  <2>5. /\ phase' = "Streaming" /\ chunks' = event.plan /\ nextSend' = 0
        /\ ready' = Seeded(event.plan, event.prefetch)
        /\ io' = {} /\ batch' = <<>>
    BY <2>1, <2>3, Zenon DEF begin_streaming
  <2>6. 0 \in Seeded(event.plan, event.prefetch)
    BY <2>4 DEF Seeded
  <2>7. bridge' = <<>>
    BY <1>1, <2>1 DEF HandleOpened, HandleOpenError, HandleDir, Handling, mailbox
  <2> QED
    BY <2>4, <2>5, <2>6, <2>7 DEF InertSeeded
<1>2. CASE OnRequestHeadersReject \/ FlushLast \/ OnStreamComplete
  BY <1>2 DEF OnRequestHeadersReject, FlushLast, OnStreamComplete, Respond, EndStream,
     DropPhase
<1>3. CASE OnRequestHeadersResolve
  BY <1>3 DEF OnRequestHeadersResolve, SubmitFirst, streaming, InertSeeded
<1>4. CASE HandleReadOk \/ HandleReadError
  BY <1>4 DEF HandleReadOk, HandleReadError, Handling, EndStream, DropPhase, streaming,
     InertSeeded
<1>5. CASE OnScheduled
  BY <1>5 DEF OnScheduled, streaming, InertSeeded
<1>6. CASE FlushChunk
  <2>1. handle = "Inert" /\ nextSend < Len(chunks) - 1
    BY <1>6 DEF FlushChunk
  <2>2. nextSend = 0 /\ Len(chunks) = 1
    BY <2>1 DEF InertSeeded
  <2>3. ~(0 < 1 - 1)
    OBVIOUS
  <2> QED
    BY <2>1, <2>2, <2>3
<1>7. CASE IssueRead
  <2>1. handle = "Inert" /\ pc = "Issue"
    BY <1>7 DEF IssueRead
  <2> QED
    BY <2>1 DEF InertSeeded, Wakeups
<1>8. CASE Complete
  BY <1>8, DeliverCompletes DEF InertSeeded, Deliver, streaming
<1>9. CASE EventsHandled \/ FlushBlocked \/ FlushDone \/ IssueDone \/ IssueSkip
  BY <1>9 DEF EventsHandled, FlushBlocked, FlushDone, IssueDone, IssueSkip, streaming,
     mailbox, worker, InertSeeded
<1>10. CASE HighWatermark \/ LowWatermark \/ Commit \/ TreeChange
  BY <1>10 DEF HighWatermark, LowWatermark, Commit, TreeChange, streaming, mailbox,
     worker, InertSeeded
<1>11. CASE UNCHANGED vars
  BY <1>11 DEF vars, streaming, mailbox, worker, InertSeeded
<1> QED
  BY <1>1, <1>2, <1>3, <1>4, <1>5, <1>6, <1>7, <1>8, <1>9, <1>10, <1>11
  DEF Next, WorkerStep, Finished

\* Every step keeps the watermark depth within Envoy's outstanding watermarks.
LEMMA HeldStep ==
    ASSUME TypeOK, Control, Token, Held, [Next]_vars
    PROVE  Held'
<1>1. depth \in Nat /\ wm \in Nat
  BY DEF TypeOK, StreamType, EnvType
<1>2. CASE HandleOpened \/ HandleOpenError \/ HandleDir
  <2>1. Resolving /\ (Answers \/ Submits \/ Begins)
    BY <1>2, ResolutionStep
  <2>2. wm' = wm
    BY <1>2 DEF HandleOpened, HandleOpenError, HandleDir, Handling, downstream
  <2>3. depth' = 0
    BY <2>1 DEF Answers, EndStream, DropPhase, Submits, streaming, Begins, begin_streaming,
       Held, Resolving
  <2> QED
    BY <1>1, <2>2, <2>3 DEF Held
<1>3. CASE OnRequestHeadersReject \/ FlushLast \/ OnStreamComplete
  <2>1. depth' = 0 /\ wm' = wm
    BY <1>3 DEF OnRequestHeadersReject, FlushLast, OnStreamComplete, Respond, EndStream,
       DropPhase, downstream
  <2> QED
    BY <1>1, <2>1 DEF Held
<1>4. CASE OnRequestHeadersResolve
  BY <1>4 DEF OnRequestHeadersResolve, SubmitFirst, streaming, downstream, Held
<1>5. CASE HandleReadOk \/ HandleReadError
  <2>1. depth' = 0 \/ UNCHANGED <<depth, phase>>
    BY <1>5 DEF HandleReadOk, HandleReadError, EndStream, DropPhase, streaming
  <2>2. wm' = wm
    BY <1>5 DEF HandleReadOk, HandleReadError, Handling, downstream
  <2> QED
    BY <1>1, <2>1, <2>2 DEF Held
<1>6. CASE HighWatermark
  BY <1>1, <1>6 DEF HighWatermark, Held
<1>7. CASE LowWatermark
  BY <1>1, <1>7 DEF LowWatermark, Held
<1>8. CASE Complete
  BY <1>8, DeliverCompletes DEF Deliver, streaming, downstream, Held
<1>9. CASE EventsHandled \/ FlushBlocked \/ FlushDone \/ FlushChunk \/ OnScheduled
  BY <1>9 DEF EventsHandled, FlushBlocked, FlushDone, FlushChunk, OnScheduled, streaming,
     downstream, Held
<1>10. CASE IssueDone \/ IssueSkip \/ IssueRead \/ Commit \/ TreeChange
  BY <1>10 DEF IssueDone, IssueSkip, IssueRead, Commit, TreeChange, streaming,
     downstream, Held
<1>11. CASE UNCHANGED vars
  BY <1>11 DEF vars, streaming, downstream, Held
<1> QED
  BY <1>2, <1>3, <1>4, <1>5, <1>6, <1>7, <1>8, <1>9, <1>10, <1>11
  DEF Next, WorkerStep, Finished
-----------------------------------------------------------------------------
(* What is on the wire. *)

\* WellFormedResponse of a sequence of messages, which has not ended yet.
Formed(queue) ==
    \A i \in 1 .. Len(queue) :
        /\ queue[i].end => i = Len(queue)
        /\ i = 1 <=> queue[i].kind \in {"Response", "Headers"}
        /\ queue[i].kind = "Response" => queue[i].end
        /\ queue[i].kind = "Data" => queue[i].seq = i - 2

\* A head alone is a well-formed response.
LEMMA FormedHead ==
    ASSUME NEW message \in MessageType, message.kind \in {"Response", "Headers"},
           message.kind = "Response" => message.end
    PROVE  Formed(Append(<<>>, message))
<1>1. /\ Len(Append(<<>>, message)) = 1
      /\ Append(<<>>, message)[1] = message
  OBVIOUS
<1> QED
  BY <1>1 DEF Formed

\* Appending the next chunk, or the cut, to an open response keeps it well formed.
LEMMA FormedAppend ==
    ASSUME NEW queue \in Seq(MessageType), queue # <<>>, Formed(queue),
           ~queue[Len(queue)].end,
           NEW message \in MessageType, message.kind \in {"Data", "Cut"},
           message.kind = "Data" => message.seq = Len(queue) - 1
    PROVE  Formed(Append(queue, message))
<1> DEFINE longer == Append(queue, message)
<1>1. /\ Len(queue) \in Nat /\ Len(queue) >= 1 /\ Len(longer) = Len(queue) + 1
      /\ \A i \in 1 .. Len(queue) : longer[i] = queue[i]
      /\ longer[Len(queue) + 1] = message
  OBVIOUS
<1>2. ASSUME NEW i \in 1 .. Len(queue)
      PROVE  /\ ~longer[i].end
             /\ i = 1 <=> longer[i].kind \in {"Response", "Headers"}
             /\ longer[i].kind = "Response" => longer[i].end
             /\ longer[i].kind = "Data" => longer[i].seq = i - 2
  <2>1. longer[i] = queue[i]
    BY <1>1
  <2>2. /\ queue[i].end => i = Len(queue)
        /\ i = 1 <=> queue[i].kind \in {"Response", "Headers"}
        /\ queue[i].kind = "Response" => queue[i].end
        /\ queue[i].kind = "Data" => queue[i].seq = i - 2
    BY DEF Formed
  <2> HIDE DEF longer
  <2> QED
    BY <2>1, <2>2
<1>3. /\ Len(queue) + 1 # 1
      /\ message.kind \notin {"Response", "Headers"}
      /\ message.kind = "Data" => message.seq = (Len(queue) + 1) - 2
  BY <1>1
<1> HIDE DEF longer
<1>4. \A i \in 1 .. Len(longer) : i \in 1 .. Len(queue) \/ i = Len(queue) + 1
  BY <1>1
<1>5. Formed(longer)
  BY <1>1, <1>2, <1>3, <1>4 DEF Formed
<1> QED
  BY <1>5 DEF longer

\* The fields of a message.
LEMMA MessageFields ==
    ASSUME NEW kind \in {"Response", "Headers", "Data", "Cut"}, NEW seq \in Nat,
           NEW end \in BOOLEAN
    PROVE  /\ Message(kind, seq, end) \in MessageType
           /\ Message(kind, seq, end).kind = kind
           /\ Message(kind, seq, end).seq = seq
           /\ Message(kind, seq, end).end <=> end
<1>1. Message(kind, seq, end) \in MessageType
  BY DEF Message, MessageType
<1>2. Message(kind, seq, end).kind = kind /\ Message(kind, seq, end).seq = seq
  BY DEF Message
<1>3. Message(kind, seq, end).end <=> end
  BY DEF Message
<1> QED
  BY <1>1, <1>2, <1>3

\* Every step preserves the form of the response on the wire.
LEMMA WireStep ==
    ASSUME TypeOK, Control, Token, Window, OnWire, WellFormedResponse, BodyComplete,
           [Next]_vars
    PROVE  OnWire' /\ WellFormedResponse' /\ BodyComplete'
<1>1. /\ wire \in Seq(MessageType) /\ Len(wire) \in Nat /\ reply.body \in Nat
      /\ nextSend \in Nat /\ Len(chunks) \in Nat
  BY DEF TypeOK, StreamType, WorkerType, ReplyType
<1>2. WellFormedResponse <=> Formed(wire)
  BY DEF WellFormedResponse, Formed
<1>3. Formed(wire') => WellFormedResponse'
  BY DEF WellFormedResponse, Formed
<1>4. CASE /\ UNCHANGED sent
           /\ phase' \in {"Streaming", "Done"} => phase' = "Done" \/ phase = "Streaming"
           /\ phase' = "Streaming" => UNCHANGED <<nextSend, chunks>>
           /\ phase' \notin {"Streaming", "Done"} => phase \notin {"Streaming", "Done"}
  <2>1. wire' = wire /\ reply' = reply
    BY <1>4 DEF sent
  <2> QED
    BY <1>2, <1>3, <1>4, <2>1 DEF OnWire, BodyComplete, Ended
<1>5. ASSUME wire = <<>>, Answers
      PROVE  OnWire' /\ WellFormedResponse' /\ BodyComplete'
  <2>1. PICK kind \in {"Response", "Headers"} : \E head \in ReplyType :
            head.body = 0 /\ EndStream(Message(kind, 0, TRUE), head)
    BY <1>5 DEF Answers
  <2>2. PICK head \in ReplyType :
            head.body = 0 /\ EndStream(Message(kind, 0, TRUE), head)
    BY <2>1
  <2>3. PICK message : message = Message(kind, 0, TRUE)
    OBVIOUS
  <2>6. message \in MessageType /\ message.kind = kind /\ message.end
    <3>1. message.end
      BY <2>3, Zenon DEF Message
    <3>2. message.kind = kind
      BY <2>3, Zenon DEF Message
    <3>3. message \in MessageType
      BY <2>3 DEF Message, MessageType
    <3> QED
      BY <3>1, <3>2, <3>3
  <2>4. wire' = Append(<<>>, message) /\ reply' = head /\ phase' = "Done"
    BY <1>5, <2>2, <2>3, Zenon DEF EndStream, DropPhase
  <2>5. Formed(wire') /\ Len(wire') = 1
    BY <2>4, <2>6, FormedHead
  <2> QED
    BY <1>3, <2>2, <2>4, <2>5 DEF OnWire, BodyComplete
<1>6. CASE OnRequestHeadersReject
  <2>1. wire = <<>> /\ Answers
    BY <1>6, RespondAnswers, StatusType DEF OnRequestHeadersReject, OnWire, TypeOK, EnvType
  <2> QED
    BY <1>5, <2>1
<1>7. CASE HandleOpened \/ HandleOpenError \/ HandleDir
  <2>1. Resolving /\ (Answers \/ Submits \/ Begins)
    BY <1>7, ResolutionStep
  <2>2. wire = <<>>
    BY <2>1 DEF OnWire, Resolving
  <2>3. CASE Submits
    <3>1. phase' \notin {"Streaming", "Done"} /\ UNCHANGED sent
      BY <2>3 DEF Submits, NextEvent
    <3> QED
      BY <1>4, <2>1, <3>1 DEF Resolving
  <2>4. CASE Begins
    <3>1. PICK event \in EventType : event.plan # <<>> /\ begin_streaming(event)
      BY <2>4 DEF Begins
    <3>2. PICK message : message = Message("Headers", 0, FALSE)
      OBVIOUS
    <3>7. message \in MessageType /\ message.kind = "Headers" /\ ~message.end
      BY <3>2, MessageFields, Zenon
    <3>3. /\ wire' = Append(<<>>, message) /\ phase' = "Streaming"
          /\ nextSend' = 0 /\ chunks' = event.plan
          /\ reply' = FileReply(event.path, event.plan)
      BY <2>2, <3>1, <3>2, Zenon DEF begin_streaming
    <3>4. reply'.body = Len(chunks')
      BY <3>3 DEF FileReply
    <3>5. Formed(wire') /\ Len(wire') = 1 /\ wire'[1] = message
      BY <3>3, <3>7, FormedHead
    <3>6. ~wire'[Len(wire')].end
      BY <3>5, <3>7
    <3> QED
      BY <1>3, <3>3, <3>4, <3>5, <3>6 DEF OnWire, BodyComplete, Ended
  <2> QED
    BY <1>5, <2>1, <2>2, <2>3, <2>4
<1>8. ASSUME phase = "Streaming", NEW message \in MessageType,
             message.kind \in {"Data", "Cut"},
             message.kind = "Data" => message.seq = nextSend,
             wire' = Append(wire, message)
      PROVE  /\ Formed(wire')
             /\ Len(wire') = nextSend + 2
             /\ wire'[Len(wire')] = message
  <2>1. Len(wire) = nextSend + 1 /\ ~wire[Len(wire)].end
    BY <1>8 DEF OnWire
  <2>2. Len(wire') = nextSend + 2 /\ wire'[Len(wire')] = message
    BY <1>1, <1>8, <2>1
  <2>3. wire # <<>> /\ (message.kind = "Data" => message.seq = Len(wire) - 1)
    BY <1>1, <1>8, <2>1
  <2>4. Formed(Append(wire, message))
    BY <1>1, <1>2, <1>8, <2>1, <2>3, FormedAppend
  <2> QED
    BY <1>8, <2>2, <2>4
<1>9. CASE HandleReadError
  <2>1. CASE phase = "Streaming"
    <3>1. PICK message : message = Message("Cut", 0, TRUE)
      OBVIOUS
    <3>4. message \in MessageType /\ message.kind = "Cut"
      BY <3>1, MessageFields, Zenon
    <3>2. wire' = Append(wire, message) /\ phase' = "Done"
      BY <1>9, <2>1, <3>1, Zenon DEF HandleReadError, EndStream, DropPhase
    <3>3. Formed(wire') /\ wire'[Len(wire')].kind = "Cut"
      BY <1>8, <2>1, <3>2, <3>4
    <3> QED
      BY <1>3, <3>2, <3>3 DEF OnWire, BodyComplete
  <2>2. CASE phase # "Streaming"
    <3>1. UNCHANGED sent /\ UNCHANGED phase
      BY <1>9, <2>2, Zenon DEF HandleReadError, NextEvent
    <3> QED
      BY <1>4, <2>2, <3>1
  <2> QED
    BY <2>1, <2>2
<1>10. CASE FlushChunk
  <2>1. PICK message : message = Message("Data", nextSend, FALSE)
    OBVIOUS
  <2>6. /\ message \in MessageType /\ message.kind = "Data"
        /\ message.seq = nextSend /\ ~message.end
    BY <1>1, <2>1, MessageFields, Zenon
  <2>2. /\ wire' = Append(wire, message) /\ nextSend' = nextSend + 1
        /\ UNCHANGED <<phase, chunks, reply>>
    BY <1>10, <2>1, Zenon DEF FlushChunk
  <2>3. phase = "Streaming"
    BY <1>10 DEF FlushChunk, Flushing, Control
  <2>4. Formed(wire') /\ Len(wire') = nextSend + 2 /\ ~wire'[Len(wire')].end
    BY <1>8, <2>2, <2>3, <2>6
  <2>5. Len(wire') = nextSend' + 1
    BY <1>1, <2>2, <2>4
  <2> QED
    BY <1>3, <2>2, <2>3, <2>4, <2>5 DEF OnWire, BodyComplete, Ended
<1>11. CASE FlushLast
  <2>1. PICK message : message = Message("Data", nextSend, TRUE)
    OBVIOUS
  <2>6. /\ message \in MessageType /\ message.kind = "Data"
        /\ message.seq = nextSend
    BY <1>1, <2>1, MessageFields, Zenon
  <2>2. wire' = Append(wire, message) /\ reply' = reply /\ phase' = "Done"
    BY <1>11, <2>1, Zenon DEF FlushLast, EndStream, DropPhase
  <2>3. phase = "Streaming" /\ nextSend = Len(chunks) - 1
    BY <1>11 DEF FlushLast, Flushing, Control
  <2>4. Formed(wire') /\ Len(wire') = nextSend + 2
    BY <1>8, <2>2, <2>3, <2>6
  <2>5. Len(wire') = reply'.body + 1
    BY <1>1, <2>2, <2>3, <2>4 DEF OnWire
  <2> QED
    BY <1>3, <2>2, <2>4, <2>5 DEF OnWire, BodyComplete
<1>12. CASE OnRequestHeadersResolve \/ OnStreamComplete
  BY <1>4, <1>12 DEF OnRequestHeadersResolve, OnStreamComplete, DropPhase, sent
<1>13. CASE HandleReadOk
  BY <1>4, <1>13 DEF HandleReadOk, NextEvent, sent
<1>14. CASE EventsHandled \/ FlushBlocked \/ FlushDone \/ OnScheduled
  BY <1>4, <1>14 DEF EventsHandled, FlushBlocked, FlushDone, OnScheduled, streaming, sent
<1>15. CASE IssueDone \/ IssueSkip \/ IssueRead
  BY <1>4, <1>15 DEF IssueDone, IssueSkip, IssueRead, streaming, sent
<1>16. CASE HighWatermark \/ LowWatermark \/ Commit \/ TreeChange
  BY <1>4, <1>16 DEF HighWatermark, LowWatermark, Commit, TreeChange, streaming, sent
<1>17. CASE Complete
  BY <1>4, <1>17, DeliverCompletes DEF Deliver, streaming, sent
<1>18. CASE UNCHANGED vars
  BY <1>4, <1>18 DEF vars, streaming, sent
<1> QED
  BY <1>6, <1>7, <1>9, <1>10, <1>11, <1>12, <1>13, <1>14, <1>15, <1>16, <1>17, <1>18
  DEF Next, WorkerStep, Finished
-----------------------------------------------------------------------------
(* The theorems. *)

Inv ==
    /\ Control /\ Token /\ Window /\ Counting /\ Wakeups /\ InertSeeded /\ Held
    /\ OnWire /\ WellFormedResponse /\ BodyComplete

\* The invariant holds when the filter is created.
LEMMA InvInit ==
    ASSUME Init
    PROVE  Inv
<1>1. Control /\ Token /\ Window /\ Counting
  BY DEF Init, Control, Token, Resolving, Window, Counting
<1>2. Wakeups /\ InertSeeded /\ Held /\ OnWire
  BY DEF Init, Wakeups, InertSeeded, Held, OnWire
<1>3. WellFormedResponse /\ BodyComplete
  BY DEF Init, WellFormedResponse, BodyComplete, Ended
<1> QED
  BY <1>1, <1>2, <1>3 DEF Inv

\* The invariant is inductive, relative to the types.
LEMMA InvStep ==
    ASSUME TypeOK, Inv, [Next]_vars
    PROVE  Inv'
<1>1. Control' /\ Token'
  BY ControlTokenStep DEF Inv
<1>2. Window' /\ Counting'
  BY WindowStep DEF Inv
<1>3. Wakeups' /\ InertSeeded' /\ Held'
  BY WakeupsStep, InertStep, HeldStep DEF Inv
<1>4. OnWire' /\ WellFormedResponse' /\ BodyComplete'
  BY WireStep DEF Inv
<1> QED
  BY <1>1, <1>2, <1>3, <1>4 DEF Inv

\* The inductive invariant of the stream: where the worker is, the single
\* operation of a resolving stream, the read window and its count, the wakeups
\* on their way and the prefix of the response that is on the wire.
THEOREM InvCorrect == Spec => []Inv
<1>1. Init => Inv
  BY InvInit
<1>2. TypeOK /\ Inv /\ [Next]_vars => Inv'
  BY InvStep
<1> QED
  BY <1>1, <1>2, TypeCorrect, PTL DEF Spec

\* handle_read's decrement matches pump's increment through every batch and
\* error: the in-flight count is the number of reads under way, which never
\* exceeds max_inflight_reads.
THEOREM ReadAccountingCorrect == Spec => []ReadAccounting
<1>1. Inv => ReadAccounting
  BY DEF Inv, Counting, ReadAccounting
<1> QED
  BY <1>1, InvCorrect, PTL

\* pump's two cursors: between next_send and issue_cursor every chunk is either
\* buffered in ready or being read, and never both.
THEOREM WindowCoveredCorrect == Spec => []WindowCovered
<1>1. Inv => WindowCovered
  <2> SUFFICES ASSUME Inv, phase = "Streaming", NEW i \in nextSend .. issueCursor - 1
               PROVE  (i \in ready) # (i \in Outstanding)
    BY DEF WindowCovered
  <2>1. i \in ready \cup Outstanding /\ ready \cap Outstanding = {}
    BY DEF Inv, Window
  <2> QED
    BY <2>1
<1> QED
  BY <1>1, InvCorrect, PTL

\* No lost wakeup: a stream that is neither answered nor held back by a
\* watermark has an operation in the engine or a commit on its way whenever the
\* worker is back in its event loop.  The invariant is needed in full: an idle
\* worker has issued all it may, so the chunk under the send cursor is being
\* read, and that read is in the engine or in a bridge that has a wakeup.
THEOREM NeverStrandedCorrect == Spec => []NeverStranded
<1>1. TypeOK /\ Inv => NeverStranded
  <2> SUFFICES ASSUME TypeOK, Inv, pc = "Idle", phase \notin {"Idle", "Done"}, depth = 0,
                      io = {}, ~(uncommitted + commits > 0)
               PROVE  FALSE
    BY DEF NeverStranded
  <2>1. batch = <<>> /\ bridge = <<>>
    BY DEF Inv, Control, Wakeups
  <2>2. phase = "Streaming"
    BY <2>1 DEF Inv, Token, Resolving, TypeOK, StreamType
  <2>3. uncommitted + commits = 0
    BY DEF TypeOK, EnvType
  <2>4. /\ nextSend \notin ready
        /\ issueCursor = Len(chunks) \/ inflight >= MaxInflight
    BY <2>2, <2>3 DEF Inv, Wakeups
  <2>5. Outstanding = {}
    BY <2>1, ReadEventsEmpty DEF Outstanding, ReadOps
  <2>6. inflight = 0
    BY <2>2, <2>5, FS_EmptySet DEF Inv, Counting
  <2>7. issueCursor = Len(chunks)
    BY <2>4, <2>6, FilterAssumption
  <2>8. nextSend \in nextSend .. issueCursor - 1
    BY <2>2, <2>7 DEF Inv, Window, TypeOK, StreamType
  <2> QED
    BY <2>2, <2>4, <2>5, <2>8 DEF Inv, Window
<1> QED
  BY <1>1, InvCorrect, TypeCorrect, PTL

\* The watermark hooks, reentrant ones included, never leave the stream held
\* back by more high watermarks than Envoy has outstanding.
THEOREM DepthNeverAheadCorrect == Spec => []DepthNeverAhead
<1>1. Inv => DepthNeverAhead
  BY DEF Inv, Held, DepthNeverAhead
<1> QED
  BY <1>1, InvCorrect, PTL

\* Until the stream is complete a resolving filter has exactly one open or
\* directory read somewhere, and any other filter has none: handle_opened and
\* handle_dir, which do not look at the phase, cannot answer twice.
THEOREM OneResolutionCorrect == Spec => []OneResolution
<1>1. TypeOK /\ Inv => OneResolution
  <2> DEFINE opens == {op \in io : op.kind # "Read"}
             Opened(queue) == {i \in 1 .. Len(queue) : queue[i].kind # "Read"}
  <2> SUFFICES ASSUME TypeOK, Inv, ~closed
               PROVE  Cardinality(opens) + Cardinality(Opened(bridge))
                        + Cardinality(Opened(batch))
                        = (IF phase \in {"ResolvingFile", "ResolvingIndex"} THEN 1 ELSE 0)
    BY DEF OneResolution
  <2>1. Opened(<<>>) = {}
    OBVIOUS
  <2>2. \A queue : Len(queue) = 1 /\ queue[1].kind # "Read" => Opened(queue) = {1}
    OBVIOUS
  <2>3. \A queue : OnlyReads(queue) => Opened(queue) = {}
    BY DEF OnlyReads
  <2>4. Cardinality({}) = 0 /\ Cardinality({1}) = 1
    BY FS_EmptySet, FS_Singleton
  <2> DEFINE total == Cardinality(opens) + Cardinality(Opened(bridge))
                        + Cardinality(Opened(batch))
  <2>5. CASE Resolving
    <3>1. ASSUME bridge = <<>>, batch = <<>>,
                 \E op \in io : io = {op} /\ op.kind # "Read"
          PROVE  total = 1
      <4>1. PICK op \in io : io = {op} /\ op.kind # "Read"
        BY <3>1
      <4>2. opens = {op} /\ Opened(bridge) = {} /\ Opened(batch) = {}
        BY <2>1, <3>1, <4>1
      <4>3. Cardinality({op}) = 1
        BY FS_Singleton
      <4>4. /\ Cardinality(opens) = 1
            /\ Cardinality(Opened(bridge)) = 0 /\ Cardinality(Opened(batch)) = 0
        BY <2>4, <4>2, <4>3, Zenon
      <4> QED
        BY <4>4
    <3>2. ASSUME io = {}, batch = <<>>, Len(bridge) = 1, bridge[1].kind # "Read"
          PROVE  total = 1
      <4>1. opens = {} /\ Opened(bridge) = {1} /\ Opened(batch) = {}
        BY <2>1, <2>2, <3>2
      <4>2. /\ Cardinality(opens) = 0
            /\ Cardinality(Opened(bridge)) = 1 /\ Cardinality(Opened(batch)) = 0
        BY <2>4, <4>1, Zenon
      <4> QED
        BY <4>2
    <3>3. ASSUME io = {}, bridge = <<>>, Len(batch) = 1, batch[1].kind # "Read"
          PROVE  total = 1
      <4>1. opens = {} /\ Opened(batch) = {1} /\ Opened(bridge) = {}
        BY <2>1, <2>2, <3>3
      <4>2. /\ Cardinality(opens) = 0
            /\ Cardinality(Opened(bridge)) = 0 /\ Cardinality(Opened(batch)) = 1
        BY <2>4, <4>1, Zenon
      <4> QED
        BY <4>2
    <3>4. total = 1
      BY <2>5, <3>1, <3>2, <3>3 DEF Inv, Token
    <3> QED
      BY <2>5, <3>4 DEF Resolving
  <2>6. CASE ~Resolving
    <3>1. opens = {} /\ Opened(bridge) = {} /\ Opened(batch) = {}
      <4>1. CASE phase = "Idle"
        BY <2>1, <4>1 DEF Inv, Control
      <4>2. CASE phase \in {"Streaming", "Done"}
        <5>1. \A op \in io : op.kind = "Read"
          BY <4>2 DEF Inv, Token, ReadOp
        <5>2. OnlyReads(bridge) /\ OnlyReads(batch)
          BY <4>2 DEF Inv, Token
        <5> QED
          BY <2>3, <5>1, <5>2
      <4> QED
        BY <2>6, <4>1, <4>2 DEF Resolving, TypeOK, StreamType
    <3>3. /\ Cardinality(opens) = 0
          /\ Cardinality(Opened(bridge)) = 0 /\ Cardinality(Opened(batch)) = 0
      BY <2>4, <3>1, Zenon
    <3>2. total = 0
      BY <3>3
    <3> QED
      BY <2>6, <3>2 DEF Resolving
  <2> QED
    BY <2>5, <2>6
<1> QED
  BY <1>1, InvCorrect, TypeCorrect, PTL

\* One response on the wire, in order and complete: a head, then chunks 0, 1,
\* 2, ... with nothing after the end, and every announced chunk unless a read
\* failed.
THEOREM ResponseCorrect == Spec => []ResponseExact
<1>1. Inv => ResponseExact
  BY DEF Inv, ResponseExact
<1> QED
  BY <1>1, InvCorrect, PTL

\* No read names the inert handle of a fully prefetched file.
THEOREM InertNeverReadCorrect == Spec => []InertNeverRead
<1>1. Inv => InertNeverRead
  <2> SUFFICES ASSUME Inv, handle = "Inert"
               PROVE  Outstanding = {}
    BY DEF InertNeverRead
  <2>1. io = {} /\ bridge = <<>> /\ batch = <<>>
    BY DEF Inv, InertSeeded
  <2> QED
    BY <2>1, ReadEventsEmpty DEF Outstanding, ReadOps
<1> QED
  BY <1>1, InvCorrect, PTL

-----------------------------------------------------------------------------
(* The resolution of a request over a document root that stands still. *)

\* The path of a queue that is being opened, and the rest of the queue: no file was
\* found before it.
Opening(queue, path, rest) ==
    \E k \in 1 .. Len(queue) :
        /\ path = queue[k]
        /\ Len(rest) = Len(queue) - k
        /\ \A i \in 1 .. Len(rest) : rest[i] = queue[k + i]
        /\ \A j \in 1 .. k - 1 : tree[queue[j]] # "File"

NoFile(queue) == \A j \in 1 .. Len(queue) : tree[queue[j]] # "File"

\* The precompressed candidates of the request.
Encoded == IF request.trailingSlash THEN <<>> ELSE request.accepted

\* The request is for a directory, and for what is in it.
Entered ==
    /\ NoFile(Encoded)
    /\ tree[Identity] = "Dir"
    /\ request.trailingSlash \/ ~config.redirect
    /\ config.directory # "Deny"

\* The operation of a resolving stream is the one its phase calls for.
Asked(op, stage, rest) ==
    /\ op.kind = "Open" =>
          \/ stage = "ResolvingFile" /\ Opening(build_file_candidates, op.path, rest)
          \/ stage = "ResolvingIndex" /\ Entered /\ Opening(config.indexFiles, op.path, rest)
    /\ op.kind = "Dir" =>
          Entered /\ NoFile(config.indexFiles) /\ config.directory = "Listing"

\* So is its event, which says what the document root holds.
Told(event, stage, rest) ==
    /\ Asked(event, stage, rest)
    /\ event.kind = "Open" => event.result = tree[event.path]
    /\ event.kind = "Dir" => event.result \in {"Ok"} \cup IoErrors

\* How far the resolution has come, as long as the document root stands still.
Traced ==
    (treeChanges = 0 /\ Resolving) =>
        /\ \A op \in io : Asked(op, phase, pending)
        /\ \A i \in 1 .. Len(bridge) : Told(bridge[i], phase, pending)
        /\ \A i \in 1 .. Len(batch) : Told(batch[i], phase, pending)

\* The first path of a queue is opened first.
LEMMA FirstOpening ==
    ASSUME NEW queue \in Seq(Paths), queue # <<>>
    PROVE  Opening(queue, Head(queue), Tail(queue))
<1>1. PICK n \in Nat : n = Len(queue) /\ n >= 1
  OBVIOUS
<1>2. Len(Tail(queue)) = n - 1 /\ \A i \in 1 .. n - 1 : Tail(queue)[i] = queue[1 + i]
  BY <1>1
<1>3. Head(queue) = queue[1] /\ 1 \in 1 .. Len(queue)
  BY <1>1
<1> QED
  BY <1>1, <1>2, <1>3 DEF Opening

\* After a path that is no file, the next one.
LEMMA NextOpening ==
    ASSUME NEW queue \in Seq(Paths), NEW path, NEW rest \in Seq(Paths), rest # <<>>,
           Opening(queue, path, rest), tree[path] # "File"
    PROVE  Opening(queue, Head(rest), Tail(rest))
<1>1. PICK n \in Nat, m \in Nat : n = Len(queue) /\ m = Len(rest) /\ m >= 1
  OBVIOUS
<1>2. PICK k \in 1 .. n : /\ path = queue[k] /\ m = n - k
                          /\ \A i \in 1 .. m : rest[i] = queue[k + i]
                          /\ \A j \in 1 .. k - 1 : tree[queue[j]] # "File"
  BY <1>1 DEF Opening
<1>3. k + 1 \in 1 .. n /\ Head(rest) = queue[k + 1]
  <2>1. k + 1 \in 1 .. n /\ 1 \in 1 .. m
    BY <1>1, <1>2
  <2>2. Head(rest) = rest[1]
    BY <1>1
  <2> QED
    BY <1>2, <2>1, <2>2
<1>4. Len(Tail(rest)) = n - (k + 1)
  <2>1. Len(Tail(rest)) = m - 1
    BY <1>1
  <2> QED
    BY <1>2, <2>1
<1>5. ASSUME NEW i \in 1 .. Len(Tail(rest)) PROVE Tail(rest)[i] = queue[(k + 1) + i]
  <2>1. i \in Nat /\ i + 1 \in 1 .. m /\ Tail(rest)[i] = rest[i + 1]
    BY <1>1, <1>2, <1>4
  <2>2. rest[i + 1] = queue[k + (i + 1)]
    BY <1>2, <2>1
  <2>3. k + (i + 1) = (k + 1) + i
    BY <2>1
  <2> QED
    BY <2>1, <2>2, <2>3
<1>6. \A j \in 1 .. (k + 1) - 1 : tree[queue[j]] # "File"
  <2>1. \A j \in 1 .. (k + 1) - 1 : j \in 1 .. k - 1 \/ j = k
    OBVIOUS
  <2> QED
    BY <1>2, <2>1
<1> QED
  BY <1>1, <1>3, <1>4, <1>5, <1>6 DEF Opening

\* Nothing is left after the last path.
LEMMA LastOpening ==
    ASSUME NEW queue \in Seq(Paths), NEW path, Opening(queue, path, <<>>)
    PROVE  /\ path = queue[Len(queue)]
           /\ tree[path] # "File" => NoFile(queue)
           /\ \A j \in 1 .. Len(queue) - 1 : tree[queue[j]] # "File"
<1>1. PICK n \in Nat : n = Len(queue)
  OBVIOUS
<1>2. PICK k \in 1 .. n : /\ path = queue[k] /\ 0 = n - k
                          /\ \A j \in 1 .. k - 1 : tree[queue[j]] # "File"
  BY <1>1 DEF Opening
<1>3. k = n
  BY <1>2
<1>4. \A j \in 1 .. n : j \in 1 .. n - 1 \/ j = n
  BY <1>1
<1> QED
  BY <1>1, <1>2, <1>3, <1>4 DEF NoFile

\* A file that is found is the first one of its queue.
LEMMA FileOpening ==
    ASSUME NEW queue \in Seq(Paths), NEW k \in 1 .. Len(queue), tree[queue[k]] = "File",
           \A j \in 1 .. k - 1 : tree[queue[j]] # "File"
    PROVE  queue[k] \in FirstFile(queue)
<1>1. \A j \in 1 .. Len(queue) : tree[queue[j]] = "File" => k <= j
  <2>1. \A j \in 1 .. Len(queue) : j \in 1 .. k - 1 \/ k <= j
    OBVIOUS
  <2> QED
    BY <2>1
<1> QED
  BY <1>1 DEF FirstFile

\* No file, no first one.
LEMMA NoFirstFile == ASSUME NEW queue, NoFile(queue) PROVE FirstFile(queue) = {}
  BY DEF NoFile, FirstFile

\* The candidates are the precompressed ones and then the path itself.
LEMMA Candidates ==
    ASSUME TypeOK
    PROVE  /\ Encoded \in Seq(EncodedPaths) /\ Encoded \in Seq(Paths)
           /\ build_file_candidates \in Seq(Paths) /\ build_file_candidates # <<>>
           /\ Len(build_file_candidates) = Len(Encoded) + 1
           /\ \A i \in 1 .. Len(Encoded) : build_file_candidates[i] = Encoded[i]
           /\ build_file_candidates[Len(Encoded) + 1] = Identity
<1>1. PICK encoded \in Seq(EncodedPaths) : encoded = Encoded
  <2>1. request.accepted \in Seq(EncodedPaths)
    BY DEF TypeOK, EnvType, RequestType
  <2>2. <<>> \in Seq(EncodedPaths)
    OBVIOUS
  <2>3. Encoded \in Seq(EncodedPaths)
    BY <2>1, <2>2, Zenon DEF Encoded
  <2> QED
    BY <2>3, Zenon
<1>2. EncodedPaths \subseteq Paths /\ Identity \in Paths
  BY DEF Paths
<1>3. build_file_candidates = encoded \o <<Identity>>
  BY <1>1 DEF build_file_candidates, Encoded
<1>4. encoded \in Seq(Paths) /\ <<Identity>> \in Seq(Paths)
  BY <1>2
<1>5. PICK n \in Nat : n = Len(encoded)
  OBVIOUS
<1>6. /\ encoded \o <<Identity>> \in Seq(Paths)
      /\ Len(encoded \o <<Identity>>) = n + 1
      /\ \A i \in 1 .. n : (encoded \o <<Identity>>)[i] = encoded[i]
      /\ (encoded \o <<Identity>>)[n + 1] = Identity
  BY <1>4, <1>5
<1> QED
  BY <1>1, <1>3, <1>4, <1>5, <1>6

\* An answer's head, as ReplyMatchesTree looks at it.
Matches(head) == [path |-> head.path, status |-> head.status] \in Replies

\* With a trailing slash there is no precompressed candidate.
LEMMA EncodedFiles == (IF request.trailingSlash THEN {} ELSE FirstFile(request.accepted))
                        = FirstFile(Encoded)
<1>1. FirstFile(<<>>) = {}
  BY DEF FirstFile
<1> QED
  BY <1>1 DEF Encoded

\* Replies, by what the resolution finds.
LEMMA RepliesOf ==
    /\ \A path \in FirstFile(Encoded) : Matches([path |-> path, status |-> 200])
    /\ FirstFile(Encoded) = {} =>
         /\ tree[Identity] = "File" => Matches([path |-> Identity, status |-> 200])
         /\ tree[Identity] \notin {"File", "Dir"} =>
               Matches([path |-> Identity, status |-> status_for_io_error(tree[Identity])])
         /\ tree[Identity] = "Dir" =>
              IF ~request.trailingSlash /\ config.redirect
              THEN Matches([path |-> Identity, status |-> 301])
              ELSE IF config.directory = "Deny"
              THEN Matches([path |-> Identity, status |-> 403])
              ELSE /\ \A path \in FirstFile(config.indexFiles) :
                         Matches([path |-> path, status |-> 200])
                   /\ FirstFile(config.indexFiles) = {} =>
                        \A status \in IF config.directory = "Index" THEN {404} ELSE ListingStatuses :
                            Matches([path |-> Identity, status |-> status])
<1> DEFINE encoded == FirstFile(Encoded)
           index == FirstFile(config.indexFiles)
           rest == [path : {Identity}, status :
                      IF tree[Identity] # "Dir" THEN {status_for_io_error(tree[Identity])}
                      ELSE IF ~request.trailingSlash /\ config.redirect THEN {301}
                      ELSE IF config.directory = "Deny" THEN {403}
                      ELSE IF index # {} THEN {}
                      ELSE IF config.directory = "Index" THEN {404}
                      ELSE ListingStatuses]
           found == [path : IF tree[Identity] = "Dir" /\ (request.trailingSlash \/ ~config.redirect)
                               /\ config.directory # "Deny" THEN index ELSE {},
                     status : {200}]
<1>1. Replies = IF encoded # {} THEN [path : encoded, status : {200}]
                ELSE IF tree[Identity] = "File" THEN [path : {Identity}, status : {200}]
                ELSE rest \cup found
  <2> DEFINE Of(e) == IF e # {} THEN [path : e, status : {200}]
                      ELSE IF tree[Identity] = "File" THEN [path : {Identity}, status : {200}]
                      ELSE rest \cup found
  <2>1. Replies = Of(IF request.trailingSlash THEN {} ELSE FirstFile(request.accepted))
    BY Zenon DEF Replies
  <2>2. \A e, f : e = f => Of(e) = Of(f)
    OBVIOUS
  <2> HIDE DEF Of
  <2>3. Replies = Of(encoded)
    BY <2>1, <2>2, EncodedFiles, Zenon
  <2> QED
    BY <2>3, Zenon DEF Of
<1>2. \A head : Matches(head) <=> [path |-> head.path, status |-> head.status] \in Replies
  BY DEF Matches
<1>3. ASSUME NEW path \in encoded PROVE Matches([path |-> path, status |-> 200])
  <2>1. Replies = [path : encoded, status : {200}]
    BY <1>1, Zenon
  <2> HIDE DEF encoded
  <2> QED
    BY <2>1 DEF Matches
<1>4. ASSUME encoded = {}, tree[Identity] = "File"
      PROVE  Matches([path |-> Identity, status |-> 200])
  BY <1>1, <1>2, <1>4
<1>5. ASSUME encoded = {}, tree[Identity] # "File",
             NEW status, [path |-> Identity, status |-> status] \in rest
      PROVE  Matches([path |-> Identity, status |-> status])
  <2> HIDE DEF encoded, index, rest, found
  <2> QED
    BY <1>1, <1>2, <1>5
<1>6. ASSUME encoded = {}, tree[Identity] # "File",
             NEW path, [path |-> path, status |-> 200] \in found
      PROVE  Matches([path |-> path, status |-> 200])
  <2> HIDE DEF encoded, index, rest, found
  <2> QED
    BY <1>1, <1>2, <1>6
<1> HIDE DEF encoded, index
<1>7. ASSUME encoded = {}, tree[Identity] \notin {"File", "Dir"}
      PROVE  Matches([path |-> Identity, status |-> status_for_io_error(tree[Identity])])
  BY <1>5, <1>7
<1>8. ASSUME encoded = {}, tree[Identity] = "Dir", ~request.trailingSlash /\ config.redirect
      PROVE  Matches([path |-> Identity, status |-> 301])
  BY <1>5, <1>8
<1>9. ASSUME encoded = {}, tree[Identity] = "Dir", ~(~request.trailingSlash /\ config.redirect),
             config.directory = "Deny"
      PROVE  Matches([path |-> Identity, status |-> 403])
  BY <1>5, <1>9
<1>10. ASSUME encoded = {}, tree[Identity] = "Dir",
              ~(~request.trailingSlash /\ config.redirect), config.directory # "Deny"
       PROVE  /\ \A path \in index : Matches([path |-> path, status |-> 200])
              /\ index = {} =>
                   \A status \in IF config.directory = "Index" THEN {404} ELSE ListingStatuses :
                       Matches([path |-> Identity, status |-> status])
  <2>1. ASSUME NEW path \in index PROVE Matches([path |-> path, status |-> 200])
    BY <1>6, <1>10
  <2>2. ASSUME index = {},
               NEW status \in IF config.directory = "Index" THEN {404} ELSE ListingStatuses
        PROVE  Matches([path |-> Identity, status |-> status])
    BY <1>5, <1>10, <2>2
  <2> QED
    BY <2>1, <2>2
<1> QED
  BY <1>3, <1>4, <1>7, <1>8, <1>9, <1>10 DEF encoded, index

\* A step of the resolution answers as the document root says, or asks for what
\* the resolution calls for next.
Outcome ==
    \/ phase' \in {"Streaming", "Done"} /\ Matches(reply')
    \/ /\ phase' \in {"ResolvingFile", "ResolvingIndex"}
       /\ reply' = reply /\ batch' = Tail(batch)
       /\ \E op : io' = io \cup {op} /\ Asked(op, phase', pending')

\* A response whose status is one of Replies.
LEMMA RespondOutcome ==
    ASSUME NEW status, Respond(status), Matches([path |-> Identity, status |-> status])
    PROVE  Outcome
<1>1. phase' = "Done" /\ reply' = StatusReply(status)
  BY DEF Respond, EndStream, DropPhase
<1>2. reply'.path = Identity /\ reply'.status = status
  BY <1>1 DEF StatusReply
<1> QED
  BY <1>1, <1>2 DEF Outcome, Matches

\* A file that Replies has, with or without a body.
LEMMA BeginOutcome ==
    ASSUME NEW event, begin_streaming(event), Matches([path |-> event.path, status |-> 200])
    PROVE  Outcome
<1>1. phase' \in {"Streaming", "Done"} /\ reply' = FileReply(event.path, event.plan)
  BY DEF begin_streaming, EndStream, DropPhase
<1>2. reply'.path = event.path /\ reply'.status = 200
  BY <1>1 DEF FileReply
<1> QED
  BY <1>1, <1>2 DEF Outcome, Matches

\* An open that the resolution calls for.
LEMMA SubmitOutcome ==
    ASSUME NEW queue, SubmitFirst(queue), NextEvent,
           phase' \in {"ResolvingFile", "ResolvingIndex"},
           Asked(OpenOp(Head(queue)), phase', Tail(queue))
    PROVE  Outcome
<1>1. /\ reply' = reply /\ batch' = Tail(batch) /\ pending' = Tail(queue)
      /\ io' = io \cup {OpenOp(Head(queue))}
  BY DEF SubmitFirst, NextEvent, sent
<1> QED
  BY <1>1 DEF Outcome

\* The end of the index search.
LEMMA FallbackOutcome ==
    ASSUME TypeOK, Resolving, Entered, NoFile(config.indexFiles), directory_fallback
    PROVE  Outcome
<1>1. CASE config.directory = "Listing"
  <2>1. /\ reply' = reply /\ batch' = Tail(batch) /\ pending' = pending /\ phase' = phase
        /\ io' = io \cup {DirOp}
    BY <1>1 DEF directory_fallback, NextEvent, sent
  <2>2. DirOp.kind = "Dir"
    BY DEF DirOp
  <2>3. Asked(DirOp, phase', pending')
    BY <1>1, <2>2 DEF Asked
  <2> QED
    BY <2>1, <2>3 DEF Outcome, Resolving
<1>2. CASE config.directory # "Listing"
  <2>1. config.directory = "Index" /\ Respond(404)
    BY <1>2 DEF directory_fallback, Entered, TypeOK, EnvType, ConfigType, DirectoryModes
  <2>2. FirstFile(Encoded) = {} /\ FirstFile(config.indexFiles) = {}
    BY NoFirstFile DEF Entered
  <2>3. Matches([path |-> Identity, status |-> 404])
    BY <2>1, <2>2, RepliesOf DEF Entered
  <2> QED
    BY <2>1, <2>3, RespondOutcome
<1> QED
  BY <1>1, <1>2

\* handle_directory, once the path is known to be a directory.
LEMMA DirectoryOutcome ==
    ASSUME TypeOK, Resolving, NoFile(Encoded), tree[Identity] = "Dir", handle_directory
    PROVE  Outcome
<1>1. FirstFile(Encoded) = {}
  BY NoFirstFile
<1>2. CASE ~request.trailingSlash /\ config.redirect
  <2>1. Respond(301)
    BY <1>2 DEF handle_directory
  <2>2. Matches([path |-> Identity, status |-> 301])
    BY <1>1, <1>2, RepliesOf
  <2> QED
    BY <2>1, <2>2, RespondOutcome
<1>3. CASE ~(~request.trailingSlash /\ config.redirect) /\ config.directory = "Deny"
  <2>1. Respond(403)
    BY <1>3 DEF handle_directory
  <2>2. Matches([path |-> Identity, status |-> 403])
    BY <1>1, <1>3, RepliesOf
  <2> QED
    BY <2>1, <2>2, RespondOutcome
<1>4. CASE ~(~request.trailingSlash /\ config.redirect) /\ config.directory # "Deny"
  <2>1. Entered
    BY <1>4 DEF Entered
  <2>2. PICK queue \in Seq(Paths) : queue = config.indexFiles
    <3>1. config.indexFiles \in Seq(IndexPaths) /\ IndexPaths \subseteq Paths
      BY DEF TypeOK, EnvType, ConfigType, Paths
    <3> QED
      BY <3>1
  <2>3. CASE queue = <<>>
    <3>1. directory_fallback
      BY <1>4, <2>2, <2>3 DEF handle_directory
    <3>2. NoFile(config.indexFiles)
      BY <2>2, <2>3 DEF NoFile
    <3> QED
      BY <2>1, <3>1, <3>2, FallbackOutcome
  <2>4. CASE queue # <<>>
    <3>1. phase' = "ResolvingIndex" /\ SubmitFirst(queue) /\ NextEvent
      BY <1>4, <2>2, <2>4 DEF handle_directory
    <3>2. Opening(queue, Head(queue), Tail(queue))
      BY <2>4, FirstOpening
    <3>3. OpenOp(Head(queue)).kind = "Open" /\ OpenOp(Head(queue)).path = Head(queue)
      BY DEF OpenOp
    <3>4. Asked(OpenOp(Head(queue)), phase', Tail(queue))
      BY <2>1, <2>2, <3>1, <3>2, <3>3, Zenon DEF Asked
    <3> QED
      BY <3>1, <3>4, SubmitOutcome
  <2> QED
    BY <2>3, <2>4
<1> QED
  BY <1>2, <1>3, <1>4

\* A candidate of the file was opened.
LEMMA FileOutcome ==
    ASSUME TypeOK, batch # <<>>, phase = "ResolvingFile", NEW event, event = Head(batch),
           event.kind = "Open", Told(event, phase, pending), HandleOpened \/ HandleOpenError
    PROVE  Outcome
<1>1. PICK encoded \in Seq(Paths), queue \in Seq(Paths), n \in Nat :
        /\ encoded = Encoded /\ queue = build_file_candidates /\ n = Len(encoded)
        /\ Len(queue) = n + 1 /\ queue[n + 1] = Identity
        /\ \A i \in 1 .. n : queue[i] = encoded[i] /\ encoded[i] \in EncodedPaths
  <2>1. /\ Encoded \in Seq(EncodedPaths) /\ Encoded \in Seq(Paths)
        /\ build_file_candidates \in Seq(Paths)
        /\ Len(build_file_candidates) = Len(Encoded) + 1
        /\ \A i \in 1 .. Len(Encoded) : build_file_candidates[i] = Encoded[i]
        /\ build_file_candidates[Len(Encoded) + 1] = Identity
    BY Candidates
  <2>2. Len(Encoded) \in Nat /\ \A i \in 1 .. Len(Encoded) : Encoded[i] \in EncodedPaths
    BY <2>1
  <2> QED
    BY <2>1, <2>2
<1>2. PICK rest \in Seq(Paths) : rest = pending
  BY DEF TypeOK, StreamType
<1>3. PICK path : path = event.path
  OBVIOUS
<1>4. Opening(queue, path, rest) /\ event.result = tree[path]
  BY <1>1, <1>2, <1>3 DEF Told, Asked
<1>5. PICK k \in 1 .. n + 1 :
        /\ path = queue[k] /\ Len(rest) = (n + 1) - k
        /\ \A j \in 1 .. k - 1 : tree[queue[j]] # "File"
  BY <1>1, <1>4 DEF Opening
<1>6. ASSUME k = n + 1
      PROVE  path = Identity /\ rest = <<>> /\ NoFile(Encoded) /\ FirstFile(Encoded) = {}
  <2>1. Len(rest) = 0 /\ path = Identity
    BY <1>1, <1>5, <1>6
  <2>2. rest = <<>>
    BY <2>1, EmptySeq
  <2>3. \A j \in 1 .. n : tree[encoded[j]] # "File"
    BY <1>1, <1>5, <1>6
  <2>4. NoFile(Encoded)
    BY <1>1, <2>3 DEF NoFile
  <2> QED
    BY <2>1, <2>2, <2>4, NoFirstFile
<1>7. ASSUME k # n + 1 PROVE path \in EncodedPaths /\ rest # <<>> /\ k \in 1 .. n
  <2>1. k \in 1 .. n /\ Len(rest) # 0
    BY <1>5, <1>7
  <2> QED
    BY <1>1, <1>5, <2>1
<1>8. Identity \notin EncodedPaths
  BY FilterAssumption
<1>9. ASSUME SubmitFirst(pending), NextEvent, phase' = phase, rest # <<>>, tree[path] # "File"
      PROVE  Outcome
  <2>1. Opening(queue, Head(rest), Tail(rest))
    BY <1>4, <1>9, NextOpening
  <2>2. OpenOp(Head(rest)).kind = "Open" /\ OpenOp(Head(rest)).path = Head(rest)
    BY DEF OpenOp
  <2>3. Asked(OpenOp(Head(rest)), phase', Tail(rest))
    BY <1>1, <1>9, <2>1, <2>2, Zenon DEF Asked
  <2> QED
    BY <1>2, <1>9, <2>3, SubmitOutcome
<1>10. CASE tree[path] = "File"
  <2>1. begin_streaming(event)
    BY <1>4, <1>10 DEF HandleOpened, HandleOpenError, IoErrors
  <2>2. Matches([path |-> path, status |-> 200])
    <3>1. CASE k = n + 1
      BY <1>6, <1>10, <3>1, RepliesOf
    <3>2. CASE k # n + 1
      <4>1. k \in 1 .. Len(encoded) /\ tree[encoded[k]] = "File" /\ path = encoded[k]
        BY <1>1, <1>5, <1>7, <1>10, <3>2
      <4>2. \A j \in 1 .. k - 1 : tree[encoded[j]] # "File"
        BY <1>1, <1>5, <4>1
      <4>3. path \in FirstFile(encoded)
        BY <4>1, <4>2, FileOpening
      <4> QED
        BY <1>1, <4>3, RepliesOf
    <3> QED
      BY <3>1, <3>2
  <2> QED
    BY <1>3, <2>1, <2>2, BeginOutcome
<1>11. CASE tree[path] = "Dir"
  <2>1. IF path \in EncodedPaths THEN advance_after_open_miss ELSE handle_directory
    BY <1>3, <1>4, <1>11 DEF HandleOpened, HandleOpenError, IoErrors
  <2>2. CASE k = n + 1
    BY <1>6, <1>8, <1>11, <2>1, <2>2, DirectoryOutcome DEF Resolving
  <2>3. CASE k # n + 1
    BY <1>2, <1>7, <1>9, <1>11, <2>1, <2>3 DEF advance_after_open_miss, open_next_candidate
  <2> QED
    BY <2>2, <2>3
<1>12. CASE tree[path] \notin {"File", "Dir"}
  <2>1. IF pending = <<>> THEN Respond(status_for_io_error(tree[path]))
        ELSE advance_after_open_miss
    BY <1>4, <1>12 DEF HandleOpened, HandleOpenError
  <2>2. CASE k = n + 1
    <3>1. Respond(status_for_io_error(tree[Identity])) /\ tree[Identity] \notin {"File", "Dir"}
      BY <1>2, <1>6, <1>12, <2>1, <2>2
    <3>2. Matches([path |-> Identity, status |-> status_for_io_error(tree[Identity])])
      BY <1>6, <2>2, <3>1, RepliesOf
    <3> QED
      BY <3>1, <3>2, RespondOutcome
  <2>3. CASE k # n + 1
    BY <1>2, <1>7, <1>9, <1>12, <2>1, <2>3 DEF advance_after_open_miss, open_next_candidate
  <2> QED
    BY <2>2, <2>3
<1> QED
  BY <1>10, <1>11, <1>12

\* An index file was opened.
LEMMA IndexOutcome ==
    ASSUME TypeOK, batch # <<>>, phase = "ResolvingIndex", NEW event, event = Head(batch),
           event.kind = "Open", Told(event, phase, pending), HandleOpened \/ HandleOpenError
    PROVE  Outcome
<1>1. PICK queue \in Seq(Paths) :
        queue = config.indexFiles /\ \A i \in 1 .. Len(queue) : queue[i] \in IndexPaths
  <2>1. config.indexFiles \in Seq(IndexPaths) /\ IndexPaths \subseteq Paths
    BY DEF TypeOK, EnvType, ConfigType, Paths
  <2> QED
    BY <2>1
<1>2. PICK rest \in Seq(Paths) : rest = pending
  BY DEF TypeOK, StreamType
<1>3. PICK path : path = event.path
  OBVIOUS
<1>4. Entered /\ Opening(queue, path, rest) /\ event.result = tree[path]
  BY <1>1, <1>2, <1>3 DEF Told, Asked
<1>5. PICK k \in 1 .. Len(queue) :
        path = queue[k] /\ \A j \in 1 .. k - 1 : tree[queue[j]] # "File"
  BY <1>4 DEF Opening
<1>6. path \notin EncodedPaths
  BY <1>1, <1>5, FilterAssumption
<1>7. FirstFile(Encoded) = {} /\ tree[Identity] = "Dir"
      /\ ~(~request.trailingSlash /\ config.redirect) /\ config.directory # "Deny"
  BY <1>4, NoFirstFile DEF Entered
<1>8. CASE tree[path] = "File"
  <2>1. begin_streaming(event)
    BY <1>4, <1>8 DEF HandleOpened, HandleOpenError, IoErrors
  <2>2. path \in FirstFile(queue)
    BY <1>5, <1>8, FileOpening
  <2>3. Matches([path |-> path, status |-> 200])
    BY <1>1, <1>7, <2>2, RepliesOf
  <2> QED
    BY <1>3, <2>1, <2>3, BeginOutcome
<1>9. CASE tree[path] = "Dir"
  <2>1. handle_directory
    BY <1>3, <1>4, <1>6, <1>9 DEF HandleOpened, HandleOpenError, IoErrors
  <2> QED
    BY <1>4, <2>1, DirectoryOutcome DEF Resolving, Entered
<1>10. CASE tree[path] \notin {"File", "Dir"}
  <2>1. open_next_index
    BY <1>4, <1>10 DEF HandleOpened, HandleOpenError, advance_after_open_miss
  <2>2. CASE rest = <<>>
    <3>1. directory_fallback
      BY <1>2, <2>1, <2>2 DEF open_next_index
    <3>2. NoFile(config.indexFiles)
      BY <1>1, <1>4, <1>10, <2>2, LastOpening
    <3> QED
      BY <1>4, <3>1, <3>2, FallbackOutcome DEF Resolving
  <2>3. CASE rest # <<>>
    <3>1. SubmitFirst(rest) /\ NextEvent /\ phase' = phase
      BY <1>2, <2>1, <2>3 DEF open_next_index
    <3>2. Opening(queue, Head(rest), Tail(rest))
      BY <1>4, <1>10, <2>3, NextOpening
    <3>3. OpenOp(Head(rest)).kind = "Open" /\ OpenOp(Head(rest)).path = Head(rest)
      BY DEF OpenOp
    <3>4. Asked(OpenOp(Head(rest)), phase', Tail(rest))
      BY <1>1, <1>4, <3>1, <3>2, <3>3, Zenon DEF Asked
    <3> QED
      BY <3>1, <3>4, SubmitOutcome
  <2> QED
    BY <2>2, <2>3
<1> QED
  BY <1>8, <1>9, <1>10

\* A directory was read.
LEMMA ListingOutcome ==
    ASSUME HandleDir, Told(Head(batch), phase, pending)
    PROVE  Outcome
<1>1. PICK result \in {"Ok"} \cup IoErrors : result = Head(batch).result
  BY DEF HandleDir, Handling, Told
<1>2. Entered /\ NoFile(config.indexFiles) /\ config.directory = "Listing"
  BY DEF HandleDir, Handling, Told, Asked
<1>3. FirstFile(Encoded) = {} /\ FirstFile(config.indexFiles) = {}
  BY <1>2, NoFirstFile DEF Entered
<1>4. PICK status \in ListingStatuses : Respond(status)
  <2>1. Respond(IF result = "Ok" THEN 200 ELSE status_for_io_error(result))
    BY <1>1 DEF HandleDir
  <2>2. (IF result = "Ok" THEN 200 ELSE status_for_io_error(result)) \in ListingStatuses
    BY <1>1 DEF ListingStatuses
  <2> QED
    BY <2>1, <2>2
<1>5. Matches([path |-> Identity, status |-> status])
  BY <1>2, <1>3, RepliesOf DEF Entered
<1> QED
  BY <1>4, <1>5, RespondOutcome

\* A completion is told as it was asked for.
LEMMA CompleteTold ==
    ASSUME TypeOK, Complete
    PROVE  \E op \in io, event \in EventType :
              /\ io' = io \ {op} /\ Deliver(event)
              /\ \A stage, rest : Asked(op, stage, rest) => Told(event, stage, rest)
<1> DEFINE Fit(op, event) ==
             /\ event.kind = op.kind /\ event.path = op.path
             /\ event.kind = "Open" => event.result = tree[event.path]
             /\ event.kind = "Dir" => event.result \in {"Ok"} \cup IoErrors
<1>1. ASSUME NEW op, NEW event, Fit(op, event), NEW stage, NEW rest, Asked(op, stage, rest)
      PROVE  Told(event, stage, rest)
  BY <1>1 DEF Told, Asked
<1>2. \A op \in io : op \in OpType
  BY DEF TypeOK, WorkerType
<1>3. ASSUME NEW op \in io, NEW result \in {"Ok", "File", "Dir"} \cup IoErrors,
             NEW plan \in Plans, NEW prefetch \in BOOLEAN
      PROVE  Event(op, result, plan, prefetch) \in EventType
  BY <1>2 DEF OpType, Event, EventType
<1>4. <<>> \in Plans
  BY PlanType
<1>5. CASE CompleteOpen
  <2>1. PICK op \in io : /\ op.kind = "Open" /\ io' = io \ {op}
                         /\ \E plan \in Plans, prefetch \in BOOLEAN :
                               Deliver(Event(op, tree[op.path], plan, prefetch))
    BY <1>4, <1>5 DEF CompleteOpen
  <2>2. PICK plan \in Plans, prefetch \in BOOLEAN :
          Deliver(Event(op, tree[op.path], plan, prefetch))
    BY <2>1
  <2>3. PICK event : event = Event(op, tree[op.path], plan, prefetch)
    OBVIOUS
  <2>4. tree[op.path] \in {"Ok", "File", "Dir"} \cup IoErrors
    BY <1>2 DEF OpType, TypeOK, EnvType
  <2>5. event \in EventType
    BY <1>3, <2>3, <2>4
  <2>6. Fit(op, event)
    BY <2>1, <2>3 DEF Event
  <2> QED
    BY <1>1, <2>1, <2>2, <2>3, <2>5, <2>6
<1>6. ASSUME NEW op \in io, NEW result \in {"Ok"} \cup IoErrors,
             io' = io \ {op}, Deliver(Event(op, result, <<>>, FALSE)),
             op.kind \in {"Read", "Dir"}
      PROVE  \E event \in EventType : Deliver(event) /\ Fit(op, event)
  <2>1. PICK event : event = Event(op, result, <<>>, FALSE)
    OBVIOUS
  <2>2. result \in {"Ok", "File", "Dir"} \cup IoErrors
    BY DEF IoErrors
  <2>3. event \in EventType
    BY <1>3, <1>4, <2>1, <2>2
  <2>4. Fit(op, event)
    BY <1>6, <2>1 DEF Event
  <2> QED
    BY <1>6, <2>1, <2>3, <2>4
<1>7. CASE CompleteRead \/ CompleteDir
  <2>1. PICK op \in io, result \in {"Ok"} \cup IoErrors :
          /\ io' = io \ {op} /\ Deliver(Event(op, result, <<>>, FALSE))
          /\ op.kind \in {"Read", "Dir"}
    BY <1>7 DEF CompleteRead, CompleteDir, IoErrors
  <2>2. PICK event \in EventType : Deliver(event) /\ Fit(op, event)
    BY <1>6, <2>1
  <2> QED
    BY <1>1, <2>1, <2>2
<1> QED
  BY <1>5, <1>7 DEF Complete

\* While nothing changes what the resolution depends on, what was asked for and told
\* stays what is called for.
LEMMA StandingTraced ==
    ASSUME UNCHANGED <<config, request, tree>>,
           \A op \in io' : Asked(op, phase', pending'),
           \A i \in 1 .. Len(bridge') : Told(bridge'[i], phase', pending'),
           \A i \in 1 .. Len(batch') : Told(batch'[i], phase', pending')
    PROVE  Traced'
<1>1. \A op \in io' : Asked(op, phase, pending)'
  BY DEF Asked, Opening, NoFile, Encoded, Entered, build_file_candidates
<1>2. \A i \in 1 .. Len(bridge') : Told(bridge[i], phase, pending)'
  BY DEF Told, Asked, Opening, NoFile, Encoded, Entered, build_file_candidates
<1>3. \A i \in 1 .. Len(batch') : Told(batch[i], phase, pending)'
  BY DEF Told, Asked, Opening, NoFile, Encoded, Entered, build_file_candidates
<1> QED
  BY <1>1, <1>2, <1>3 DEF Traced

\* So do the answers.
LEMMA StandingReplies ==
    ASSUME UNCHANGED <<config, request, tree>>
    PROVE  Replies' = Replies /\ RejectedWith' = RejectedWith
<1>1. RejectedWith' = RejectedWith
  BY DEF RejectedWith
<1>2. Replies' = Replies
  BY DEF Replies, FirstFile
<1> QED
  BY <1>1, <1>2

\* A step that gives no answer and does not touch the document root.
LEMMA KeptReply ==
    ASSUME ReplyMatchesTree, UNCHANGED <<config, request, tree, treeChanges, reply>>
    PROVE  ReplyMatchesTree'
<1>1. Replies' = Replies /\ RejectedWith' = RejectedWith
  BY StandingReplies
<1>2. NoReply' = NoReply
  BY DEF NoReply
<1> QED
  BY <1>1, <1>2 DEF ReplyMatchesTree

\* A step of the resolution answers what the document root says, or goes on as it
\* calls for.
LEMMA OutcomeTraced ==
    ASSUME TypeOK, Control, Token, Traced, ReplyMatchesTree,
           HandleOpened \/ HandleOpenError \/ HandleDir
    PROVE  Traced' /\ ReplyMatchesTree'
<1>1. /\ Resolving /\ io = {} /\ bridge = <<>> /\ Tail(batch) = <<>>
  BY ResolutionStep
<1>2. /\ UNCHANGED <<config, request, tree, treeChanges, bridge>>
      /\ batch # <<>> /\ Head(batch).kind \in {"Open", "Dir"}
  BY DEF HandleOpened, HandleOpenError, HandleDir, Handling, fixed, disk, mailbox
<1>3. CASE treeChanges # 0
  <2>1. treeChanges' # 0
    BY <1>2, <1>3
  <2> QED
    BY <2>1 DEF Traced, ReplyMatchesTree
<1>4. CASE treeChanges = 0
  <2>1. PICK event : event = Head(batch)
    OBVIOUS
  <2>2. event = batch[1] /\ 1 \in 1 .. Len(batch)
    BY <1>2, <2>1 DEF TypeOK, WorkerType
  <2>3. Told(event, phase, pending)
    BY <1>1, <1>4, <2>2 DEF Traced
  <2>4. Outcome
    <3>1. CASE event.kind = "Open"
      <4>1. HandleOpened \/ HandleOpenError
        BY <2>1, <3>1 DEF HandleDir, Handling
      <4> QED
        BY <1>1, <1>2, <2>1, <2>3, <3>1, <4>1, FileOutcome, IndexOutcome DEF Resolving
    <3>2. CASE event.kind = "Dir"
      <4>1. HandleDir
        BY <2>1, <3>2 DEF HandleOpened, HandleOpenError, Handling
      <4> QED
        BY <2>1, <2>3, <4>1, ListingOutcome
    <3> QED
      BY <1>2, <2>1, <3>1, <3>2
  <2>5. CASE phase' \in {"Streaming", "Done"} /\ Matches(reply')
    <3>1. Traced'
      BY <2>5 DEF Traced, Resolving
    <3>2. Replies' = Replies
      BY <1>2, StandingReplies
    <3> QED
      BY <2>5, <3>1, <3>2 DEF ReplyMatchesTree, Matches
  <2>6. ASSUME reply' = reply, batch' = Tail(batch),
               NEW op, io' = io \cup {op}, Asked(op, phase', pending')
        PROVE  Traced' /\ ReplyMatchesTree'
    <3>1. ReplyMatchesTree'
      BY <1>2, <2>6, KeptReply
    <3>2. bridge' = <<>> /\ batch' = <<>> /\ io' = {op}
      BY <1>1, <1>2, <2>6
    <3>3. /\ \A o \in io' : Asked(o, phase', pending')
          /\ \A i \in 1 .. Len(bridge') : Told(bridge'[i], phase', pending')
          /\ \A i \in 1 .. Len(batch') : Told(batch'[i], phase', pending')
      BY <2>6, <3>2
    <3> QED
      BY <1>2, <3>1, <3>3, StandingTraced
  <2> QED
    BY <2>4, <2>5, <2>6 DEF Outcome
<1> QED
  BY <1>3, <1>4

\* A step that leaves the resolution alone, or ends it without an answer.
LEMMA QuietTraced ==
    ASSUME Traced, ReplyMatchesTree, UNCHANGED <<config, request, tree, treeChanges, reply>>,
           \/ phase' \notin {"ResolvingFile", "ResolvingIndex"}
           \/ UNCHANGED <<phase, pending, io, bridge, batch>>
    PROVE  Traced' /\ ReplyMatchesTree'
<1>1. ReplyMatchesTree'
  BY KeptReply
<1>2. CASE treeChanges' # 0 \/ phase' \notin {"ResolvingFile", "ResolvingIndex"}
  <2>1. Traced'
    BY <1>2 DEF Traced, Resolving
  <2> QED
    BY <1>1, <2>1
<1>3. CASE treeChanges' = 0 /\ phase' \in {"ResolvingFile", "ResolvingIndex"}
  <2>1. treeChanges = 0 /\ Resolving /\ UNCHANGED <<phase, pending, io, bridge, batch>>
    BY <1>3 DEF Resolving
  <2>2. /\ \A op \in io' : Asked(op, phase', pending')
        /\ \A i \in 1 .. Len(bridge') : Told(bridge'[i], phase', pending')
        /\ \A i \in 1 .. Len(batch') : Told(batch'[i], phase', pending')
    BY <2>1 DEF Traced
  <2> QED
    BY <1>1, <2>2, StandingTraced
<1> QED
  BY <1>2, <1>3

\* Every step keeps to the resolution and to its answer.
LEMMA TracedStep ==
    ASSUME TypeOK, Control, Token, Traced, ReplyMatchesTree, [Next]_vars
    PROVE  Traced' /\ ReplyMatchesTree'
<1>1. CASE OnRequestHeadersReject
  <2>1. /\ phase' = "Done" /\ RejectedWith # 0
        /\ UNCHANGED <<config, request, tree>>
    BY <1>1 DEF OnRequestHeadersReject, Respond, EndStream, DropPhase, fixed, disk
  <2>2. RejectedWith' # 0
    BY <2>1, StandingReplies
  <2> QED
    BY <2>1, <2>2 DEF Traced, Resolving, ReplyMatchesTree
<1>2. CASE OnRequestHeadersResolve
  <2>1. PICK queue \in Seq(Paths) : queue = build_file_candidates /\ queue # <<>>
    <3>1. /\ build_file_candidates \in Seq(Paths)
          /\ Len(build_file_candidates) = Len(Encoded) + 1
          /\ Encoded \in Seq(Paths)
      BY Candidates
    <3>2. Len(Encoded) \in Nat
      BY <3>1
    <3> QED
      BY <3>1, <3>2
  <2>2. PICK op : op = OpenOp(Head(queue))
    OBVIOUS
  <2>3. /\ phase' = "ResolvingFile" /\ pending' = Tail(queue) /\ io' = io \cup {op}
        /\ UNCHANGED <<config, request, tree, treeChanges, reply, bridge, batch>>
    BY <1>2, <2>1, <2>2
    DEF OnRequestHeadersResolve, SubmitFirst, fixed, disk, worker, mailbox, sent
  <2>4. io' = {op} /\ bridge' = <<>> /\ batch' = <<>>
    BY <1>2, <2>3 DEF Control, OnRequestHeadersResolve
  <2>5. op.kind = "Open" /\ op.path = Head(queue)
    BY <2>2 DEF OpenOp
  <2>6. Opening(queue, Head(queue), Tail(queue))
    BY <2>1, FirstOpening
  <2>7. Asked(op, phase', pending')
    BY <2>1, <2>3, <2>5, <2>6, Zenon DEF Asked
  <2>8. /\ \A o \in io' : Asked(o, phase', pending')
        /\ \A i \in 1 .. Len(bridge') : Told(bridge'[i], phase', pending')
        /\ \A i \in 1 .. Len(batch') : Told(batch'[i], phase', pending')
    BY <2>4, <2>7
  <2> QED
    BY <2>3, <2>8, StandingTraced, KeptReply
<1>3. CASE HandleOpened \/ HandleOpenError \/ HandleDir
  BY <1>3, OutcomeTraced
<1>4. CASE OnScheduled
  <2>1. /\ batch' = bridge /\ bridge' = <<>>
        /\ UNCHANGED <<config, request, tree, treeChanges, reply, phase, pending, io>>
    BY <1>4 DEF OnScheduled, fixed, disk, sent
  <2>2. CASE treeChanges = 0 /\ Resolving
    <3>1. /\ \A o \in io' : Asked(o, phase', pending')
          /\ \A i \in 1 .. Len(bridge') : Told(bridge'[i], phase', pending')
          /\ \A i \in 1 .. Len(batch') : Told(batch'[i], phase', pending')
      BY <2>1, <2>2 DEF Traced
    <3> QED
      BY <2>1, <3>1, StandingTraced, KeptReply
  <2>3. CASE ~(treeChanges = 0 /\ Resolving)
    <3>1. Traced'
      BY <2>1, <2>3 DEF Traced, Resolving
    <3> QED
      BY <2>1, <3>1, KeptReply
  <2> QED
    BY <2>2, <2>3
<1>5. CASE Complete
  <2>1. PICK op \in io, event \in EventType :
          /\ io' = io \ {op} /\ Deliver(event)
          /\ \A stage, rest : Asked(op, stage, rest) => Told(event, stage, rest)
    BY <1>5, CompleteTold
  <2>2. /\ bridge' = IF closed THEN bridge ELSE Append(bridge, event)
        /\ UNCHANGED <<config, request, tree, treeChanges, reply, phase, pending, batch>>
    BY <2>1 DEF Deliver, fixed, disk, worker, sent
  <2>3. CASE treeChanges = 0 /\ Resolving
    <3>1. \A o \in io' : Asked(o, phase', pending')
      BY <2>1, <2>2, <2>3 DEF Traced
    <3>2. \A i \in 1 .. Len(batch') : Told(batch'[i], phase', pending')
      BY <2>2, <2>3 DEF Traced
    <3>3. bridge' = Append(bridge, event)
      BY <2>2, <2>3 DEF Control, Resolving
    <3>4. Told(event, phase', pending')
      BY <2>1, <2>2, <2>3 DEF Traced
    <3>5. \A i \in 1 .. Len(bridge) : Told(bridge[i], phase', pending')
      BY <2>2, <2>3 DEF Traced
    <3>6. ASSUME NEW i \in 1 .. Len(bridge') PROVE Told(bridge'[i], phase', pending')
      <4>1. bridge \in Seq(EventType) /\ Len(bridge) \in Nat
        BY DEF TypeOK, EnvType
      <4>2. CASE i = Len(bridge) + 1
        <5>1. bridge'[i] = event
          BY <3>3, <4>1, <4>2
        <5> QED
          BY <3>4, <5>1
      <4>3. CASE i # Len(bridge) + 1
        <5>1. i \in 1 .. Len(bridge) /\ bridge'[i] = bridge[i]
          BY <3>3, <4>1, <4>3
        <5> QED
          BY <3>5, <5>1
      <4> QED
        BY <4>2, <4>3
    <3> QED
      BY <2>2, <3>1, <3>2, <3>6, StandingTraced, KeptReply
  <2>4. CASE ~(treeChanges = 0 /\ Resolving)
    <3>1. Traced'
      BY <2>2, <2>4 DEF Traced, Resolving
    <3> QED
      BY <2>2, <3>1, KeptReply
  <2> QED
    BY <2>3, <2>4
<1>6. CASE TreeChange
  <2>1. treeChanges' # 0
    BY <1>6 DEF TreeChange, TypeOK, EnvType
  <2> QED
    BY <2>1 DEF Traced, ReplyMatchesTree
<1>7. CASE HandleReadOk \/ HandleReadError
  <2>1. /\ batch # <<>> /\ Head(batch).kind = "Read"
        /\ UNCHANGED <<config, request, tree, treeChanges, reply>>
        /\ phase' = phase \/ phase' = "Done"
    BY <1>7 DEF HandleReadOk, HandleReadError, Handling, EndStream, DropPhase, NextEvent,
                fixed, disk, sent
  <2>2. batch[1].kind = "Read"
    BY <2>1 DEF TypeOK, WorkerType
  <2>3. ~Resolving
    BY <2>1, <2>2 DEF Token
  <2>4. phase' \notin {"ResolvingFile", "ResolvingIndex"}
    BY <2>1, <2>3 DEF Resolving
  <2> QED
    BY <2>1, <2>4, QuietTraced
<1>8. CASE \/ EventsHandled \/ FlushBlocked \/ FlushDone \/ IssueSkip \/ IssueDone
           \/ HighWatermark \/ LowWatermark \/ Commit \/ Finished \/ UNCHANGED vars
  <2>1. /\ UNCHANGED <<config, request, tree, treeChanges, reply>>
        /\ UNCHANGED <<phase, pending, io, bridge, batch>>
    BY <1>8 DEF EventsHandled, FlushBlocked, FlushDone, IssueSkip, IssueDone, HighWatermark,
                LowWatermark, Commit, Finished, vars, fixed, disk, worker, mailbox, sent
  <2> QED
    BY <2>1, QuietTraced
<1>9. CASE FlushChunk \/ FlushLast \/ IssueRead \/ OnStreamComplete
  <2>1. /\ UNCHANGED <<config, request, tree, treeChanges, reply>>
        /\ phase' \in {"Streaming", "Done"}
    BY <1>9 DEF FlushChunk, FlushLast, IssueRead, OnStreamComplete, Flushing, EndStream,
                DropPhase, Control, fixed, disk, sent
  <2> QED
    BY <2>1, QuietTraced
<1> QED
  BY <1>1, <1>2, <1>3, <1>4, <1>5, <1>6, <1>7, <1>8, <1>9 DEF Next, WorkerStep

\* handle_opened, handle_open_error, handle_dir and what they call: whatever the events
\* that interleave with them, the answer to a request that is not rejected is the one
\* that the document root, the mount and the request prescribe, as long as the document
\* root stands still.
THEOREM ReplyCorrect == Spec => []ReplyMatchesTree
<1>1. Init => Traced /\ ReplyMatchesTree
  BY DEF Init, Traced, Resolving, ReplyMatchesTree
<1>2. TypeOK /\ Inv /\ Traced /\ ReplyMatchesTree /\ [Next]_vars => Traced' /\ ReplyMatchesTree'
  BY TracedStep DEF Inv
<1> QED
  BY <1>1, <1>2, TypeCorrect, InvCorrect, PTL DEF Spec
=============================================================================
