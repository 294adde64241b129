------------------------------- MODULE Server -------------------------------
(***************************************************************************)
(* The module as Envoy runs it: a filter configuration that starts one     *)
(* engine (crates/envoy-files-filter/src/lib.rs), the streams that share   *)
(* it (filter.rs) and the configuration's drop, which stops the engine     *)
(* while streams may still be alive.                                       *)
(*                                                                         *)
(* The engine is module Engine, its reactor and tasks as they stand there. *)
(* Its clients are streams here: a callback pushes its event on the bridge *)
(* of the stream that asked, a file handle lives in an event or in a       *)
(* stream's phase and is dropped with it.  A stream is what module Filter  *)
(* says of it, without watermarks and with one event handled per step.     *)
(* Configurations share nothing, so one is enough.                         *)
(***************************************************************************)
EXTENDS Engine

CONSTANTS
    Streams,      \* streams of the configuration
    Candidates,   \* the opens a request may try, in order
    MaxInflight   \* config.max_inflight_reads

\* submit_open asks for no prefetch or for one chunk.  MaxOpens and MaxReads leave
\* room for all that the streams may ask for.
ASSUME ServerAssumption ==
    /\ IsFiniteSet(Streams)
    /\ Candidates \subseteq Seq(Requests) \ {<<>>}
    /\ \A request \in Requests :
          /\ request.want \in {0, ReadLen}
          /\ ((request.size + ReadLen - 1) \div ReadLen) * Cardinality(Streams) <= MaxReads
    /\ \A list \in Candidates : Len(list) * Cardinality(Streams) <= MaxOpens
    /\ MaxInflight \in Nat \ {0}

VARIABLES
    module,  \* life of the FilterConfig
    stream,  \* each stream's phase and the fields of Streaming
    bridge,  \* events in each stream's EventBridge
    closed,  \* streams whose on_stream_complete ran
    owner,   \* the stream that each open was submitted for
    asker    \* the stream and chunk that each read was submitted for

filter == <<module, stream, bridge, closed, owner, asker>>
allVars == <<vars, filter>>

\* The parts of Engine that no stream writes.
reactor == <<running, files, canonCache, tasks, canon, truncates, renames, last>>

\* handle is the id of the handle that the phase holds; 0 is no handle, or the
\* inert one.
StreamType ==
    [phase : {"Idle", "Resolving", "Streaming", "Done", "Gone"},
     pending : Seq(Requests), handle : Ids \cup {0}, chunks : Nat, ready : SUBSET Nat,
     nextSend : Nat, issueCursor : Nat, inflight : Nat]

New == [phase |-> "Idle", pending |-> <<>>, handle |-> 0, chunks |-> 0, ready |-> {},
        nextSend |-> 0, issueCursor |-> 0, inflight |-> 0]

\* IoEvent: what the callback was given, with the handle it carries.
EventType ==
    [kind : {"Open", "Read"}, id : Ids, seq : Nat, ok : BOOLEAN, handle : Ids \cup {0},
     size : Nat, got : Nat]

ServerInit ==
    /\ Init
    /\ module = "Absent"
    /\ stream = [s \in Streams |-> New]
    /\ bridge = [s \in Streams |-> <<>>]
    /\ closed = {}
    /\ owner = [id \in Ids |-> "Nobody"]
    /\ asker = <<>>

-----------------------------------------------------------------------------
(* The configuration. *)

\* new_http_filter_config_fn: the document may be refused and the engine may
\* fail to start; either way no filter is ever created.
Load ==
    /\ module = "Absent"
    /\ module' \in {"Refused", "Serving"}
    /\ UNCHANGED <<vars, stream, bridge, closed, owner, asker>>

\* Mutant: shutdown only waits for the channel to close by itself.
DropConfigSilent ==
    /\ module = "Serving"
    /\ stopped' = TRUE
    /\ module' = "Joining"
    /\ UNCHANGED <<commands, reactor, nextId, handles, length, opens, reads, stream, bridge,
                    closed, owner, asker>>

\* The drop of the FilterConfig sends Shutdown; streams may be alive.
DropConfig ==
    /\ module = "Serving"
    /\ Shutdown
    /\ module' = "Joining"
    /\ UNCHANGED <<stream, bridge, closed, owner, asker>>

\* Mutant: shutdown does not join the reactor.
JoinReturnsAtOnce ==
    /\ module = "Joining"
    /\ module' = "Unloaded"
    /\ UNCHANGED <<vars, stream, bridge, closed, owner, asker>>

\* The join in shutdown returns, and with it the drop.
JoinReturns ==
    /\ module = "Joining" /\ ~running
    /\ module' = "Unloaded"
    /\ UNCHANGED <<vars, stream, bridge, closed, owner, asker>>

-----------------------------------------------------------------------------
(* The streams. *)

SendAll(cs) == IF running THEN commands \o cs ELSE commands

Close(ids) == IF ids = {} THEN <<>> ELSE <<CloseCommand(CHOOSE id \in ids : TRUE)>>

\* Mutant: the id counter is not advanced.
NextIdStuck == nextId

\* fetch_add on next_id.
NextId == nextId + 1

\* Stream s becomes `next`, submits the opens in `requests` (none or one), and the
\* handle that it drops on return is closed.
Become(s, next, dropped, requests) ==
    /\ requests # <<>> => nextId <= MaxOpens
    /\ stream' = [stream EXCEPT ![s] = next]
    /\ handles' = handles \ dropped
    /\ commands' = SendAll((IF requests = <<>> THEN <<>>
                            ELSE <<Command("Open", nextId, 0, 0)>>)
                       \o Close(dropped \ {0}))
    /\ opens' = opens \o requests
    /\ owner' = IF requests = <<>> THEN owner ELSE [owner EXCEPT ![nextId] = s]
    /\ length' = IF requests = <<>> THEN length
                 ELSE [length EXCEPT ![nextId] = requests[1].size]
    /\ nextId' = IF requests = <<>> THEN nextId ELSE NextId
    /\ UNCHANGED <<reactor, stopped, reads, module, closed, asker>>

\* on_request_headers, for a request that the path rules accept.
OnRequestHeaders(s) ==
    /\ module = "Serving"
    /\ stream[s].phase = "Idle" /\ s \notin closed
    /\ \E list \in Candidates :
          Become(s, [New EXCEPT !.phase = "Resolving", !.pending = Tail(list)], {},
                 <<Head(list)>>)
    /\ UNCHANGED bridge

\* The phase after a terminal send; what Streaming held is dropped with it.
Done == [New EXCEPT !.phase = "Done"]

\* Dropping `dropped`, the stream tries its next candidate (another encoding, the
\* file itself, an index file) or answers with a status.
Advance(s, dropped) ==
    LET st == stream[s] IN
    IF st.pending = <<>> THEN Become(s, Done, dropped, <<>>)
    ELSE Become(s, [st EXCEPT !.pending = Tail(st.pending)], dropped, <<Head(st.pending)>>)

Chunks(size) == (size + ReadLen - 1) \div ReadLen

\* serve_file and begin_streaming: an answer without a body, or the head of one
\* whose first chunk may be there.
Serve(s, event) ==
    LET full == IF event.size < ReadLen THEN event.size ELSE ReadLen
        body == [New EXCEPT !.phase = "Streaming", !.handle = event.handle,
                            !.chunks = Chunks(event.size),
                            !.ready = IF event.got = full THEN {0} ELSE {}]
    IN  \/ Become(s, Done, {event.handle}, <<>>)
        \/ event.size > 0 /\ Become(s, body, {}, <<>>)

\* handle_event, for the first event of the bridge.  A stream that has ended
\* ignores what its late reads bring.
HandleEvent(s) ==
    LET event == Head(bridge[s])
        st == stream[s]
    IN  /\ s \notin closed /\ bridge[s] # <<>>
        /\ bridge' = [bridge EXCEPT ![s] = Tail(bridge[s])]
        /\ CASE event.kind = "Open" /\ event.ok /\ opens[event.id].node = "File" ->
                  Serve(s, event)
             [] event.kind = "Open" /\ ~(event.ok /\ opens[event.id].node = "File") ->
                  Advance(s, {event.handle})
             [] event.kind = "Read" /\ st.phase = "Streaming" ->
                  IF event.ok
                  THEN Become(s, [st EXCEPT !.inflight = st.inflight - 1,
                                            !.ready = st.ready \cup {event.seq}], {}, <<>>)
                  ELSE Become(s, Done, {st.handle}, <<>>)
             [] event.kind = "Read" /\ st.phase # "Streaming" -> Become(s, st, {}, <<>>)

\* pump, the flush: the next chunk is sent; the last one ends the stream.
Flush(s) ==
    LET st == stream[s] IN
    /\ s \notin closed /\ st.phase = "Streaming" /\ st.nextSend \in st.ready
    /\ IF st.nextSend + 1 = st.chunks THEN Become(s, Done, {st.handle}, <<>>)
       ELSE Become(s, [st EXCEPT !.ready = st.ready \ {st.nextSend},
                                 !.nextSend = st.nextSend + 1], {}, <<>>)
    /\ UNCHANGED bridge

\* Mutant, and the code: whether another read is issued.
WindowOpenShort(st) == st.inflight < MaxInflight /\ st.issueCursor + 1 < st.chunks
WindowOpen(st) == st.inflight < MaxInflight /\ st.issueCursor < st.chunks

\* pump, the reads: once nothing can be flushed.
IssueRead(s) ==
    LET st == stream[s]
        seq == st.issueCursor
        skip == seq \in st.ready
    IN  /\ s \notin closed /\ st.phase = "Streaming" /\ st.nextSend \notin st.ready
        /\ WindowOpen(st)
        /\ stream' = [stream EXCEPT ![s].issueCursor = seq + 1,
                                    ![s].inflight = IF skip THEN st.inflight
                                                    ELSE st.inflight + 1]
        /\ IF skip THEN UNCHANGED <<commands, asker, reads>>
           ELSE /\ reads < MaxReads
                /\ commands' = SendAll(<<Command("Read", st.handle, seq * ReadLen, reads)>>)
                /\ asker' = Append(asker, [stream |-> s, seq |-> seq])
                /\ reads' = reads + 1
        /\ UNCHANGED <<reactor, nextId, handles, length, stopped, opens, module, bridge,
                        closed, owner>>

\* The handles that a sequence of events carries; 0 is none.
Carried(events) == {events[i].handle : i \in 1 .. Len(events)} \ {0}

\* Mutant: the handles in the events dropped with the bridge are not closed.
OnStreamCompleteForgets(s) ==
    /\ stream[s].phase # "Idle" /\ s \notin closed
    /\ closed' = closed \cup {s}
    /\ bridge' = [bridge EXCEPT ![s] = <<>>]
    /\ handles' = handles \ Carried(bridge[s])
    /\ UNCHANGED <<commands, reactor, nextId, length, stopped, opens, reads, module, stream,
                    owner, asker>>

\* on_stream_complete: the response is complete or the client went away.  The
\* bridge drops the events it holds.
OnStreamComplete(s) ==
    /\ stream[s].phase # "Idle" /\ s \notin closed
    /\ closed' = closed \cup {s}
    /\ bridge' = [bridge EXCEPT ![s] = <<>>]
    /\ handles' = handles \ Carried(bridge[s])
    /\ commands' = SendAll(Close(Carried(bridge[s])))
    /\ UNCHANGED <<reactor, nextId, length, stopped, opens, reads, module, stream, owner,
                    asker>>

\* Envoy drops the filter, and with it the phase.
DropFilter(s) ==
    /\ s \in closed /\ stream[s].phase # "Gone"
    /\ Become(s, [New EXCEPT !.phase = "Gone"], {stream[s].handle}, <<>>)
    /\ UNCHANGED bridge

-----------------------------------------------------------------------------
(* The engine's side: a step of Engine and, if a task ended, its callback. *)

\* The callback of task `call` delivers this event to this stream.
Recipient(call) ==
    IF call.task.kind = "Open" THEN owner[call.task.id]
    ELSE asker[call.task.ticket + 1].stream

EventOf(call) ==
    LET task == call.task IN
    [kind |-> task.kind, id |-> task.id,
     seq |-> IF task.kind = "Read" THEN asker[task.ticket + 1].seq ELSE 0,
     ok |-> call.result = "Ok",
     handle |-> IF task.kind = "Open" /\ call.result = "Ok" /\ ~Prefetched(task)
                THEN task.id ELSE 0,
     size |-> task.size, got |-> task.got]

\* Waker::deliver, in the task's last step: a closed bridge refuses the event,
\* whose handle is then dropped on the reactor's own thread.
Deliver(call) ==
    IF Recipient(call) \in closed
    THEN handles' = handles /\ UNCHANGED bridge
    ELSE /\ bridge' = [bridge EXCEPT ![Recipient(call)] = Append(@, EventOf(call))]
         /\ commands' = commands

\* A step of the reactor.  A shutdown ends the tasks without their callbacks.
Reactor(step) ==
    /\ module \in {"Serving", "Joining", "Unloaded"}
    /\ step
    /\ IF running' /\ Cardinality(tasks') < Cardinality(tasks) THEN Deliver(last')
       ELSE UNCHANGED bridge
    /\ UNCHANGED <<module, stream, closed, owner, asker>>

-----------------------------------------------------------------------------
StreamStep(s) == HandleEvent(s) \/ Flush(s) \/ IssueRead(s) \/ DropFilter(s)

ServerNext ==
    \/ Load \/ DropConfig \/ JoinReturns
    \/ \E s \in Streams : OnRequestHeaders(s) \/ StreamStep(s) \/ OnStreamComplete(s)
    \/ Reactor(Receive) \/ Reactor(TaskStep) \/ Reactor(OpenFails) \/ Reactor(ReadError)

ServerSpec == ServerInit /\ [][ServerNext]_allVars

\* The reactor and its tasks run on, Envoy runs what it was asked to run and
\* completes a stream that was answered.  No client is made to go away and no
\* configuration is made to be dropped.
ServerFairSpec ==
    /\ ServerSpec
    /\ WF_allVars(Reactor(Receive)) /\ WF_allVars(Reactor(TaskStep))
    /\ WF_allVars(JoinReturns)
    /\ \A s \in Streams :
          /\ WF_allVars(StreamStep(s))
          /\ WF_allVars(stream[s].phase = "Done" /\ OnStreamComplete(s))

-----------------------------------------------------------------------------
(* Properties. *)

\* The ids that stream s can still use or drop.
Holds(s) == Carried(bridge[s]) \cup ({stream[s].handle} \ {0})

\* Ownership of descriptors is never lost between the threads: a registered file
\* is held by a stream's phase or by an event that its stream will get, or its
\* Close is on the way to the reactor.
FilesReachable ==
    \A id \in files :
        \/ \E s \in Streams : id \in Holds(s)
        \/ \E i \in 1 .. Len(commands) : commands[i] = CloseCommand(id)

\* Streams that share the engine never get each other's files: a handle is held
\* by the stream whose open it came from, and the reads under way for a stream
\* are of the file that it opened.
OwnFile ==
    /\ \A s \in Streams : \A id \in Holds(s) : owner[id] = s
    /\ \A task \in tasks :
          task.kind = "Read" => owner[task.id] = asker[task.ticket + 1].stream

\* Once shutdown has returned, and the module's code may be unloaded, the reactor
\* does nothing any more: no task, no open file, and no event reaches a bridge.
QuietAfterJoin ==
    [][module = "Unloaded" =>
         /\ tasks = {} /\ files = {}
         /\ \A s \in Streams : Len(bridge'[s]) <= Len(bridge[s])]_allVars

\* The drop of the configuration never hangs in the join.
ShutdownReturns == <>[](module # "Joining")

\* Every descriptor is closed in the end, although no client is forced to go
\* away: its stream is answered and completed, or the engine stops.
FilesReclaimed == <>[](files = {})

\* Every stream is answered to the end while the configuration lives.
StreamsAnswered ==
    <>[](module = "Serving" =>
            \A s \in Streams : stream[s].phase \notin {"Resolving", "Streaming"})
=============================================================================
