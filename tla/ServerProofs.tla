---------------------------- MODULE ServerProofs -----------------------------
(* Proofs about Server, for any number of streams, candidates and reads.        *)
(* EngineProofs says what the steps of the engine keep; here it is shown of the *)
(* streams' steps too, together with who owns which handle.                     *)
EXTENDS Server, EngineProofs

-----------------------------------------------------------------------------
(* The inductive invariant. *)

\* The fields of a stream that the proofs read.
StreamRecord ==
    [phase : {"Idle", "Resolving", "Streaming", "Done", "Gone"}, pending : Seq(Requests),
     handle : Ids \cup {0}, chunks : Nat, ready : SUBSET Nat, nextSend : Nat,
     issueCursor : Nat, inflight : Int]

AskerType == [stream : Streams, seq : Nat]

\* The types of what Server adds.
Shape ==
    /\ stream \in [Streams -> StreamRecord] /\ bridge \in [Streams -> Seq(EventType)]
    /\ closed \subseteq Streams
    /\ owner \in [Ids -> Streams \cup {"Nobody"}] /\ \A id \in Known : owner[id] \in Streams
    /\ asker \in Seq(AskerType) /\ Len(asker) = reads
    /\ IsFiniteSet(tasks)
    /\ module = "Unloaded" => ~running

\* A read was asked for by the stream that owns the file.
Asked(id, ticket) == ticket + 1 \in 1 .. Len(asker) /\ owner[id] = asker[ticket + 1].stream

\* What streams ask of the engine: no listings, reads of their own files and
\* prefetches of at most a chunk.
Asking ==
    /\ \A i \in Channel : /\ commands[i].op # "ReadDir"
                          /\ commands[i].op = "Read" => Asked(commands[i].id, commands[i].ticket)
    /\ \A task \in tasks : /\ task.kind # "ReadDir"
                           /\ task.kind = "Read" => Asked(task.id, task.ticket)
                           /\ task.kind = "Open" => task.len <= ReadLen

\* An open that has not called back.
Unanswered(id) ==
    \/ \E i \in Channel : commands[i].op = "Open" /\ commands[i].id = id
    \/ \E task \in tasks : task.kind = "Open" /\ task.id = id

Events(s) == 1 .. Len(bridge[s])
OpenEvents(s) == {i \in Events(s) : bridge[s][i].kind = "Open"}

\* An open's event carries its own handle, or none and the whole file; no other
\* event carries one.
SoundEvent(s, event) ==
    /\ event.kind = "Open" =>
          /\ event.id \in Known /\ owner[event.id] = s /\ event.handle \in {0, event.id}
          /\ event.ok /\ event.handle = 0 => event.got = event.size /\ event.got <= ReadLen
    /\ event.kind = "Read" => event.handle = 0

\* A stream waits for one open at a time, and holds no handle meanwhile.
Waiting ==
    /\ \A s \in Streams : \A i, j \in OpenEvents(s) : i = j
    /\ \A a, b \in Known : Unanswered(a) /\ Unanswered(b) /\ owner[a] = owner[b] => a = b
    /\ \A id \in Known : Unanswered(id) => OpenEvents(owner[id]) = {}
    /\ \A s \in Streams : OpenEvents(s) # {} => stream[s].handle = 0 /\ stream[s].phase # "Idle"
    /\ \A id \in Known : Unanswered(id) =>
          stream[owner[id]].handle = 0 /\ stream[owner[id]].phase # "Idle"

\* The handles are those that streams hold.
Holding ==
    /\ \A s \in Streams : Holds(s) \subseteq handles
    /\ \A id \in handles : \E s \in Streams : id \in Holds(s)

\* Only a body has a handle.  One on the inert handle is one chunk, which is there:
\* nothing is read.
SoundStream(st) ==
    /\ st.phase # "Streaming" => st.handle = 0
    /\ st.phase = "Streaming" /\ st.handle = 0 =>
          st.chunks = 1 /\ st.nextSend = 0 /\ 0 \in st.ready

Inert == \A s \in Streams : SoundStream(stream[s])

SoundEvents == \A s \in Streams : \A i \in Events(s) : SoundEvent(s, bridge[s][i])

\* What a stream holds is its own.
OwnHandles == \A s \in Streams : \A id \in Holds(s) : owner[id] = s

Owning == SoundEvents /\ Waiting /\ Holding /\ Inert /\ OwnHandles

ServerInv == Inv /\ Shape /\ Asking /\ Owning
-----------------------------------------------------------------------------
(* What a stream sends. *)

\* The commands of a step reach a running engine together, behind the others.
LEMMA SentAll ==
    ASSUME commands \in Seq(CommandType), NEW cs \in Seq(CommandType), commands' = SendAll(cs)
    PROVE  /\ commands' \in Seq(CommandType)
           /\ ~running => commands' = commands
           /\ \A i \in Channel : i \in Channel' /\ commands'[i] = commands[i]
           /\ \A i \in Channel' \ Channel :
                 /\ running /\ \A j \in Channel : j < i
                 /\ \E k \in 1 .. Len(cs) : i = Len(commands) + k /\ commands'[i] = cs[k]
           /\ \A k \in 1 .. Len(cs) :
                 running => /\ Len(commands) + k \in Channel' \ Channel
                            /\ commands'[Len(commands) + k] = cs[k]
<1>1. CASE ~running
  BY <1>1 DEF SendAll, Channel
<1>2. CASE running
  <2>1. /\ commands' \in Seq(CommandType) /\ Len(commands') = Len(commands) + Len(cs)
        /\ \A i \in 1 .. Len(commands) + Len(cs) :
              commands'[i] = IF i <= Len(commands) THEN commands[i] ELSE cs[i - Len(commands)]
    BY <1>2 DEF SendAll
  <2>2. ASSUME NEW i \in Channel' \ Channel
        PROVE  /\ \A j \in Channel : j < i
               /\ i - Len(commands) \in 1 .. Len(cs) /\ i = Len(commands) + (i - Len(commands))
               /\ commands'[i] = cs[i - Len(commands)]
    BY <2>1 DEF Channel
  <2>3. ASSUME NEW k \in 1 .. Len(cs)
        PROVE  /\ Len(commands) + k \in Channel' \ Channel
               /\ commands'[Len(commands) + k] = cs[k]
    BY <2>1 DEF Channel
  <2>4. \A i \in Channel : i \in Channel' /\ commands'[i] = commands[i]
    BY <2>1 DEF Channel
  <2> QED
    BY <1>2, <2>1, <2>2, <2>3, <2>4
<1> QED
  BY <1>1, <1>2

\* The commands `cs` give the handles D back and ask for at most one operation, an
\* open of a new id or a read of a handle that is kept.
Fair(cs, D) ==
    /\ \A k \in 1 .. Len(cs) :
          \/ cs[k].op = "Close" /\ cs[k].id \in D
          \/ /\ cs[k].op = "Open" /\ cs[k].id \in Known' \ Known
             /\ Op(cs[k].op, cs[k].id, cs[k].ticket) \in Submitted' \ Submitted
          \/ /\ cs[k].op = "Read" /\ cs[k].id \in handles \ D
             /\ Op(cs[k].op, cs[k].id, cs[k].ticket) \in Submitted' \ Submitted
    /\ \A k, l \in 1 .. Len(cs) : cs[k].op \in Calls /\ cs[l].op \in Calls => k = l
    /\ \A id \in D : \E k \in 1 .. Len(cs) : cs[k] = CloseCommand(id)

\* Such a step keeps what EngineProofs says of the channel.
LEMMA FlowSends ==
    ASSUME Basics, Flow, NEW cs \in Seq(CommandType), NEW D \in SUBSET handles,
           commands' = SendAll(cs), handles' = handles \ D, Fair(cs, D),
           Submitted \subseteq Submitted', Known \subseteq Known',
           UNCHANGED <<running, files, tasks>>
    PROVE  Flow'
<1>1. /\ \A i \in Channel : i \in Channel' /\ commands'[i] = commands[i]
      /\ \A i \in Channel' \ Channel :
            /\ running /\ \A j \in Channel : j < i
            /\ \E k \in 1 .. Len(cs) : i = Len(commands) + k /\ commands'[i] = cs[k]
      /\ ~running => commands' = commands
      /\ \A k \in 1 .. Len(cs) : running => \E i \in Channel' : commands'[i] = cs[k]
  BY SentAll DEF Basics
<1>2. ASSUME NEW i \in Channel' \ Channel
      PROVE  \/ commands'[i].op = "Close" /\ commands'[i].id \in D
             \/ /\ commands'[i].op = "Open" /\ commands'[i].id \in Known' \ Known
                /\ CommandOp(i)' \in Submitted' \ Submitted
             \/ /\ commands'[i].op = "Read" /\ commands'[i].id \in handles \ D
                /\ CommandOp(i)' \in Submitted' \ Submitted
  BY <1>1 DEF Fair, CommandOp
<1>3. \A id : Used(id)' => Used(id)
  BY <1>1, <1>2 DEF Used
<1>4. \A id : Used(id) => id \in Known
  BY DEF Used, Flow, Named
<1>5. Halted'
  BY <1>1 DEF Flow, Halted
<1>6. Named'
  BY <1>1, <1>2 DEF Flow, Named
<1>7. Once'
  <2>1. \A i \in Queued' \cap Channel : i \in Queued /\ CommandOp(i)' = CommandOp(i)
    BY <1>1 DEF Queued, CommandOp
  <2>2. \A i \in Queued' \ Channel : CommandOp(i)' \in Submitted' \ Submitted
    BY <1>2 DEF Queued, Calls
  <2>3. ASSUME NEW i \in Queued' \ Channel, NEW j \in Queued' \ Channel PROVE i = j
    <3>1. PICK k \in 1 .. Len(cs) : i = Len(commands) + k /\ commands'[i] = cs[k]
      BY <1>1 DEF Queued
    <3>2. PICK l \in 1 .. Len(cs) : j = Len(commands) + l /\ commands'[j] = cs[l]
      BY <1>1 DEF Queued
    <3>3. k = l
      BY <3>1, <3>2 DEF Fair, Queued
    <3> QED
      BY <3>1, <3>2, <3>3
  <2>4. \A i \in Queued' : i \in Channel \/ i \notin Channel
    OBVIOUS
  <2> QED
    BY <2>1, <2>2, <2>3, <2>4 DEF Flow, Once
<1>8. Unused'
  BY <1>1, <1>2, <1>3, <1>4 DEF Flow, Unused
<1>9. Found'
  <2>1. \A i \in Channel', j \in Channel' :
          /\ commands'[i].op = "Close" /\ commands'[j].op = "Read"
          /\ commands'[j].id = commands'[i].id
          => j < i
    BY <1>1, <1>2 DEF Flow, Found
  <2>2. \A i \in Channel' : commands'[i].op = "Close" => commands'[i].id \notin handles'
    BY <1>1, <1>2 DEF Flow, Found
  <2>3. \A i \in Channel' : commands'[i].op = "Read" => commands'[i].id \in files'
    BY <1>1, <1>2 DEF Flow, Found
  <2> QED
    BY <2>1, <2>2, <2>3 DEF Flow, Found
<1>10. NoLeakedFile'
  <2> SUFFICES ASSUME NEW id \in files
               PROVE  id \in handles' \/ \E i \in Channel' : commands'[i] = CloseCommand(id)
    BY DEF NoLeakedFile, Channel, CloseCommand, Command
  <2>1. running
    BY DEF Flow, Halted
  <2>2. id \in handles \/ \E i \in Channel : commands[i] = CloseCommand(id)
    BY DEF Flow, NoLeakedFile, Channel
  <2>3. CASE id \in D
    BY <1>1, <2>1, <2>3 DEF Fair
  <2> QED
    BY <1>1, <2>2, <2>3
<1> QED
  BY <1>5, <1>6, <1>7, <1>8, <1>9, <1>10 DEF Flow

\* The Close that a step sends is that of the handle it drops.
LEMMA Closes ==
    ASSUME NEW D, NEW h, D = {h}
    PROVE  Close(D) = <<CloseCommand(h)>>
<1>1. D # {} /\ (CHOOSE id \in D : TRUE) = h
  OBVIOUS
<1> QED
  BY <1>1 DEF Close

\* What a step of a stream does to the channel.
Asks(requests) ==
    /\ commands' \in Seq(CommandType)
    /\ \A i \in Channel : i \in Channel' /\ commands'[i] = commands[i]
    /\ \A i \in Channel' \ Channel :
          \/ commands'[i].op = "Close"
          \/ commands'[i].op = "Open" /\ commands'[i].id = nextId /\ requests # <<>>

\* A stream drops at most one handle and sends at most one open.
AtMostOne(dropped) == \E h : dropped \in {{}, {h}}
NoneOrOne(requests) == requests = <<>> \/ \E r \in Requests : requests = <<r>>

\* The commands `cs` close the handles D.
Closing(cs, D) ==
    /\ \A k \in 1 .. Len(cs) : cs[k].op = "Close" /\ cs[k].id \in D
    /\ \A id \in D : \E k \in 1 .. Len(cs) : cs[k] = CloseCommand(id)

\* So does what Close sends.
LEMMA ClosingIs ==
    ASSUME Inv, NEW D \in SUBSET handles, AtMostOne(D)
    PROVE  Close(D) \in Seq(CommandType) /\ Closing(Close(D), D)
<1>1. CASE D = {}
  <2>1. PICK closing : closing = <<>>
    OBVIOUS
  <2>2. closing = Close(D) /\ closing \in Seq(CommandType) /\ 1 .. Len(closing) = {}
    BY <1>1, <2>1 DEF Close
  <2>3. Closing(closing, D)
    BY <1>1, <2>2 DEF Closing
  <2> QED
    BY <2>2, <2>3
<1>2. CASE D # {}
  <2>1. PICK h \in Known : D = {h}
    BY <1>2 DEF AtMostOne, Inv, Flow, Named
  <2>2. CloseCommand(h) \in CommandType /\ CloseCommand(h).op = "Close" /\ CloseCommand(h).id = h
    BY KnownIds DEF Inv, CloseCommand, Command, CommandType
  <2>3. PICK closing : closing = <<CloseCommand(h)>>
    OBVIOUS
  <2>4. closing \in Seq(CommandType) /\ Len(closing) = 1 /\ closing[1] = CloseCommand(h)
    BY <2>2, <2>3
  <2>5. Closing(closing, D)
    BY <2>1, <2>2, <2>4 DEF Closing
  <2>6. closing = Close(D)
    BY <2>1, <2>3, Closes
  <2> QED
    BY <2>4, <2>5, <2>6
<1> QED
  BY <1>1, <1>2

\* A stream that drops what it holds and tries its next candidate.
LEMMA BecomeInv ==
    ASSUME Inv, NEW s, NEW next, NEW dropped, AtMostOne(dropped),
           dropped \ {0} \subseteq handles, NEW requests, NoneOrOne(requests),
           Become(s, next, dropped, requests)
    PROVE  Inv' /\ Asks(requests)
<1> DEFINE D == dropped \ {0}
           open == Command("Open", nextId, 0, 0)
<1>1. /\ commands' = SendAll((IF requests = <<>> THEN <<>> ELSE <<open>>) \o Close(D))
      /\ handles' = handles \ dropped /\ opens' = opens \o requests
      /\ requests # <<>> =>
            /\ nextId <= MaxOpens /\ nextId' = nextId + 1
            /\ length' = [length EXCEPT ![nextId] = requests[1].size]
      /\ requests = <<>> => nextId' = nextId /\ length' = length
      /\ UNCHANGED <<running, files, canonCache, tasks, canon, truncates, renames, last, stopped,
                     reads>>
  BY DEF Become, reactor, NextId
<1>2. D \in SUBSET handles /\ handles' = handles \ D
  <2>1. 0 \notin handles
    BY KnownIds DEF Inv, Flow, Named
  <2> QED
    BY <1>1, <2>1
<1>3. PICK closing \in Seq(CommandType) : closing = Close(D) /\ Closing(closing, D)
  <2>1. AtMostOne(D)
    BY DEF AtMostOne
  <2> QED
    BY <1>2, <2>1, ClosingIs
<1>4. /\ open.op = "Open" /\ open.id = nextId /\ open.ticket = 0
      /\ requests # <<>> => open \in CommandType
  BY <1>1 DEF Command, CommandType, Ids, Inv, Basics
<1> HIDE DEF D, open
<1>5. PICK cs \in Seq(CommandType) :
        /\ commands' = SendAll(cs)
        /\ \A k \in 1 .. Len(cs) :
              \/ \E j \in 1 .. Len(closing) : cs[k] = closing[j]
              \/ k = 1 /\ requests # <<>> /\ cs[k] = open
        /\ \A j \in 1 .. Len(closing) : \E k \in 1 .. Len(cs) : cs[k] = closing[j]
  <2>1. CASE requests = <<>>
    <3>1. <<>> \o closing = closing
      OBVIOUS
    <3>2. commands' = SendAll(closing)
      BY <1>1, <1>3, <2>1, <3>1
    <3> QED
      BY <2>1, <3>2
  <2>2. CASE requests # <<>>
    <3>1. PICK cs : cs = <<open>> \o closing
      OBVIOUS
    <3>2. open \in CommandType
      BY <1>4, <2>2
    <3>3. PICK n \in Nat : n = Len(closing)
      OBVIOUS
    <3>4. /\ cs \in Seq(CommandType) /\ Len(cs) = n + 1 /\ cs[1] = open
          /\ \A k \in 2 .. n + 1 : cs[k] = closing[k - 1]
      BY <3>1, <3>2, <3>3
    <3>5. ASSUME NEW k \in 1 .. Len(cs), k # 1
          PROVE  \E j \in 1 .. Len(closing) : cs[k] = closing[j]
      <4>1. k \in 2 .. n + 1 /\ k - 1 \in 1 .. Len(closing)
        BY <3>3, <3>4, <3>5
      <4> QED
        BY <3>4, <4>1
    <3>6. ASSUME NEW j \in 1 .. Len(closing)
          PROVE  \E k \in 1 .. Len(cs) : cs[k] = closing[j]
      <4>1. j + 1 \in 1 .. Len(cs) /\ cs[j + 1] = closing[(j + 1) - 1] /\ (j + 1) - 1 = j
        BY <3>3, <3>4
      <4> QED
        BY <4>1
    <3>7. commands' = SendAll(cs)
      BY <1>1, <1>3, <2>2, <3>1
    <3> QED
      BY <2>2, <3>4, <3>5, <3>6, <3>7
  <2> QED
    BY <2>1, <2>2
<1>6. ASSUME NEW k \in 1 .. Len(cs)
       PROVE  \/ cs[k].op = "Close" /\ cs[k].id \in D
              \/ k = 1 /\ requests # <<>> /\ cs[k] = open
  <2>1. ASSUME NEW j \in 1 .. Len(closing), cs[k] = closing[j]
        PROVE  cs[k].op = "Close" /\ cs[k].id \in D
    BY <1>3, <2>1 DEF Closing
  <2> QED
    BY <1>5, <2>1
<1>7. /\ \A i \in Channel : i \in Channel' /\ commands'[i] = commands[i]
      /\ \A i \in Channel' \ Channel : \E k \in 1 .. Len(cs) : commands'[i] = cs[k]
      /\ commands' \in Seq(CommandType)
  <2>1. commands' = SendAll(cs) /\ commands \in Seq(CommandType)
    BY <1>5 DEF Inv, Basics
  <2> QED
    BY <2>1, SentAll
<1>8. Asks(requests)
  <2>1. ASSUME NEW i \in Channel' \ Channel
        PROVE  \/ commands'[i].op = "Close"
               \/ commands'[i].op = "Open" /\ commands'[i].id = nextId /\ requests # <<>>
    BY <1>4, <1>6, <1>7
  <2> QED
    BY <1>7, <2>1 DEF Asks
<1>9. Known \subseteq Known' /\ (requests # <<>> => nextId \in Known' \ Known)
  BY <1>1 DEF Known, Inv, Basics
<1>10. /\ Submitted \subseteq Submitted'
       /\ requests # <<>> => Op(open.op, open.id, open.ticket) \in Submitted' \ Submitted
  <2>1. 1 .. nextId - 1 \subseteq 1 .. nextId' - 1
    BY <1>1 DEF Inv, Basics
  <2>2. Submitted \subseteq Submitted'
    BY <1>1, <2>1, SubmittedGrows
  <2>3. requests # <<>> => Op(open.op, open.id, open.ticket) \in Submitted' \ Submitted
    BY <1>1, <1>4 DEF Submitted, Op, Inv, Basics
  <2> QED
    BY <2>2, <2>3
<1>11. Fair(cs, D)
  <2>1. ASSUME NEW k \in 1 .. Len(cs)
        PROVE  \/ cs[k].op = "Close" /\ cs[k].id \in D
               \/ /\ cs[k].op = "Open" /\ cs[k].id \in Known' \ Known /\ k = 1
                  /\ Op(cs[k].op, cs[k].id, cs[k].ticket) \in Submitted' \ Submitted
    <3>1. CASE k = 1 /\ requests # <<>> /\ cs[k] = open
      <4>1. open.op = "Open" /\ open.id \in Known' \ Known
        BY <1>4, <1>9, <3>1
      <4>2. Op(open.op, open.id, open.ticket) \in Submitted' \ Submitted
        BY <1>10, <3>1
      <4> QED
        BY <3>1, <4>1, <4>2
    <3> QED
      BY <1>6, <3>1
  <2>2. \A id \in D : \E k \in 1 .. Len(cs) : cs[k] = CloseCommand(id)
    <3>1. TAKE id \in D
    <3>2. PICK j \in 1 .. Len(closing) : closing[j] = CloseCommand(id)
      BY <1>3 DEF Closing
    <3>3. PICK k \in 1 .. Len(cs) : cs[k] = closing[j]
      BY <1>5
    <3> QED
      BY <3>2, <3>3
  <2>3. \A k, l \in 1 .. Len(cs) : cs[k].op \in Calls /\ cs[l].op \in Calls => k = l
    BY <2>1 DEF Calls
  <2> QED
    BY <2>1, <2>2, <2>3 DEF Fair
<1>12. Flow'
  <2>1. Basics /\ Flow /\ UNCHANGED <<running, files, tasks>>
    BY <1>1 DEF Inv
  <2> QED
    BY <1>2, <1>5, <1>9, <1>10, <1>11, <2>1, FlowSends
<1>13. Inv'
  <2>1. CASE requests = <<>>
    <3>1. opens' = opens
      BY <1>1, <2>1 DEF Inv, Basics
    <3>2. UNCHANGED <<canonCache, opens, nextId, disk, last>>
      BY <1>1, <2>1, <3>1 DEF disk
    <3> QED
      BY <1>1, <1>7, <1>12, <3>2, QuietInv DEF Inv, Basics
  <2>2. CASE requests # <<>>
    <3>1. PICK r \in Requests : requests = <<r>>
      BY <2>2 DEF NoneOrOne
    <3>2. opens' = Append(opens, r) /\ requests[1] = r
      BY <1>1, <3>1 DEF Inv, Basics
    <3>3. length' = [length EXCEPT ![nextId] = r.size] /\ nextId' = nextId + 1
      BY <1>1, <2>2, <3>2
    <3>4. nextId \in 1 .. MaxOpens
      BY <1>1, <2>2, EngineAssumption DEF Inv, Basics
    <3> QED
      BY <1>1, <1>7, <1>12, <3>2, <3>3, <3>4, OpenInv
  <2> QED
    BY <2>1, <2>2
<1> QED
  BY <1>8, <1>13
-----------------------------------------------------------------------------
(* What a step of the reactor does. *)

\* The task y is x, further on; a prefetch is of at most a chunk.
Later(x, y) ==
    /\ y \in TaskType /\ y.kind = x.kind /\ y.id = x.id /\ y.ticket = x.ticket
    /\ y.kind = "Open" => y.len <= ReadLen /\ y.got <= y.len

\* A task goes on, ends without a file, or has opened one.
Moves(x, y) ==
    /\ tasks' = (tasks \ {x}) \cup {y}
    /\ UNCHANGED <<files, handles, commands, last>>

Ends(x, y) ==
    /\ tasks' = tasks \ {x} /\ UNCHANGED <<files, handles, commands>>
    /\ \E result \in {"Ok", "NotFound", "PermissionDenied", "Loop", "Other"} :
          last' = Called(y, result) /\ (y.kind = "Open" => result # "Ok")

Progress(x, y) ==
    /\ UNCHANGED <<running, nextId, opens, reads, stopped>>
    /\ Later(x, y) /\ (Moves(x, y) \/ Ends(x, y) \/ (y.kind = "Open" /\ Opened(x, y)))

\* The task of a step that leaves the task as it is, but for its place.
LEMMA LaterAt ==
    ASSUME Inv, Asking, NEW x \in tasks
    PROVE  /\ Later(x, x)
           /\ \A at \in {"Follow", "Metadata"} : Later(x, [x EXCEPT !.at = at])
           /\ Later(x, [x EXCEPT !.at = "Metadata", !.linked = TRUE])
           /\ Later(x, [x EXCEPT !.got = 0])
<1>1. x \in TaskType /\ x.got <= x.len /\ (x.kind = "Open" => x.len <= ReadLen)
  BY DEF Inv, Sound, Asking
<1>2. Later(x, x)
  BY <1>1 DEF Later
<1>3. ASSUME NEW at \in {"Follow", "Metadata"} PROVE Later(x, [x EXCEPT !.at = at])
  BY <1>1 DEF Later, TaskType
<1>4. Later(x, [x EXCEPT !.at = "Metadata", !.linked = TRUE])
  BY <1>1 DEF Later, TaskType
<1>5. Later(x, [x EXCEPT !.got = 0])
  BY <1>1 DEF Later, TaskType
<1> QED
  BY <1>2, <1>3, <1>4, <1>5

\* The steps of opens before the prefetch ...
LEMMA OpenProgress ==
    ASSUME Inv, Asking, OpenNofollow \/ OpenFollow \/ OpenFails
    PROVE  \E x \in tasks, y \in TaskType : Progress(x, y)
<1>1. CASE OpenNofollow
  <2>1. PICK x \in tasks :
          /\ UNCHANGED commands
          /\ \/ Finish(x, x, "Loop") \/ Finish(x, x, "NotFound")
             \/ Goto(x, [x EXCEPT !.at = "Follow"]) \/ Goto(x, [x EXCEPT !.at = "Metadata"])
    BY <1>1 DEF OpenNofollow
  <2>2. CASE Finish(x, x, "Loop") \/ Finish(x, x, "NotFound")
    <3>1. Later(x, x) /\ x \in TaskType
      BY LaterAt DEF Later
    <3>2. Ends(x, x) /\ UNCHANGED <<running, nextId, opens, reads, stopped>>
      BY <2>1, <2>2 DEF Finish, Ends, client
    <3> QED
      BY <3>1, <3>2 DEF Progress
  <2>3. CASE \E at \in {"Follow", "Metadata"} : Goto(x, [x EXCEPT !.at = at])
    <3>1. PICK y : Later(x, y) /\ y \in TaskType /\ Goto(x, y)
      BY <2>3, LaterAt DEF Later
    <3>2. Moves(x, y) /\ UNCHANGED <<running, nextId, opens, reads, stopped>>
      BY <2>1, <3>1 DEF Goto, Moves, client
    <3> QED
      BY <3>1, <3>2 DEF Progress
  <2> QED
    BY <2>1, <2>2, <2>3
<1>2. CASE OpenFollow
  <2>1. PICK x \in tasks :
          /\ UNCHANGED commands
          /\ \/ Finish(x, x, "NotFound")
             \/ Goto(x, [x EXCEPT !.at = "Metadata", !.linked = TRUE])
    BY <1>2 DEF OpenFollow
  <2>2. CASE Finish(x, x, "NotFound")
    <3>1. Later(x, x) /\ x \in TaskType
      BY LaterAt DEF Later
    <3>2. Ends(x, x) /\ UNCHANGED <<running, nextId, opens, reads, stopped>>
      BY <2>1, <2>2 DEF Finish, Ends, client
    <3> QED
      BY <3>1, <3>2 DEF Progress
  <2>3. CASE Goto(x, [x EXCEPT !.at = "Metadata", !.linked = TRUE])
    <3>1. PICK y : Later(x, y) /\ y \in TaskType /\ Goto(x, y)
      BY <2>3, LaterAt DEF Later
    <3>2. Moves(x, y) /\ UNCHANGED <<running, nextId, opens, reads, stopped>>
      BY <2>1, <3>1 DEF Goto, Moves, client
    <3> QED
      BY <3>1, <3>2 DEF Progress
  <2> QED
    BY <2>1, <2>2, <2>3
<1>3. CASE OpenFails
  <2>1. PICK x \in tasks : Finish(x, x, "Other") /\ UNCHANGED commands
    BY <1>3 DEF OpenFails
  <2>2. Later(x, x) /\ x \in TaskType
    BY LaterAt DEF Later
  <2>3. Ends(x, x) /\ UNCHANGED <<running, nextId, opens, reads, stopped>>
    BY <2>1 DEF Finish, Ends, client
  <2> QED
    BY <2>2, <2>3 DEF Progress
<1> QED
  BY <1>1, <1>2, <1>3

\* ... the decision to prefetch ...
LEMMA MetadataProgress ==
    ASSUME Inv, Asking, OpenMetadata
    PROVE  \E x \in tasks, y \in TaskType : Progress(x, y)
<1> DEFINE Want(task) == IF opens[task.id].node = "Dir" THEN 0
                         ELSE IF opens[task.id].want < length[task.id]
                         THEN opens[task.id].want ELSE length[task.id]
           KnownTask(task) == [task EXCEPT !.size = length[task.id], !.len = Want(task)]
<1>1. PICK x \in tasks :
        /\ x.at = "Metadata"
        /\ \/ Finish(x, KnownTask(x), "PermissionDenied") /\ UNCHANGED commands
           \/ Goto(x, [KnownTask(x) EXCEPT !.at = "Read"]) /\ UNCHANGED commands
           \/ Opened(x, KnownTask(x))
  BY DEF OpenMetadata
<1>2. /\ x \in TaskType /\ x.kind = "Open" /\ x.got = 0 /\ x.id \in Ids
      /\ opens[x.id] \in RequestType /\ opens[x.id] \in Requests
  BY <1>1, KnownIds, EngineAssumption DEF Inv, Sound, SoundRead, SoundOpen, TaskType, Opening
<1>3. Want(x) \in Nat /\ Want(x) <= ReadLen /\ length[x.id] \in Nat
  <2>1. opens[x.id].want \in {0, ReadLen} /\ ReadLen \in Nat /\ length[x.id] \in Nat
    BY <1>2, ServerAssumption, EngineAssumption DEF Inv, Basics
  <2> QED
    BY <2>1
<1>4. Later(x, KnownTask(x)) /\ Later(x, [KnownTask(x) EXCEPT !.at = "Read"])
  <2>1. /\ KnownTask(x) \in TaskType /\ KnownTask(x).kind = "Open" /\ KnownTask(x).id = x.id
        /\ KnownTask(x).ticket = x.ticket /\ KnownTask(x).len = Want(x)
        /\ KnownTask(x).got = 0
    BY <1>2, <1>3 DEF TaskType
  <2> HIDE DEF KnownTask, Want
  <2>2. Later(x, KnownTask(x))
    BY <1>2, <1>3, <2>1 DEF Later
  <2>3. Later(x, [KnownTask(x) EXCEPT !.at = "Read"])
    BY <1>2, <1>3, <2>1 DEF Later, TaskType
  <2> QED
    BY <2>2, <2>3
<1> HIDE DEF KnownTask, Want
<1>5. CASE Finish(x, KnownTask(x), "PermissionDenied") /\ UNCHANGED commands
  <2>1. PICK y : y = KnownTask(x)
    OBVIOUS
  <2>2. Ends(x, y) /\ UNCHANGED <<running, nextId, opens, reads, stopped>>
    BY <1>5, <2>1 DEF Finish, Ends, client
  <2> QED
    BY <1>4, <2>1, <2>2 DEF Progress, Later
<1>6. CASE Goto(x, [KnownTask(x) EXCEPT !.at = "Read"]) /\ UNCHANGED commands
  <2>1. PICK y : y = [KnownTask(x) EXCEPT !.at = "Read"]
    OBVIOUS
  <2>2. Moves(x, y) /\ UNCHANGED <<running, nextId, opens, reads, stopped>>
    BY <1>6, <2>1 DEF Goto, Moves, client
  <2> QED
    BY <1>4, <2>1, <2>2 DEF Progress, Later
<1>7. CASE Opened(x, KnownTask(x))
  <2>1. PICK y : y = KnownTask(x)
    OBVIOUS
  <2>2. Opened(x, y) /\ UNCHANGED <<running, nextId, opens, reads, stopped>>
    BY <1>7, <2>1 DEF Opened
  <2> QED
    BY <1>2, <1>4, <2>1, <2>2 DEF Progress, Later
<1> QED
  BY <1>1, <1>5, <1>6, <1>7

\* ... and the reads.
LEMMA ReadProgress ==
    ASSUME Inv, Asking, ReadAt \/ ReadError \/ ReadDir
    PROVE  \E x \in tasks, y \in TaskType : Progress(x, y)
<1>1. PICK x \in tasks :
        /\ x.at = "Read" /\ x.kind \in {"Open", "Read"}
        /\ ReadFails(x) \/ ReadSome(x)
  <2>1. \A x \in tasks : /\ x.kind \in {"Open", "Read"}
                         /\ x.at \in {"Read", "Closed", "Dir"} => x.at = "Read"
    BY DEF Inv, Sound, SoundOpen, SoundRead, Asking, TaskType, Opening
  <2> QED
    BY <2>1 DEF ReadAt, ReadError, ReadDir
<1>2. CASE ReadFails(x)
  <2>1. CASE x.kind = "Read"
    <3>1. Later(x, x) /\ x \in TaskType
      BY LaterAt DEF Later
    <3>2. Finish(x, x, "Other") /\ UNCHANGED commands
      BY <1>1, <1>2, <2>1 DEF ReadFails
    <3>3. Ends(x, x) /\ UNCHANGED <<running, nextId, opens, reads, stopped>>
      BY <2>1, <3>2 DEF Finish, Ends, client
    <3> QED
      BY <3>1, <3>3 DEF Progress
  <2>2. CASE x.kind = "Open"
    <3>1. PICK y : y = [x EXCEPT !.got = 0]
      OBVIOUS
    <3>2. Later(x, y) /\ Opened(x, y)
      BY <1>2, <2>2, <3>1, LaterAt DEF ReadFails
    <3>3. UNCHANGED <<running, nextId, opens, reads, stopped>>
      BY <3>2 DEF Opened
    <3> QED
      BY <2>2, <3>2, <3>3 DEF Progress, Later
  <2> QED
    BY <1>1, <2>1, <2>2
<1>3. CASE ReadSome(x)
  <2>1. PICK n \in 0 .. Available(x) :
          \/ Goto(x, Advanced(x, n)) /\ UNCHANGED commands
          \/ x.kind = "Read" /\ Finish(x, Advanced(x, n), "Ok") /\ UNCHANGED commands
          \/ x.kind = "Open" /\ Opened(x, Advanced(x, n))
    BY <1>1, <1>3 DEF ReadSome, Advanced
  <2>2. PICK y : y = Advanced(x, n)
    OBVIOUS
  <2>3. /\ Sound(y) /\ y.kind = x.kind /\ y.id = x.id /\ y.ticket = x.ticket /\ y.len = x.len
    <3>1. y.len = x.len
      BY <2>2 DEF Advanced, Inv, Sound, TaskType
    <3> QED
      BY <1>1, <2>2, <3>1, Advances
  <2>4. Later(x, y) /\ y \in TaskType
    BY <2>3 DEF Later, Sound, Asking
  <2>5. CASE Goto(x, y) /\ UNCHANGED commands
    <3>1. Moves(x, y) /\ UNCHANGED <<running, nextId, opens, reads, stopped>>
      BY <2>5 DEF Goto, Moves, client
    <3> QED
      BY <2>4, <3>1 DEF Progress
  <2>6. CASE x.kind = "Read" /\ Finish(x, y, "Ok") /\ UNCHANGED commands
    <3>1. Ends(x, y) /\ UNCHANGED <<running, nextId, opens, reads, stopped>>
      BY <2>3, <2>6 DEF Finish, Ends, client
    <3> QED
      BY <2>4, <3>1 DEF Progress
  <2>7. CASE x.kind = "Open" /\ Opened(x, y)
    <3>1. Opened(x, y) /\ UNCHANGED <<running, nextId, opens, reads, stopped>>
      BY <2>7 DEF Opened
    <3> QED
      BY <2>3, <2>4, <2>7, <3>1 DEF Progress
  <2> QED
    BY <2>1, <2>2, <2>5, <2>6, <2>7
<1> QED
  BY <1>1, <1>2, <1>3
-----------------------------------------------------------------------------
(* What is kept when nothing new is asked for. *)

\* Owners and askers are not forgotten.
Remembers ==
    /\ Known \subseteq Known'
    /\ \A id \in Known : owner'[id] = owner[id]
    /\ \A t \in 1 .. Len(asker) : t \in 1 .. Len(asker') /\ asker'[t] = asker[t]

\* Asking is kept when commands are received, tasks go on and new commands are
\* sound.
LEMMA AskingKept ==
    ASSUME Inv, Asking, Remembers,
           \A i \in Channel' :
              \/ \E k \in Channel : commands'[i] = commands[k]
              \/ commands'[i].op \in {"Open", "Close", "Shutdown"}
              \/ \E id \in Known, t \in Nat : /\ commands'[i].op = "Read" /\ commands'[i].id = id
                                              /\ commands'[i].ticket = t /\ Asked(id, t)',
           \A y \in tasks' :
              /\ \/ \E x \in tasks : y.kind = x.kind /\ y.id = x.id /\ y.ticket = x.ticket
                 \/ \E k \in Channel : /\ y.kind = commands[k].op /\ y.id = commands[k].id
                                       /\ y.ticket = commands[k].ticket
              /\ y.kind = "Open" => y.len <= ReadLen
    PROVE  Asking'
<1>1. \A id \in Known : \A t : Asked(id, t) => Asked(id, t)'
  BY DEF Asked, Remembers
<1>2. \A k \in Channel : commands[k].op = "Read" => commands[k].id \in Known
  BY DEF Inv, Flow, Named
<1>3. \A x \in tasks : x.kind = "Read" => x.id \in Known
  BY DEF Inv, Sound, SoundRead
<1>4. \A k \in Channel : /\ commands[k].op # "ReadDir"
                         /\ commands[k].op = "Read" =>
                               Asked(commands[k].id, commands[k].ticket)
  BY DEF Asking
<1>5. \A x \in tasks : /\ x.kind # "ReadDir"
                       /\ x.kind = "Read" => Asked(x.id, x.ticket)
  BY DEF Asking
<1>6. ASSUME NEW i \in Channel'
      PROVE  /\ commands'[i].op # "ReadDir"
             /\ commands'[i].op = "Read" => (Asked(commands[i].id, commands[i].ticket))'
  <2>1. CASE \E k \in Channel : commands'[i] = commands[k]
    <3>1. PICK k \in Channel : commands'[i] = commands[k]
      BY <2>1
    <3>2. PICK id, t : id = commands[k].id /\ t = commands[k].ticket
      OBVIOUS
    <3>3. commands[k].op = "Read" => Asked(id, t)'
      BY <1>1, <1>2, <1>4, <3>2
    <3> QED
      BY <1>4, <3>1, <3>2, <3>3 DEF Asked
  <2>2. CASE commands'[i].op \in {"Open", "Close", "Shutdown"}
    BY <2>2
  <2>3. CASE \E id \in Known, t \in Nat :
                /\ commands'[i].op = "Read" /\ commands'[i].id = id
                /\ commands'[i].ticket = t /\ Asked(id, t)'
    BY <2>3 DEF Asked
  <2> QED
    BY <2>1, <2>2, <2>3
<1>7. ASSUME NEW y \in tasks'
      PROVE  /\ y.kind # "ReadDir" /\ (y.kind = "Read" => Asked(y.id, y.ticket)')
             /\ y.kind = "Open" => y.len <= ReadLen
  <2>1. CASE \E x \in tasks : y.kind = x.kind /\ y.id = x.id /\ y.ticket = x.ticket
    BY <1>1, <1>3, <1>5, <2>1
  <2>2. CASE \E k \in Channel : /\ y.kind = commands[k].op /\ y.id = commands[k].id
                                /\ y.ticket = commands[k].ticket
    BY <1>1, <1>2, <1>4, <2>2
  <2> QED
    BY <2>1, <2>2
<1> QED
  BY <1>6, <1>7 DEF Asking

\* The streams keep their handles and chunks.
SameStreams ==
    \A s \in Streams :
        /\ stream'[s].phase = stream[s].phase /\ stream'[s].handle = stream[s].handle
        /\ stream'[s].chunks = stream[s].chunks /\ stream'[s].nextSend = stream[s].nextSend
        /\ stream'[s].ready = stream[s].ready

\* Owning is kept by the steps that leave the streams, their events and their
\* handles alone.
LEMMA OwningKept ==
    ASSUME Owning, UNCHANGED <<bridge, owner, handles, nextId>>, SameStreams, Shape,
           \A id : Unanswered(id)' => Unanswered(id)
    PROVE  Owning'
<1>1. /\ Known' = Known /\ \A s \in Streams : /\ Holds(s)' = Holds(s)
                                              /\ OpenEvents(s)' = OpenEvents(s)
                                              /\ Events(s)' = Events(s)
  BY DEF Known, Holds, Carried, OpenEvents, Events, SameStreams
<1>2. SoundEvents'
  BY <1>1 DEF Owning, SoundEvents, SoundEvent
<1>3. Waiting'
  <2>1. \A id \in Known : (OpenEvents(owner[id]))' = OpenEvents(owner[id])
    BY DEF OpenEvents, Events
  <2> QED
    <3>1. \A id \in Known : /\ owner[id] \in Streams
                            /\ stream'[owner[id]].handle = stream[owner[id]].handle
                            /\ stream'[owner[id]].phase = stream[owner[id]].phase
      BY DEF Shape, SameStreams
    <3>2. \A s \in Streams : stream'[s].handle = stream[s].handle /\ stream'[s].phase = stream[s].phase
      BY DEF SameStreams
    <3>3. /\ \A s \in Streams : \A i, j \in OpenEvents(s)' : i = j
          /\ \A a, b \in Known : Unanswered(a)' /\ Unanswered(b)' /\ owner[a] = owner[b] => a = b
      BY <1>1 DEF Owning, Waiting
    <3>4. \A id \in Known : Unanswered(id)' =>
            /\ (OpenEvents(owner[id]))' = {}
            /\ stream'[owner[id]].handle = 0 /\ stream'[owner[id]].phase # "Idle"
      BY <2>1, <3>1 DEF Owning, Waiting
    <3>5. \A s \in Streams : OpenEvents(s)' # {} =>
            stream'[s].handle = 0 /\ stream'[s].phase # "Idle"
      BY <1>1, <3>2 DEF Owning, Waiting
    <3> QED
      BY <1>1, <3>3, <3>4, <3>5 DEF Waiting
<1>4. Holding' /\ Inert' /\ OwnHandles'
  BY <1>1 DEF Owning, Holding, Inert, SoundStream, OwnHandles, SameStreams
<1> QED
  BY <1>2, <1>3, <1>4 DEF Owning

\* A stream asked for a read on behalf of the owner of its file.
LEMMA AskingOwn ==
    ASSUME Asking, Owning
    PROVE  OwnFile
  BY DEF Asking, Owning, OwnHandles, OwnFile, Asked

\* The count of the tasks tells whether one of them has ended.
LEMMA Counts ==
    ASSUME IsFiniteSet(tasks), NEW x \in tasks
    PROVE  /\ tasks' = tasks \ {x} =>
                 IsFiniteSet(tasks') /\ Cardinality(tasks') < Cardinality(tasks)
           /\ \A y : tasks' = (tasks \ {x}) \cup {y} /\ y \notin tasks \ {x} =>
                 IsFiniteSet(tasks') /\ ~(Cardinality(tasks') < Cardinality(tasks))
<1>1. /\ IsFiniteSet(tasks \ {x}) /\ Cardinality(tasks \ {x}) = Cardinality(tasks) - 1
      /\ Cardinality(tasks) \in Nat
  BY FS_RemoveElement, FS_CardinalityType
<1>2. ASSUME NEW y, y \notin tasks \ {x}
      PROVE  /\ IsFiniteSet((tasks \ {x}) \cup {y})
             /\ Cardinality((tasks \ {x}) \cup {y}) = Cardinality(tasks \ {x}) + 1
  BY <1>1, <1>2, FS_AddElement
<1>3. ASSUME tasks' = tasks \ {x}
      PROVE  IsFiniteSet(tasks') /\ Cardinality(tasks') < Cardinality(tasks)
  BY <1>1, <1>3
<1>4. ASSUME NEW y, tasks' = (tasks \ {x}) \cup {y}, y \notin tasks \ {x}
      PROVE  IsFiniteSet(tasks') /\ ~(Cardinality(tasks') < Cardinality(tasks))
  <2>1. Cardinality(tasks') = Cardinality(tasks)
    BY <1>1, <1>2, <1>4
  <2> QED
    BY <1>1, <1>2, <1>4, <2>1
<1> QED
  BY <1>3, <1>4

\* A command that becomes a task, or is none, ends no task.
LEMMA CountsMore ==
    ASSUME IsFiniteSet(tasks), tasks' = tasks \/ \E y : tasks' = tasks \cup {y}
    PROVE  IsFiniteSet(tasks') /\ ~(Cardinality(tasks') < Cardinality(tasks))
<1>1. Cardinality(tasks) \in Nat
  BY FS_CardinalityType
<1>2. ASSUME NEW y, tasks' = tasks \cup {y}
      PROVE  /\ IsFiniteSet(tasks')
             /\ Cardinality(tasks') \in {Cardinality(tasks), Cardinality(tasks) + 1}
  BY <1>2, FS_AddElement
<1> QED
  BY <1>1, <1>2
-----------------------------------------------------------------------------
(* The bridges. *)

Pushes(s, event) == bridge' = [bridge EXCEPT ![s] = Append(bridge[s], event)]

\* An event goes to the end of a bridge.
LEMMA Pushed ==
    ASSUME bridge \in [Streams -> Seq(EventType)], NEW s \in Streams, NEW e \in EventType,
           Pushes(s, e)
    PROVE  /\ bridge' \in [Streams -> Seq(EventType)]
           /\ \A t \in Streams : t # s => bridge'[t] = bridge[t]
           /\ \A i \in Events(s) : i \in Events(s)' /\ bridge'[s][i] = bridge[s][i]
           /\ \A i \in Events(s)' \ Events(s) : i = Len(bridge[s]) + 1 /\ bridge'[s][i] = e
           /\ \E i \in Events(s)' : bridge'[s][i] = e
<1>1. bridge'[s] = Append(bridge[s], e) /\ bridge[s] \in Seq(EventType)
  BY DEF Pushes
<1>2. /\ Len(bridge'[s]) = Len(bridge[s]) + 1 /\ bridge'[s][Len(bridge[s]) + 1] = e
      /\ Len(bridge[s]) \in Nat /\ \A i \in Events(s) : bridge'[s][i] = bridge[s][i]
  BY <1>1 DEF Events
<1>3. /\ \A i \in Events(s) : i \in Events(s)'
      /\ \A i \in Events(s)' \ Events(s) : i = Len(bridge[s]) + 1
      /\ Len(bridge[s]) + 1 \in Events(s)'
  BY <1>2 DEF Events
<1>4. bridge' \in [Streams -> Seq(EventType)] /\ \A t \in Streams : t # s => bridge'[t] = bridge[t]
  BY DEF Pushes
<1> QED
  BY <1>2, <1>3, <1>4

\* What a stream holds, by its events.
LEMMA HoldsIs ==
    ASSUME NEW s \in Streams, NEW id
    PROVE  /\ id \in Holds(s) <=> id # 0 /\ \/ \E i \in Events(s) : bridge[s][i].handle = id
                                            \/ stream[s].handle = id
           /\ id \in Holds(s)' <=> id # 0 /\ \/ \E i \in Events(s)' : bridge'[s][i].handle = id
                                             \/ stream'[s].handle = id
  BY DEF Holds, Carried, Events

\* An event brings a stream the handle that it carries, and ends the wait for it.
LEMMA OwningDelivered ==
    ASSUME Shape, Owning, NEW s \in Streams, NEW e \in EventType, Pushes(s, e), SoundEvent(s, e),
           UNCHANGED <<stream, owner, nextId>>,
           handles' = handles \cup ({e.handle} \ {0}),
           e.kind = "Open" => Unanswered(e.id),
           \A id \in Known :
              Unanswered(id)' => Unanswered(id) /\ ~(e.kind = "Open" /\ id = e.id)
    PROVE  Owning'
<1>1. /\ \A t \in Streams : t # s => bridge'[t] = bridge[t]
      /\ \A i \in Events(s) : i \in Events(s)' /\ bridge'[s][i] = bridge[s][i]
      /\ \A i \in Events(s)' \ Events(s) : i = Len(bridge[s]) + 1 /\ bridge'[s][i] = e
      /\ \E i \in Events(s)' : bridge'[s][i] = e
  BY Pushed DEF Shape
<1>2. \A t \in Streams : t # s => Events(t)' = Events(t) /\ OpenEvents(t)' = OpenEvents(t)
  BY <1>1 DEF Events, OpenEvents
<1>3. Known' = Known
  BY DEF Known
<1>4. SoundEvents'
  <2>1. ASSUME NEW t \in Streams, NEW i \in Events(t)' PROVE SoundEvent(t, bridge'[t][i])
    BY <1>1, <1>2 DEF Owning, SoundEvents
  <2> QED
    BY <1>3, <2>1 DEF SoundEvents, SoundEvent
<1>5. \A i \in OpenEvents(s)' : i \in OpenEvents(s) \/ (i = Len(bridge[s]) + 1 /\ e.kind = "Open")
  BY <1>1 DEF OpenEvents
<1>6. e.kind = "Open" => /\ e.id \in Known /\ owner[e.id] = s /\ OpenEvents(s) = {}
                         /\ stream[s].handle = 0 /\ stream[s].phase # "Idle"
  BY DEF SoundEvent, Owning, Waiting
<1>7. Waiting'
  <2>1. ASSUME NEW t \in Streams, NEW i \in OpenEvents(t)', NEW j \in OpenEvents(t)' PROVE i = j
    BY <1>2, <1>5, <1>6 DEF Owning, Waiting
  <2>2. \A a, b \in Known : Unanswered(a)' /\ Unanswered(b)' /\ owner[a] = owner[b] => a = b
    BY DEF Owning, Waiting
  <2>3. ASSUME NEW id \in Known, Unanswered(id)' PROVE (OpenEvents(owner[id]))' = {}
    <3>1. PICK t \in Streams : t = owner[id]
      BY DEF Shape
    <3>2. OpenEvents(t) = {}
      BY <2>3, <3>1 DEF Owning, Waiting
    <3>3. t = s => e.kind # "Open"
      BY <1>6, <2>3, <3>1 DEF Owning, Waiting
    <3>4. OpenEvents(t)' = {}
      BY <1>2, <1>5, <3>2, <3>3
    <3>5. t = owner'[id]
      BY <3>1
    <3> QED
      BY <3>4, <3>5 DEF OpenEvents, Events
  <2>4. ASSUME NEW t \in Streams, OpenEvents(t)' # {}
        PROVE  stream[t].handle = 0 /\ stream[t].phase # "Idle"
    BY <1>2, <1>5, <1>6, <2>4 DEF Owning, Waiting
  <2>5. \A id \in Known : Unanswered(id)' =>
          stream[owner[id]].handle = 0 /\ stream[owner[id]].phase # "Idle"
    BY DEF Owning, Waiting
  <2> QED
    BY <1>3, <2>1, <2>2, <2>3, <2>4, <2>5 DEF Waiting
<1>8. \A t \in Streams, id \in handles' :
        id \in Holds(t)' <=> id \in Holds(t) \/ (t = s /\ id = e.handle /\ id # 0)
  <2>1. ASSUME NEW t \in Streams, NEW id
        PROVE  id \in Holds(t)' <=> id \in Holds(t) \/ (t = s /\ id = e.handle /\ id # 0)
    BY <1>1, <1>2, HoldsIs
  <2> QED
    BY <2>1
<1>9. \A t \in Streams : \A id \in Holds(t)' :
        id \in Holds(t) \/ (t = s /\ id = e.handle /\ id # 0)
  <2>1. ASSUME NEW t \in Streams, NEW id, id \in Holds(t)'
        PROVE  id \in Holds(t) \/ (t = s /\ id = e.handle /\ id # 0)
    BY <1>1, <1>2, <2>1, HoldsIs
  <2> QED
    BY <2>1
<1>10. Holding'
  BY <1>8, <1>9 DEF Owning, Holding
<1>11. OwnHandles'
  <2>1. e.handle # 0 => owner[e.handle] = s
    BY DEF SoundEvent, EventType
  <2> QED
    BY <1>9, <2>1 DEF Owning, OwnHandles
<1>12. Inert'
  BY DEF Owning, Inert
<1> QED
  BY <1>4, <1>7, <1>10, <1>11, <1>12 DEF Owning
-----------------------------------------------------------------------------
(* The steps of the reactor. *)

\* A step that leaves the streams as they are and ends no task.
LEMMA QuietServer ==
    ASSUME ServerInv, Inv', Asking', IsFiniteSet(tasks'), running' => running,
           module' = "Unloaded" => ~running',
           UNCHANGED <<stream, bridge, closed, owner, asker, handles, nextId, reads>>,
           \A id : Unanswered(id)' => Unanswered(id)
    PROVE  ServerInv'
<1>1. Shape'
  BY DEF ServerInv, Shape, Known
<1>2. Owning'
  BY OwningKept DEF ServerInv, SameStreams
<1> QED
  BY <1>1, <1>2 DEF ServerInv

\* The task of an open that ends is the only one that stands for it.
LEMMA EndsWait ==
    ASSUME Inv, NEW x \in tasks, tasks' = tasks \ {x},
           \A i \in Channel' : \/ \E k \in Channel : commands'[i] = commands[k]
                               \/ commands'[i].op = "Close"
    PROVE  \A id : Unanswered(id)' => Unanswered(id) /\ ~(x.kind = "Open" /\ id = x.id)
<1> SUFFICES ASSUME NEW id, Unanswered(id)'
             PROVE  Unanswered(id) /\ ~(x.kind = "Open" /\ id = x.id)
  OBVIOUS
<1>1. CASE \E i \in Channel' : commands'[i].op = "Open" /\ commands'[i].id = id
  <2>1. PICK k \in Channel : commands[k].op = "Open" /\ commands[k].id = id
    BY <1>1
  <2>2. k \in Queued /\ CommandOp(k) = [open |-> TRUE, n |-> id]
    BY <2>1 DEF Queued, Calls, CommandOp, Op
  <2>3. x.kind = "Open" /\ id = x.id => TaskOp(x) = [open |-> TRUE, n |-> id]
    BY DEF TaskOp, Op
  <2>4. CommandOp(k) # TaskOp(x)
    BY <2>2 DEF Inv, Flow, Once
  <2> QED
    BY <2>1, <2>2, <2>3, <2>4 DEF Unanswered
<1>2. CASE \E task \in tasks' : task.kind = "Open" /\ task.id = id
  <2>1. PICK task \in tasks : task # x /\ task.kind = "Open" /\ task.id = id
    BY <1>2
  <2>2. TaskOp(task) # TaskOp(x)
    BY <2>1 DEF Inv, Flow, Once
  <2>3. x.kind = "Open" /\ id = x.id => TaskOp(task) = TaskOp(x)
    BY <2>1 DEF TaskOp, Op
  <2> QED
    BY <2>1, <2>2, <2>3 DEF Unanswered
<1> QED
  BY <1>1, <1>2 DEF Unanswered

\* What the callback brings: the event is for the stream that asked.
LEMMA EventIs ==
    ASSUME ServerInv, NEW x \in tasks, NEW y, Later(x, y),
           NEW result \in {"Ok", "NotFound", "PermissionDenied", "Loop", "Other"},
           NEW call, call = Called(y, result)
    PROVE  /\ Recipient(call) \in Streams /\ EventOf(call) \in EventType
           /\ SoundEvent(Recipient(call), EventOf(call))
           /\ EventOf(call).kind = x.kind /\ EventOf(call).id = x.id
           /\ EventOf(call).handle =
                 IF x.kind = "Open" /\ result = "Ok" /\ ~Prefetched(y) THEN x.id ELSE 0
<1>1. call.task = y /\ call.result = result
  BY DEF Called
<1>2. /\ x.kind \in {"Open", "Read"} /\ x.id \in Known /\ x.id \in Ids /\ x.id # 0
      /\ x.kind = "Read" => Asked(x.id, x.ticket)
  BY KnownIds DEF ServerInv, Inv, Sound, SoundOpen, SoundRead, TaskType, Asking
<1>3. /\ y \in TaskType /\ y.kind = x.kind /\ y.id = x.id /\ y.ticket = x.ticket
      /\ y.kind = "Open" => y.len <= ReadLen /\ y.got <= y.len
  BY DEF Later
<1>4. x.kind = "Read" => asker[y.ticket + 1] \in AskerType
  BY <1>2, <1>3 DEF ServerInv, Shape, Asked
<1>5. Recipient(call) \in Streams
  BY <1>1, <1>2, <1>3, <1>4 DEF Recipient, AskerType, ServerInv, Shape
<1>6. PICK e : e = EventOf(call)
  OBVIOUS
<1>7. /\ e.kind = x.kind /\ e.id = x.id /\ (e.ok <=> result = "Ok")
      /\ e.handle = IF x.kind = "Open" /\ result = "Ok" /\ ~Prefetched(y) THEN x.id ELSE 0
      /\ e.size = y.size /\ e.got = y.got
  BY <1>1, <1>3, <1>6 DEF EventOf
<1>8. e \in EventType
  <2>1. PICK seq \in Nat : seq = IF y.kind = "Read" THEN asker[y.ticket + 1].seq ELSE 0
    BY <1>3, <1>4 DEF AskerType
  <2>2. PICK handle \in Ids \cup {0} :
          handle = IF y.kind = "Open" /\ result = "Ok" /\ ~Prefetched(y) THEN y.id ELSE 0
    BY <1>2, <1>3
  <2>3. e = [kind |-> y.kind, id |-> y.id, seq |-> seq, ok |-> result = "Ok",
             handle |-> handle, size |-> y.size, got |-> y.got]
    BY <1>1, <1>6, <2>1, <2>2 DEF EventOf
  <2>4. y.kind \in {"Open", "Read"} /\ y.id \in Ids /\ y.size \in Nat /\ y.got \in Nat
    BY <1>2, <1>3 DEF TaskType
  <2>5. (result = "Ok") \in BOOLEAN
    OBVIOUS
  <2> QED
    BY <2>3, <2>4, <2>5 DEF EventType
<1>9. SoundEvent(Recipient(call), e)
  <2>1. CASE x.kind = "Open"
    <3>1. Recipient(call) = owner[x.id]
      BY <1>1, <1>3, <2>1 DEF Recipient
    <3>2. ASSUME e.ok, e.handle = 0 PROVE e.got = e.size /\ e.got <= ReadLen
      <4>1. Prefetched(y)
        BY <1>2, <1>7, <2>1, <3>2
      <4>2. y.got = y.size /\ y.got <= y.len /\ y.len <= ReadLen
        BY <1>3, <2>1, <4>1 DEF Prefetched
      <4>3. y.got \in Nat /\ y.len \in Nat /\ ReadLen \in Nat
        BY <1>3, EngineAssumption DEF TaskType
      <4> QED
        BY <1>7, <4>2, <4>3
    <3> QED
      BY <1>2, <1>7, <2>1, <3>1, <3>2 DEF SoundEvent
  <2>2. CASE x.kind = "Read"
    BY <1>7, <2>2 DEF SoundEvent
  <2> QED
    BY <1>2, <2>1, <2>2
<1> QED
  BY <1>5, <1>6, <1>7, <1>8, <1>9

\* A task goes on, or ends with its event.
LEMMA TaskServer ==
    ASSUME ServerInv, Reactor(TaskStep) \/ Reactor(OpenFails) \/ Reactor(ReadError)
    PROVE  ServerInv'
<1>1. /\ TaskStep \/ OpenFails \/ ReadError
      /\ UNCHANGED <<module, stream, closed, owner, asker>>
      /\ IF running' /\ Cardinality(tasks') < Cardinality(tasks) THEN Deliver(last')
         ELSE UNCHANGED bridge
  BY DEF Reactor
<1>2. Inv'
  BY <1>1, InvStep DEF ServerInv, Next
<1>3. PICK x \in tasks, y \in TaskType : Progress(x, y)
  BY <1>1, OpenProgress, MetadataProgress, ReadProgress DEF TaskStep, ServerInv
<1>4. /\ running /\ running' /\ UNCHANGED <<nextId, opens, reads>> /\ Later(x, y)
      /\ IsFiniteSet(tasks) /\ commands \in Seq(CommandType)
      /\ x.kind \in {"Open", "Read"} /\ x.id \in Known
  BY <1>3 DEF ServerInv, Inv, Flow, Halted, Progress, Shape, Basics, Sound, SoundOpen, SoundRead,
     TaskType, Asking
<1>5. Remembers
  BY <1>1, <1>4 DEF Remembers, Known
<1>6. CASE Moves(x, y)
  <2>1. tasks' = (tasks \ {x}) \cup {y} /\ UNCHANGED <<handles, commands>>
    BY <1>6 DEF Moves
  <2>2. y \notin tasks \ {x}
    <3>1. TaskOp(y) = TaskOp(x)
      BY <1>4 DEF Later, TaskOp
    <3> QED
      BY <3>1 DEF ServerInv, Inv, Flow, Once
  <2>3. IsFiniteSet(tasks') /\ UNCHANGED bridge
    BY <1>1, <1>4, <2>1, <2>2, Counts
  <2>4. Asking'
    <3>1. \A i \in Channel' : \E k \in Channel : commands'[i] = commands[k]
      BY <2>1 DEF Channel
    <3>2. ASSUME NEW z \in tasks'
          PROVE  /\ \E w \in tasks : z.kind = w.kind /\ z.id = w.id /\ z.ticket = w.ticket
                 /\ z.kind = "Open" => z.len <= ReadLen
      BY <1>4, <2>1 DEF Later, ServerInv, Asking
    <3> QED
      BY <1>5, <3>1, <3>2, AskingKept DEF ServerInv
  <2>5. \A id : Unanswered(id)' => Unanswered(id)
    BY <1>4, <2>1 DEF Unanswered, Later, Channel
  <2> QED
    BY <1>1, <1>2, <1>4, <2>1, <2>3, <2>4, <2>5, QuietServer DEF ServerInv, Shape
<1>7. CASE Ends(x, y) \/ (y.kind = "Open" /\ Opened(x, y))
  <2>1. tasks' = tasks \ {x}
    BY <1>7 DEF Ends, Opened
  <2>2. IsFiniteSet(tasks') /\ Deliver(last')
    BY <1>1, <1>4, <2>1, Counts
  <2>3. PICK result \in {"Ok", "NotFound", "PermissionDenied", "Loop", "Other"} :
          /\ last' = Called(y, result)
          /\ \/ /\ UNCHANGED <<handles, commands>>
                /\ x.kind = "Open" /\ result = "Ok" => Prefetched(y)
             \/ /\ x.kind = "Open" /\ result = "Ok" /\ ~Prefetched(y)
                /\ handles' = handles \cup {x.id} /\ UNCHANGED commands
             \/ /\ x.kind = "Open" /\ result = "Ok" /\ ~Prefetched(y)
                /\ UNCHANGED handles /\ commands' = Send(CloseCommand(x.id))
    BY <1>4, <1>7 DEF Ends, Opened, Later
  <2>4. PICK call : call = last'
    OBVIOUS
  <2>5. /\ Recipient(call) \in Streams /\ EventOf(call) \in EventType
        /\ SoundEvent(Recipient(call), EventOf(call))
        /\ EventOf(call).kind = x.kind /\ EventOf(call).id = x.id
        /\ EventOf(call).handle =
              IF x.kind = "Open" /\ result = "Ok" /\ ~Prefetched(y) THEN x.id ELSE 0
    BY <1>4, <2>3, <2>4, EventIs
  <2>6. /\ CloseCommand(x.id) \in CommandType /\ CloseCommand(x.id).op = "Close"
        /\ x.id # 0
    BY <1>4, KnownIds DEF ServerInv, Inv, CloseCommand, Command, CommandType
  <2>7. \A i \in Channel' : \/ \E k \in Channel : commands'[i] = commands[k]
                            \/ commands'[i].op = "Close"
    <3>1. CASE UNCHANGED commands
      BY <3>1 DEF Channel
    <3>2. CASE commands' = Send(CloseCommand(x.id))
      BY <1>4, <2>6, <3>2, Sent
    <3> QED
      BY <2>3, <3>1, <3>2
  <2>8. Asking'
    <3>1. ASSUME NEW z \in tasks'
          PROVE  /\ \E w \in tasks : z.kind = w.kind /\ z.id = w.id /\ z.ticket = w.ticket
                 /\ z.kind = "Open" => z.len <= ReadLen
      BY <2>1 DEF ServerInv, Asking
    <3> QED
      BY <1>5, <2>7, <3>1, AskingKept DEF ServerInv
  <2>9. \A id : Unanswered(id)' => Unanswered(id) /\ ~(x.kind = "Open" /\ id = x.id)
    BY <2>1, <2>7, EndsWait DEF ServerInv
  <2>10. CASE Recipient(call) \in closed
    <3>1. UNCHANGED <<handles, bridge>>
      BY <2>2, <2>4, <2>10 DEF Deliver
    <3> QED
      BY <1>1, <1>2, <1>4, <2>2, <2>8, <2>9, <3>1, QuietServer DEF ServerInv, Shape
  <2>11. CASE Recipient(call) \notin closed
    <3>1. PICK s, e : s = Recipient(call) /\ e = EventOf(call)
      OBVIOUS
    <3>2. Pushes(s, e) /\ commands' = commands
      BY <2>2, <2>4, <2>11, <3>1 DEF Deliver, Pushes
    <3>3. handles' = handles \cup ({e.handle} \ {0})
      <4>1. commands' # Send(CloseCommand(x.id))
        <5>1. Len(Append(commands, CloseCommand(x.id))) # Len(commands)
          BY <1>4, <2>6
        <5> QED
          BY <1>4, <3>2, <5>1 DEF Send
      <4> QED
        BY <2>3, <2>5, <2>6, <3>1, <4>1
    <3>4. e.kind = "Open" => Unanswered(e.id)
      BY <2>5, <3>1 DEF Unanswered
    <3>5. Owning'
      BY <1>1, <1>4, <2>5, <2>9, <3>1, <3>2, <3>3, <3>4, OwningDelivered DEF ServerInv
    <3>6. Shape'
      <4>1. bridge' \in [Streams -> Seq(EventType)]
        BY <2>5, <3>1, <3>2, Pushed DEF ServerInv, Shape
      <4> QED
        BY <1>1, <1>4, <2>2, <4>1 DEF ServerInv, Shape, Known
    <3> QED
      BY <1>2, <2>8, <3>5, <3>6 DEF ServerInv
  <2> QED
    BY <2>10, <2>11
<1> QED
  BY <1>3, <1>6, <1>7 DEF Progress

\* A command is received.
LEMMA ReceiveServer ==
    ASSUME ServerInv, Reactor(Receive)
    PROVE  ServerInv'
<1>1. /\ Receive /\ UNCHANGED <<module, stream, closed, owner, asker>>
      /\ IF running' /\ Cardinality(tasks') < Cardinality(tasks) THEN Deliver(last')
         ELSE UNCHANGED bridge
  BY DEF Reactor
<1>2. Inv'
  BY <1>1, InvStep DEF ServerInv, Next
<1>3. UNCHANGED <<handles, opens, reads, nextId>>
  BY <1>1 DEF Receive, ReceiveOpen, ReceiveRead, ReceiveReadDir, ReceiveClose, ReceiveShutdown,
     client
<1>4. Remembers
  BY <1>1, <1>3 DEF Remembers, Known
<1>5. CASE ReceiveShutdown
  <2>1. tasks' = {} /\ commands' = <<>> /\ running' = FALSE
    BY <1>5 DEF ReceiveShutdown
  <2>2. IsFiniteSet(tasks') /\ UNCHANGED bridge
    BY <1>1, <2>1, FS_EmptySet
  <2>3. Channel' = {}
    BY <2>1 DEF Channel
  <2>4. Asking' /\ \A id : ~Unanswered(id)'
    BY <2>1, <2>3 DEF Asking, Unanswered
  <2> QED
    BY <1>1, <1>2, <1>3, <2>1, <2>2, <2>4, QuietServer
<1>6. CASE ReceiveOpen \/ ReceiveRead \/ ReceiveReadDir \/ ReceiveClose
  <2>1. Take /\ UNCHANGED running
    BY <1>6 DEF ReceiveOpen, ReceiveRead, ReceiveReadDir, ReceiveClose, Receives, Take
  <2>2. /\ 1 \in Channel /\ Head(commands) = commands[1] /\ commands[1] \in CommandType
        /\ \A i \in Channel' : \E k \in Channel : commands'[i] = commands[k]
    BY <2>1, Received DEF ServerInv, Inv, Basics
  <2>3. \/ tasks' = tasks
        \/ \E y : /\ tasks' = tasks \cup {y} /\ y.kind = commands[1].op /\ y.id = commands[1].id
                  /\ y.ticket = commands[1].ticket /\ (y.kind = "Open" => y.len <= ReadLen)
    <3>1. CASE ReceiveOpen
      <4>1. PICK y : y = [Task(Head(commands), "Nofollow") EXCEPT
                            !.seen = {canon[opens[Head(commands).id].dir]}]
        OBVIOUS
      <4>2. tasks' = tasks \cup {y}
        BY <3>1, <4>1 DEF ReceiveOpen
      <4>3. /\ y.kind = commands[1].op /\ y.id = commands[1].id
            /\ y.ticket = commands[1].ticket /\ y.len = 0
        BY <2>2, <4>1 DEF Task
      <4> QED
        BY <4>2, <4>3, EngineAssumption
    <3>2. CASE ReceiveRead
      <4>1. PICK y : y = [Task(Head(commands),
                               IF Head(commands).id \in files THEN "Read" ELSE "Closed")
                          EXCEPT !.len = ReadLen, !.size = length[Head(commands).id]]
        OBVIOUS
      <4>2. tasks' = tasks \cup {y} /\ Head(commands).op = "Read"
        BY <3>2, <4>1 DEF ReceiveRead, Receives
      <4>3. /\ y.kind = commands[1].op /\ y.id = commands[1].id
            /\ y.ticket = commands[1].ticket
        BY <2>2, <4>1 DEF Task
      <4> QED
        BY <2>2, <4>2, <4>3
    <3>3. CASE ReceiveReadDir
      BY <2>2, <3>3 DEF ReceiveReadDir, Receives, ServerInv, Asking
    <3>4. CASE ReceiveClose
      BY <3>4 DEF ReceiveClose
    <3> QED
      BY <1>6, <3>1, <3>2, <3>3, <3>4
  <2>4. IsFiniteSet(tasks') /\ UNCHANGED bridge
    BY <1>1, <2>3, CountsMore DEF ServerInv, Shape
  <2>5. Asking'
    <3>1. ASSUME NEW z \in tasks'
          PROVE  /\ \/ \E w \in tasks : z.kind = w.kind /\ z.id = w.id /\ z.ticket = w.ticket
                    \/ \E k \in Channel : /\ z.kind = commands[k].op /\ z.id = commands[k].id
                                          /\ z.ticket = commands[k].ticket
                 /\ z.kind = "Open" => z.len <= ReadLen
      BY <2>2, <2>3 DEF ServerInv, Asking
    <3> QED
      BY <1>4, <2>2, <3>1, AskingKept DEF ServerInv
  <2>6. \A id : Unanswered(id)' => Unanswered(id)
    BY <2>2, <2>3 DEF Unanswered
  <2> QED
    BY <1>1, <1>2, <1>3, <2>1, <2>4, <2>5, <2>6, QuietServer DEF ServerInv, Shape
<1> QED
  BY <1>1, <1>5, <1>6 DEF Receive
-----------------------------------------------------------------------------
(* The steps of the streams. *)

\* An open that stream s waits for, sent or under way.
Awaits(s) == \E id \in Known : owner[id] = s /\ Unanswered(id)

\* A stream that goes on as `next` keeps the invariant if it drops what it no
\* longer holds, and opens a file only when it waits for none.
LEMMA BecomeServer ==
    ASSUME ServerInv, NEW s \in Streams, NEW next \in StreamRecord, NEW dropped,
           AtMostOne(dropped), dropped \ {0} \subseteq Holds(s),
           NEW requests, NoneOrOne(requests),
           Become(s, next, dropped, requests),
           bridge' \in [Streams -> Seq(EventType)],
           \A t \in Streams : t # s => bridge'[t] = bridge[t],
           \A i \in Events(s)' : \E k \in Events(s) : bridge'[s][i] = bridge[s][k],
           \A i, j \in OpenEvents(s)' : i = j,
           \A id : id \in Holds(s)' <=> id \in Holds(s) /\ id \notin dropped,
           OpenEvents(s)' # {} \/ Awaits(s) \/ requests # <<>> =>
              next.handle = 0 /\ next.phase # "Idle",
           Awaits(s) \/ requests # <<>> => OpenEvents(s)' = {},
           requests # <<>> => ~Awaits(s),
           SoundStream(next)
    PROVE  ServerInv'
<1>1. dropped \ {0} \subseteq handles
  BY DEF ServerInv, Owning, Holding
<1>2. Inv' /\ Asks(requests)
  BY <1>1, BecomeInv DEF ServerInv
<1>3. /\ stream' = [stream EXCEPT ![s] = next] /\ handles' = handles \ dropped
      /\ requests = <<>> => owner' = owner /\ nextId' = nextId
      /\ requests # <<>> => /\ owner' = [owner EXCEPT ![nextId] = s] /\ nextId' = nextId + 1
                            /\ nextId <= MaxOpens
      /\ UNCHANGED <<running, tasks, reads, module, closed, asker>>
  BY DEF Become, reactor, NextId
<1>4. nextId \in Nat \ {0} /\ nextId \notin Known /\ (requests # <<>> => nextId \in Ids)
  BY <1>3 DEF ServerInv, Inv, Basics, Known, Ids
<1>5. /\ Known' = IF requests = <<>> THEN Known ELSE Known \cup {nextId}
      /\ \A id \in Known : owner'[id] = owner[id] /\ owner[id] \in Streams
      /\ requests # <<>> => owner'[nextId] = s
  <2>1. Known' = IF requests = <<>> THEN Known ELSE Known \cup {nextId}
    <3>1. 1 .. (nextId + 1) - 1 = (1 .. nextId - 1) \cup {nextId}
      BY <1>4
    <3> QED
      BY <1>3, <3>1 DEF Known
  <2>2. \A id \in Known : id \in Ids /\ id # nextId
    BY <1>4, KnownIds DEF ServerInv, Inv
  <2>3. owner \in [Ids -> Streams \cup {"Nobody"}] /\ \A id \in Known : owner[id] \in Streams
    BY DEF ServerInv, Shape
  <2> QED
    BY <1>3, <1>4, <2>1, <2>2, <2>3
<1>6. /\ stream'[s] = next /\ \A t \in Streams : t # s => stream'[t] = stream[t]
      /\ stream' \in [Streams -> StreamRecord]
  BY <1>3 DEF ServerInv, Shape
<1>7. Shape'
  <2>1. owner' \in [Ids -> Streams \cup {"Nobody"}]
    BY <1>3 DEF ServerInv, Shape
  <2>2. \A id \in Known' : owner'[id] \in Streams
    BY <1>5
  <2> QED
    BY <1>3, <1>6, <2>1, <2>2 DEF ServerInv, Shape
<1>8. Asking'
  <2>1. Remembers
    BY <1>3, <1>5 DEF Remembers
  <2>2. \A i \in Channel' : \/ \E k \in Channel : commands'[i] = commands[k]
                            \/ commands'[i].op \in {"Open", "Close", "Shutdown"}
    BY <1>2 DEF Asks
  <2>3. \A y \in tasks' :
          /\ \E x \in tasks : y.kind = x.kind /\ y.id = x.id /\ y.ticket = x.ticket
          /\ y.kind = "Open" => y.len <= ReadLen
    BY <1>3 DEF ServerInv, Asking
  <2> QED
    BY <2>1, <2>2, <2>3, AskingKept DEF ServerInv
<1>9. \A id : Unanswered(id)' => Unanswered(id) \/ (id = nextId /\ requests # <<>>)
  BY <1>2, <1>3 DEF Unanswered, Asks
<1>10. \A t \in Streams : t # s => Events(t)' = Events(t) /\ OpenEvents(t)' = OpenEvents(t)
  BY DEF Events, OpenEvents
<1>11. SoundEvents'
  <2>1. ASSUME NEW t \in Streams, NEW i \in Events(t)' PROVE SoundEvent(t, bridge'[t][i])
    BY <1>10 DEF ServerInv, Owning, SoundEvents
  <2>2. ASSUME NEW t, NEW event, SoundEvent(t, event) PROVE SoundEvent(t, event)'
    BY <1>5, <2>2 DEF SoundEvent
  <2>3. ASSUME NEW t \in Streams, NEW i \in Events(t)' PROVE (SoundEvent(t, bridge[t][i]))'
    <3>1. PICK event : event = bridge'[t][i]
      OBVIOUS
    <3>2. SoundEvent(t, event)'
      BY <2>1, <2>2, <3>1
    <3> QED
      BY <3>1, <3>2 DEF SoundEvent
  <2> QED
    BY <2>3 DEF SoundEvents
<1>12. Waiting'
  <2>1. ASSUME NEW t \in Streams, NEW i \in OpenEvents(t)', NEW j \in OpenEvents(t)' PROVE i = j
    BY <1>10 DEF ServerInv, Owning, Waiting
  <2>2. ASSUME NEW a \in Known', NEW b \in Known', Unanswered(a)', Unanswered(b)',
               owner'[a] = owner'[b]
        PROVE  a = b
    <3>1. /\ a \in Known => Unanswered(a) /\ owner'[a] = owner[a]
          /\ b \in Known => Unanswered(b) /\ owner'[b] = owner[b]
      BY <1>4, <1>5, <1>9, <2>2
    <3>2. CASE a \in Known /\ b \in Known
      BY <2>2, <3>1, <3>2 DEF ServerInv, Owning, Waiting
    <3>3. CASE requests # <<>> /\ a = nextId
      BY <1>5, <2>2, <3>1, <3>3 DEF Awaits
    <3>4. CASE requests # <<>> /\ b = nextId
      BY <1>5, <2>2, <3>1, <3>4 DEF Awaits
    <3> QED
      BY <1>5, <2>2, <3>2, <3>3, <3>4
  <2>3. ASSUME NEW id \in Known', Unanswered(id)'
        PROVE  \E t \in Streams : /\ t = owner'[id] /\ OpenEvents(t)' = {}
                                  /\ stream'[t].handle = 0 /\ stream'[t].phase # "Idle"
    <3>1. CASE id \in Known
      <4>1. PICK t \in Streams : t = owner[id] /\ t = owner'[id]
        BY <1>5, <3>1
      <4>2. Unanswered(id)
        BY <1>4, <1>9, <2>3, <3>1
      <4>3. CASE t = s
        <5>1. Awaits(s)
          BY <3>1, <4>1, <4>2, <4>3 DEF Awaits
        <5> QED
          BY <1>6, <4>1, <4>3, <5>1
      <4>4. CASE t # s
        <5>1. /\ OpenEvents(t) = {} /\ stream[t].handle = 0 /\ stream[t].phase # "Idle"
          BY <3>1, <4>1, <4>2 DEF ServerInv, Owning, Waiting
        <5> QED
          BY <1>6, <1>10, <4>1, <4>4, <5>1
      <4> QED
        BY <4>3, <4>4
    <3>2. CASE id \notin Known
      <4>1. requests # <<>> /\ owner'[id] = s
        BY <1>5, <2>3, <3>2
      <4> QED
        BY <1>6, <4>1
    <3> QED
      BY <3>1, <3>2
  <2>4. ASSUME NEW t \in Streams, OpenEvents(t)' # {}
        PROVE  stream'[t].handle = 0 /\ stream'[t].phase # "Idle"
    BY <1>6, <1>10, <2>4 DEF ServerInv, Owning, Waiting
  <2>5. \A id \in Known' : Unanswered(id)' =>
          /\ (OpenEvents(owner[id]))' = {}
          /\ stream'[owner'[id]].handle = 0 /\ stream'[owner'[id]].phase # "Idle"
    BY <2>3 DEF OpenEvents, Events
  <2> QED
    BY <2>1, <2>2, <2>4, <2>5 DEF Waiting
<1>13. \A t \in Streams : t # s => Holds(t)' = Holds(t)
  BY <1>6 DEF Holds, Carried
<1>14. \A t \in Streams : t # s => \A id \in Holds(t) : id \notin dropped
  <2>1. ASSUME NEW t \in Streams, t # s, NEW id \in Holds(t) PROVE id \notin dropped
    <3>1. id # 0 /\ owner[id] = t
      BY HoldsIs DEF ServerInv, Owning, OwnHandles
    <3> QED
      BY <2>1, <3>1 DEF ServerInv, Owning, OwnHandles
  <2> QED
    BY <2>1
<1>15. Holding'
  <2>1. ASSUME NEW t \in Streams, NEW id \in Holds(t)' PROVE id \in handles'
    BY <1>3, <1>13, <1>14 DEF ServerInv, Owning, Holding
  <2>2. ASSUME NEW id \in handles' PROVE \E t \in Streams : id \in Holds(t)'
    BY <1>3, <1>13 DEF ServerInv, Owning, Holding
  <2> QED
    BY <2>1, <2>2 DEF Holding
<1>16. OwnHandles'
  <2>1. ASSUME NEW t \in Streams, NEW id \in Holds(t)' PROVE owner'[id] = t
    <3>1. id \in Holds(t)
      BY <1>13
    <3>2. id \in Known /\ owner[id] = t
      BY <3>1 DEF ServerInv, Owning, OwnHandles, Holding, Inv, Flow, Named
    <3> QED
      BY <1>5, <3>2
  <2> QED
    BY <2>1 DEF OwnHandles
<1>17. Inert'
  BY <1>6 DEF ServerInv, Owning, Inert, SoundStream
<1> QED
  BY <1>2, <1>7, <1>8, <1>11, <1>12, <1>15, <1>16, <1>17 DEF ServerInv, Owning
Pops(s) == bridge[s] # <<>> /\ bridge' = [bridge EXCEPT ![s] = Tail(bridge[s])]

\* The first event of a bridge is taken.
LEMMA Popped ==
    ASSUME bridge \in [Streams -> Seq(EventType)], NEW s \in Streams, Pops(s)
    PROVE  /\ bridge' \in [Streams -> Seq(EventType)]
           /\ \A t \in Streams : t # s => bridge'[t] = bridge[t]
           /\ 1 \in Events(s) /\ Head(bridge[s]) = bridge[s][1] /\ bridge[s][1] \in EventType
           /\ \A i \in Events(s)' :
                 \E k \in Events(s) : After(k, i) /\ bridge'[s][i] = bridge[s][k]
           /\ \A k \in Events(s) :
                 k = 1 \/ \E i \in Events(s)' : bridge'[s][i] = bridge[s][k]
<1>1. /\ bridge[s] \in Seq(EventType) /\ bridge[s] # <<>> /\ bridge'[s] = Tail(bridge[s])
      /\ bridge' \in [Streams -> Seq(EventType)]
      /\ \A t \in Streams : t # s => bridge'[t] = bridge[t]
  <2>1. bridge[s] \in Seq(EventType) /\ bridge[s] # <<>>
    BY DEF Pops
  <2>2. Tail(bridge[s]) \in Seq(EventType)
    BY <2>1
  <2> QED
    BY <2>1, <2>2 DEF Pops
<1>2. /\ Len(bridge[s]) \in Nat \ {0} /\ Len(bridge'[s]) = Len(bridge[s]) - 1
      /\ \A i \in 1 .. Len(bridge[s]) - 1 : bridge'[s][i] = bridge[s][i + 1]
  BY <1>1
<1>3. 1 \in Events(s) /\ Head(bridge[s]) = bridge[s][1] /\ bridge[s][1] \in EventType
  BY <1>1 DEF Events
<1>4. ASSUME NEW i \in Events(s)'
      PROVE  i + 1 \in Events(s) /\ After(i + 1, i) /\ bridge'[s][i] = bridge[s][i + 1]
  BY <1>2 DEF Events, After
<1>5. ASSUME NEW k \in Events(s), k # 1
      PROVE  k - 1 \in Events(s)' /\ bridge'[s][k - 1] = bridge[s][k]
  BY <1>2, <1>5 DEF Events
<1> QED
  BY <1>1, <1>3, <1>4, <1>5

\* A stream's bridge keeps its opens and the handles it carries.
KeepsBridge(s) ==
    /\ bridge' \in [Streams -> Seq(EventType)]
    /\ \A t \in Streams : t # s => bridge'[t] = bridge[t]
    /\ \A i \in Events(s)' : \E k \in Events(s) : bridge'[s][i] = bridge[s][k]
    /\ \A i, j \in OpenEvents(s)' : i = j
    /\ OpenEvents(s)' # {} => OpenEvents(s) # {}
    /\ \A id : id # 0 => ((\E i \in Events(s)' : bridge'[s][i].handle = id) <=>
                          (\E i \in Events(s) : bridge[s][i].handle = id))

\* So it does when it does not change ...
LEMMA KeptBridge ==
    ASSUME ServerInv, NEW s \in Streams, UNCHANGED bridge
    PROVE  KeepsBridge(s)
<1>1. Events(s)' = Events(s) /\ OpenEvents(s)' = OpenEvents(s)
  BY DEF Events, OpenEvents
<1> QED
  BY <1>1 DEF KeepsBridge, ServerInv, Shape, Owning, Waiting

\* ... and when a read's event is taken.
LEMMA ReadPopped ==
    ASSUME ServerInv, NEW s \in Streams, Pops(s), bridge[s][1].kind = "Read"
    PROVE  KeepsBridge(s)
<1>1. /\ bridge' \in [Streams -> Seq(EventType)]
      /\ \A t \in Streams : t # s => bridge'[t] = bridge[t]
      /\ 1 \in Events(s)
      /\ \A i \in Events(s)' :
            \E k \in Events(s) : After(k, i) /\ bridge'[s][i] = bridge[s][k]
      /\ \A k \in Events(s) :
            k = 1 \/ \E i \in Events(s)' : bridge'[s][i] = bridge[s][k]
  BY Popped DEF ServerInv, Shape
<1>2. bridge[s][1].handle = 0
  BY <1>1 DEF ServerInv, Owning, SoundEvents, SoundEvent
<1>3. \A i \in OpenEvents(s)' : \E k \in OpenEvents(s) : After(k, i)
  BY <1>1 DEF OpenEvents
<1>4. \A i, j \in OpenEvents(s)' : i = j
  BY <1>3 DEF After, ServerInv, Owning, Waiting
<1>5. OpenEvents(s)' # {} => OpenEvents(s) # {}
  BY <1>3
<1>6. ASSUME NEW id, id # 0
      PROVE  (\E i \in Events(s)' : bridge'[s][i].handle = id) <=>
             (\E i \in Events(s) : bridge[s][i].handle = id)
  BY <1>1, <1>2, <1>6
<1> QED
  BY <1>1, <1>4, <1>5, <1>6 DEF KeepsBridge

\* One event at most carries a handle, and then the stream has none.
LEMMA CarriedOnce ==
    ASSUME ServerInv, NEW s \in Streams
    PROVE  \A i \in Events(s) : bridge[s][i].handle # 0 =>
              i \in OpenEvents(s) /\ (\A j \in OpenEvents(s) : j = i) /\ stream[s].handle = 0
<1> SUFFICES ASSUME NEW i \in Events(s), bridge[s][i].handle # 0
             PROVE  /\ i \in OpenEvents(s) /\ (\A j \in OpenEvents(s) : j = i)
                    /\ stream[s].handle = 0
  OBVIOUS
<1>1. bridge[s][i] \in EventType
  BY DEF Events, ServerInv, Shape
<1>2. bridge[s][i].kind = "Open"
  BY <1>1 DEF EventType, ServerInv, Owning, SoundEvents, SoundEvent
<1>3. i \in OpenEvents(s)
  BY <1>2 DEF OpenEvents
<1> QED
  BY <1>3 DEF ServerInv, Owning, Waiting

\* A stream that carries on with its handle, or drops it.
LEMMA SmallStep ==
    ASSUME ServerInv, NEW s \in Streams, NEW next \in StreamRecord, NEW dropped, KeepsBridge(s),
           SoundStream(next), Become(s, next, dropped, <<>>),
           \/ /\ next.handle = stream[s].handle /\ dropped = {}
              /\ next.phase = stream[s].phase \/ next.phase # "Idle"
           \/ next.handle = 0 /\ dropped = {stream[s].handle} /\ next.phase # "Idle"
    PROVE  ServerInv'
<1>1. AtMostOne(dropped) /\ NoneOrOne(<<>>)
  BY DEF AtMostOne, NoneOrOne
<1>2. dropped \ {0} \subseteq Holds(s)
  BY HoldsIs
<1>3. stream'[s] = next
  BY DEF Become, ServerInv, Shape
<1>4. \A i \in Events(s) : bridge[s][i].handle # 0 => stream[s].handle = 0
  BY CarriedOnce
<1>5. \A id : id \in Holds(s)' <=> id \in Holds(s) /\ id \notin dropped
  <2> SUFFICES ASSUME NEW id PROVE id \in Holds(s)' <=> id \in Holds(s) /\ id \notin dropped
    OBVIOUS
  <2>1. id # 0 => ((\E i \in Events(s)' : bridge'[s][i].handle = id) <=>
                   (\E i \in Events(s) : bridge[s][i].handle = id))
    BY DEF KeepsBridge
  <2> QED
    BY <1>3, <1>4, <2>1, HoldsIs
<1>6. OpenEvents(s) # {} \/ Awaits(s) =>
        /\ stream[s].handle = 0 /\ stream[s].phase # "Idle"
  BY DEF ServerInv, Owning, Waiting, Awaits
<1>7. Awaits(s) => OpenEvents(s) = {}
  BY DEF ServerInv, Owning, Waiting, Awaits
<1>8. /\ bridge' \in [Streams -> Seq(EventType)]
      /\ \A t \in Streams : t # s => bridge'[t] = bridge[t]
      /\ \A i \in Events(s)' : \E k \in Events(s) : bridge'[s][i] = bridge[s][k]
      /\ \A i, j \in OpenEvents(s)' : i = j
      /\ OpenEvents(s)' # {} => OpenEvents(s) # {}
  BY DEF KeepsBridge
<1>9. PICK requests : requests = <<>>
  OBVIOUS
<1>10. NoneOrOne(requests) /\ Become(s, next, dropped, requests)
  BY <1>1, <1>9
<1>11. /\ OpenEvents(s)' # {} \/ Awaits(s) \/ requests # <<>> =>
             next.handle = 0 /\ next.phase # "Idle"
       /\ Awaits(s) \/ requests # <<>> => OpenEvents(s)' = {}
       /\ requests # <<>> => ~Awaits(s)
  BY <1>6, <1>7, <1>8, <1>9
<1> QED
  BY <1>1, <1>2, <1>5, <1>8, <1>10, <1>11, BecomeServer

\* The record of a stream that has not begun, is done or is gone.
LEMMA Records ==
    /\ New \in StreamRecord /\ New.handle = 0 /\ New.phase = "Idle"
    /\ Done \in StreamRecord /\ Done.handle = 0 /\ Done.phase = "Done"
    /\ [New EXCEPT !.phase = "Gone"] \in StreamRecord
    /\ [New EXCEPT !.phase = "Gone"].handle = 0 /\ [New EXCEPT !.phase = "Gone"].phase = "Gone"
<1>1. New \in StreamRecord /\ New.handle = 0 /\ New.phase = "Idle"
  BY DEF New, StreamRecord
<1>2. ASSUME NEW phase \in {"Done", "Gone"}
      PROVE  /\ [New EXCEPT !.phase = phase] \in StreamRecord
             /\ [New EXCEPT !.phase = phase].handle = 0
             /\ [New EXCEPT !.phase = phase].phase = phase
  BY <1>1 DEF StreamRecord
<1> QED
  BY <1>1, <1>2 DEF Done

\* The event of an open is taken: its stream waits for nothing any more, and holds
\* what the event carries.
LEMMA OpenPopped ==
    ASSUME ServerInv, NEW s \in Streams, Pops(s), bridge[s][1].kind = "Open"
    PROVE  /\ bridge' \in [Streams -> Seq(EventType)]
           /\ \A t \in Streams : t # s => bridge'[t] = bridge[t]
           /\ \A i \in Events(s)' : /\ bridge'[s][i].handle = 0
                                    /\ \E k \in Events(s) : bridge'[s][i] = bridge[s][k]
           /\ OpenEvents(s)' = {} /\ ~Awaits(s)
           /\ stream[s].handle = 0 /\ stream[s].phase # "Idle"
           /\ \A id : id \in Holds(s) <=> id # 0 /\ id = bridge[s][1].handle
<1>1. /\ bridge' \in [Streams -> Seq(EventType)]
      /\ \A t \in Streams : t # s => bridge'[t] = bridge[t]
      /\ 1 \in Events(s)
      /\ \A i \in Events(s)' :
            \E k \in Events(s) : After(k, i) /\ bridge'[s][i] = bridge[s][k]
  BY Popped DEF ServerInv, Shape
<1>2. 1 \in OpenEvents(s)
  BY <1>1 DEF OpenEvents
<1>3. \A k \in OpenEvents(s) : k = 1
  BY <1>2 DEF ServerInv, Owning, Waiting
<1>4. \A k \in Events(s) : k # 1 => bridge[s][k].handle = 0 /\ bridge[s][k].kind = "Read"
  <2>1. ASSUME NEW k \in Events(s), k # 1
        PROVE  bridge[s][k].handle = 0 /\ bridge[s][k].kind = "Read"
    <3>1. bridge[s][k] \in EventType
      BY DEF Events, ServerInv, Shape
    <3>2. bridge[s][k].kind = "Read"
      BY <1>3, <2>1, <3>1 DEF EventType, OpenEvents
    <3> QED
      BY <3>2 DEF ServerInv, Owning, SoundEvents, SoundEvent
  <2> QED
    BY <2>1
<1>5. \A i \in Events(s)' :
        /\ bridge'[s][i].handle = 0 /\ bridge'[s][i].kind = "Read"
        /\ \E k \in Events(s) : bridge'[s][i] = bridge[s][k]
  BY <1>1, <1>4 DEF After
<1>6. OpenEvents(s)' = {}
  BY <1>5 DEF OpenEvents
<1>7. ~Awaits(s) /\ stream[s].handle = 0 /\ stream[s].phase # "Idle"
  BY <1>2 DEF ServerInv, Owning, Waiting, Awaits
<1>8. ASSUME NEW id PROVE id \in Holds(s) <=> id # 0 /\ id = bridge[s][1].handle
  BY <1>1, <1>4, <1>7, HoldsIs
<1> QED
  BY <1>1, <1>5, <1>6, <1>7, <1>8

\* A stream that has its open's event answers with it, without it, or tries the next
\* candidate.
LEMMA LargeStep ==
    ASSUME ServerInv, NEW s \in Streams, NEW next \in StreamRecord, NEW dropped, NEW requests,
           Pops(s), bridge[s][1].kind = "Open", SoundStream(next), NoneOrOne(requests),
           Become(s, next, dropped, requests),
           \/ dropped = {bridge[s][1].handle} /\ next.handle = 0
           \/ dropped = {} /\ next.handle = bridge[s][1].handle /\ requests = <<>>,
           next.phase # "Idle"
    PROVE  ServerInv'
<1>1. /\ bridge' \in [Streams -> Seq(EventType)]
      /\ \A t \in Streams : t # s => bridge'[t] = bridge[t]
      /\ \A i \in Events(s)' : /\ bridge'[s][i].handle = 0
                               /\ \E k \in Events(s) : bridge'[s][i] = bridge[s][k]
      /\ OpenEvents(s)' = {} /\ ~Awaits(s)
      /\ \A id : id \in Holds(s) <=> id # 0 /\ id = bridge[s][1].handle
  BY OpenPopped
<1>2. AtMostOne(dropped) /\ dropped \ {0} \subseteq Holds(s)
  BY <1>1 DEF AtMostOne
<1>3. stream'[s] = next
  BY DEF Become, ServerInv, Shape
<1>4. ASSUME NEW id PROVE id \in Holds(s)' <=> id \in Holds(s) /\ id \notin dropped
  <2>1. id \in Holds(s)' <=> id # 0 /\ next.handle = id
    BY <1>1, <1>3, HoldsIs
  <2> QED
    BY <1>1, <2>1
<1>5. /\ \A i \in Events(s)' : \E k \in Events(s) : bridge'[s][i] = bridge[s][k]
      /\ \A i, j \in OpenEvents(s)' : i = j
  BY <1>1
<1>6. /\ OpenEvents(s)' # {} \/ Awaits(s) \/ requests # <<>> =>
            next.handle = 0 /\ next.phase # "Idle"
      /\ Awaits(s) \/ requests # <<>> => OpenEvents(s)' = {}
      /\ requests # <<>> => ~Awaits(s)
  BY <1>1
<1> QED
  BY <1>1, <1>2, <1>4, <1>5, <1>6, BecomeServer

\* A file of at most a chunk has one chunk.
LEMMA OneChunk ==
    ASSUME NEW size \in Nat, size > 0
    PROVE  Chunks(size) \in Nat /\ (size <= ReadLen => Chunks(size) = 1)
  BY EngineAssumption DEF Chunks

\* The head of a response: a body whose one chunk may be there.
LEMMA ServeServer ==
    ASSUME ServerInv, NEW s \in Streams, Pops(s), NEW event, event = bridge[s][1],
           event.kind = "Open", event.ok, Serve(s, event)
    PROVE  ServerInv'
<1> DEFINE full == IF event.size < ReadLen THEN event.size ELSE ReadLen
           body == [New EXCEPT !.phase = "Streaming", !.handle = event.handle,
                               !.chunks = Chunks(event.size),
                               !.ready = IF event.got = full THEN {0} ELSE {}]
<1>1. \/ Become(s, Done, {event.handle}, <<>>)
      \/ event.size > 0 /\ Become(s, body, {}, <<>>)
  BY DEF Serve
<1>2. NoneOrOne(<<>>)
  BY DEF NoneOrOne
<1>3. event \in EventType /\ SoundEvent(s, event)
  BY Popped DEF ServerInv, Shape, Owning, SoundEvents
<1>4. CASE Become(s, Done, {event.handle}, <<>>)
  <2>1. SoundStream(Done)
    BY Records DEF SoundStream
  <2> QED
    BY <1>2, <1>4, <2>1, Records, LargeStep
<1>5. CASE event.size > 0 /\ Become(s, body, {}, <<>>)
  <2>1. Chunks(event.size) \in Nat /\ (event.size <= ReadLen => Chunks(event.size) = 1)
    BY <1>3, <1>5, OneChunk DEF EventType
  <2>2. /\ body \in StreamRecord /\ body.phase = "Streaming" /\ body.handle = event.handle
        /\ body.chunks = Chunks(event.size) /\ body.nextSend = 0
        /\ body.ready = IF event.got = full THEN {0} ELSE {}
    <3>1. PICK ready \in SUBSET Nat : ready = IF event.got = full THEN {0} ELSE {}
      <4>1. {0} \in SUBSET Nat /\ {} \in SUBSET Nat
        OBVIOUS
      <4> HIDE DEF full
      <4> QED
        BY <4>1
    <3>2. event.handle \in Ids \cup {0}
      BY <1>3 DEF EventType
    <3>3. body = [New EXCEPT !.phase = "Streaming", !.handle = event.handle,
                             !.chunks = Chunks(event.size), !.ready = ready]
      BY <3>1
    <3>4. New \in StreamRecord /\ New.nextSend = 0
      BY Records DEF New
    <3> HIDE DEF body, full
    <3> QED
      BY <2>1, <3>1, <3>2, <3>3, <3>4 DEF StreamRecord
  <2> HIDE DEF body
  <2>3. event.handle = 0 => event.got = full /\ event.size <= ReadLen
    BY <1>3, EngineAssumption DEF SoundEvent, EventType
  <2>4. SoundStream(body)
    BY <2>1, <2>2, <2>3 DEF SoundStream
  <2>5. PICK next \in StreamRecord : next = body
    BY <2>2
  <2> QED
    BY <1>2, <1>5, <2>2, <2>4, <2>5, LargeStep
<1> QED
  BY <1>1, <1>4, <1>5

\* Another candidate, or the end.
LEMMA AdvanceServer ==
    ASSUME ServerInv, NEW s \in Streams, Pops(s), NEW event, event = bridge[s][1],
           event.kind = "Open", Advance(s, {event.handle})
    PROVE  ServerInv'
<1>1. stream[s] \in StreamRecord /\ stream[s].handle = 0 /\ stream[s].phase # "Idle"
  BY OpenPopped DEF ServerInv, Shape
<1>2. CASE stream[s].pending = <<>>
  <2>1. Become(s, Done, {event.handle}, <<>>)
    BY <1>2 DEF Advance
  <2>2. SoundStream(Done) /\ NoneOrOne(<<>>)
    BY Records DEF SoundStream, NoneOrOne
  <2> QED
    BY <2>1, <2>2, Records, LargeStep
<1>3. CASE stream[s].pending # <<>>
  <2>1. PICK next : next = [stream[s] EXCEPT !.pending = Tail(stream[s].pending)]
    OBVIOUS
  <2>2. PICK requests : requests = <<Head(stream[s].pending)>>
    OBVIOUS
  <2>3. Become(s, next, {event.handle}, requests)
    BY <1>3, <2>1, <2>2 DEF Advance
  <2>4. stream[s].pending \in Seq(Requests)
    BY <1>1 DEF StreamRecord
  <2>5. Head(stream[s].pending) \in Requests /\ Tail(stream[s].pending) \in Seq(Requests)
    BY <1>3, <2>4
  <2>6. NoneOrOne(requests)
    BY <2>2, <2>5 DEF NoneOrOne
  <2>7. /\ next \in StreamRecord /\ next.handle = 0 /\ next.phase = stream[s].phase
        /\ next.chunks = stream[s].chunks /\ next.nextSend = stream[s].nextSend
        /\ next.ready = stream[s].ready
    BY <1>1, <2>1, <2>5 DEF StreamRecord
  <2>8. SoundStream(next)
    BY <1>1, <2>7 DEF ServerInv, Owning, Inert, SoundStream
  <2> QED
    BY <1>1, <2>3, <2>6, <2>7, <2>8, LargeStep
<1> QED
  BY <1>2, <1>3

\* An event is handled.
LEMMA HandleEventServer ==
    ASSUME ServerInv, NEW s \in Streams, HandleEvent(s)
    PROVE  ServerInv'
<1>1. PICK event : event = Head(bridge[s])
  OBVIOUS
<1>2. Pops(s)
  BY DEF HandleEvent, Pops
<1>3. event = bridge[s][1] /\ event \in EventType
  BY <1>1, <1>2, Popped DEF ServerInv, Shape
<1> DEFINE st == stream[s]
<1>4. st \in StreamRecord /\ SoundStream(st)
  BY DEF ServerInv, Shape, Owning, Inert
<1>5. CASE event.kind = "Open"
  <2>1. CASE event.ok /\ opens[event.id].node = "File"
    <3>1. Serve(s, event)
      BY <1>1, <1>5, <2>1 DEF HandleEvent
    <3> QED
      BY <1>2, <1>3, <1>5, <2>1, <3>1, ServeServer
  <2>2. CASE ~(event.ok /\ opens[event.id].node = "File")
    <3>1. Advance(s, {event.handle})
      BY <1>1, <1>5, <2>2 DEF HandleEvent
    <3> QED
      BY <1>2, <1>3, <1>5, <3>1, AdvanceServer
  <2> QED
    BY <2>1, <2>2
<1>6. CASE event.kind = "Read"
  <2>1. KeepsBridge(s)
    BY <1>2, <1>3, <1>6, ReadPopped
  <2>2. CASE st.phase = "Streaming" /\ event.ok
    <3>1. PICK next : next = [st EXCEPT !.inflight = st.inflight - 1,
                                        !.ready = st.ready \cup {event.seq}]
      OBVIOUS
    <3>2. Become(s, next, {}, <<>>)
      BY <1>1, <1>6, <2>2, <3>1 DEF HandleEvent
    <3>3. /\ next \in StreamRecord /\ next.handle = st.handle /\ next.phase = st.phase
          /\ next.chunks = st.chunks /\ next.nextSend = st.nextSend
          /\ next.ready = st.ready \cup {event.seq}
      <4>1. PICK ready \in SUBSET Nat : ready = st.ready \cup {event.seq}
        BY <1>3, <1>4 DEF StreamRecord, EventType
      <4>2. PICK inflight \in Int : inflight = st.inflight - 1
        BY <1>4 DEF StreamRecord
      <4> HIDE DEF st
      <4> QED
        BY <1>4, <3>1, <4>1, <4>2 DEF StreamRecord
    <3>4. SoundStream(next)
      BY <1>4, <3>3 DEF SoundStream
    <3> QED
      BY <2>1, <3>2, <3>3, <3>4, SmallStep
  <2>3. CASE st.phase = "Streaming" /\ ~event.ok
    <3>1. Become(s, Done, {st.handle}, <<>>)
      BY <1>1, <1>6, <2>3 DEF HandleEvent
    <3>2. SoundStream(Done)
      BY Records DEF SoundStream
    <3> QED
      BY <2>1, <3>1, <3>2, Records, SmallStep
  <2>4. CASE st.phase # "Streaming"
    <3>1. Become(s, st, {}, <<>>)
      BY <1>1, <1>6, <2>4 DEF HandleEvent
    <3>2. PICK next \in StreamRecord : next = st
      BY <1>4
    <3> QED
      BY <1>4, <2>1, <3>1, <3>2, SmallStep
  <2> QED
    BY <2>2, <2>3, <2>4
<1> QED
  BY <1>3, <1>5, <1>6 DEF EventType

\* A chunk is sent.
LEMMA FlushServer ==
    ASSUME ServerInv, NEW s \in Streams, Flush(s)
    PROVE  ServerInv'
<1> DEFINE st == stream[s]
<1>1. st \in StreamRecord /\ SoundStream(st) /\ st.phase = "Streaming" /\ KeepsBridge(s)
  BY KeptBridge DEF ServerInv, Shape, Owning, Inert, Flush
<1>2. CASE st.nextSend + 1 = st.chunks
  <2>1. Become(s, Done, {st.handle}, <<>>)
    BY <1>2 DEF Flush
  <2>2. SoundStream(Done)
    BY Records DEF SoundStream
  <2> QED
    BY <1>1, <2>1, <2>2, Records, SmallStep
<1>3. CASE st.nextSend + 1 # st.chunks
  <2>1. PICK next : next = [st EXCEPT !.ready = st.ready \ {st.nextSend},
                                      !.nextSend = st.nextSend + 1]
    OBVIOUS
  <2>2. Become(s, next, {}, <<>>)
    BY <1>3, <2>1 DEF Flush
  <2>3. next \in StreamRecord /\ next.handle = st.handle /\ next.phase = st.phase
    <3>1. PICK ready \in SUBSET Nat : ready = st.ready \ {st.nextSend}
      BY <1>1 DEF StreamRecord
    <3>2. PICK nextSend \in Nat : nextSend = st.nextSend + 1
      BY <1>1 DEF StreamRecord
    <3> HIDE DEF st
    <3> QED
      BY <1>1, <2>1, <3>1, <3>2 DEF StreamRecord
  <2>4. SoundStream(next)
    BY <1>1, <1>3, <2>3 DEF SoundStream
  <2> QED
    BY <1>1, <2>2, <2>3, <2>4, SmallStep
<1> QED
  BY <1>2, <1>3

\* The filter is dropped.
LEMMA DropFilterServer ==
    ASSUME ServerInv, NEW s \in Streams, DropFilter(s)
    PROVE  ServerInv'
<1>1. PICK next \in StreamRecord :
        /\ next = [New EXCEPT !.phase = "Gone"] /\ next.handle = 0 /\ next.phase = "Gone"
  BY Records
<1>2. Become(s, next, {stream[s].handle}, <<>>) /\ KeepsBridge(s)
  BY <1>1, KeptBridge DEF DropFilter
<1>3. SoundStream(next)
  BY <1>1 DEF SoundStream
<1> QED
  BY <1>1, <1>2, <1>3, SmallStep

\* A request comes in.
LEMMA RequestServer ==
    ASSUME ServerInv, NEW s \in Streams, OnRequestHeaders(s)
    PROVE  ServerInv'
<1>1. PICK list \in Candidates :
        Become(s, [New EXCEPT !.phase = "Resolving", !.pending = Tail(list)], {}, <<Head(list)>>)
  BY DEF OnRequestHeaders
<1>2. list \in Seq(Requests) /\ list # <<>>
  BY ServerAssumption
<1>3. Head(list) \in Requests /\ Tail(list) \in Seq(Requests)
  BY <1>2
<1>4. PICK next : next = [New EXCEPT !.phase = "Resolving", !.pending = Tail(list)]
  OBVIOUS
<1>5. PICK requests : requests = <<Head(list)>>
  OBVIOUS
<1>6. Become(s, next, {}, requests) /\ NoneOrOne(requests) /\ AtMostOne({})
  BY <1>1, <1>3, <1>4, <1>5 DEF NoneOrOne, AtMostOne
<1>7. next \in StreamRecord /\ next.handle = 0 /\ next.phase = "Resolving"
  BY <1>3, <1>4, Records DEF StreamRecord
<1>8. SoundStream(next)
  BY <1>7 DEF SoundStream
<1>9. stream[s].phase = "Idle" /\ stream[s].handle = 0 /\ UNCHANGED bridge
  BY DEF OnRequestHeaders, ServerInv, Owning, Inert, SoundStream
<1>10. OpenEvents(s) = {} /\ ~Awaits(s)
  BY <1>9 DEF ServerInv, Owning, Waiting, Awaits
<1>11. Events(s)' = Events(s) /\ OpenEvents(s)' = {}
  BY <1>9, <1>10 DEF Events, OpenEvents
<1>12. stream'[s] = next
  BY <1>6 DEF Become, ServerInv, Shape
<1>13. ASSUME NEW id PROVE id \in Holds(s)' <=> id \in Holds(s) /\ id \notin {}
  BY <1>7, <1>9, <1>11, <1>12, HoldsIs
<1>14. /\ bridge' \in [Streams -> Seq(EventType)]
       /\ \A t \in Streams : t # s => bridge'[t] = bridge[t]
       /\ \A i \in Events(s)' : \E k \in Events(s) : bridge'[s][i] = bridge[s][k]
  BY <1>9, <1>11 DEF ServerInv, Shape
<1> QED
  BY <1>6, <1>7, <1>8, <1>10, <1>11, <1>13, <1>14, BecomeServer

\* A read is issued, on the handle of the stream, or a chunk that is there is
\* skipped.
LEMMA IssueReadServer ==
    ASSUME ServerInv, NEW s \in Streams, IssueRead(s)
    PROVE  ServerInv'
<1> DEFINE st == stream[s]
           seq == st.issueCursor
           skip == seq \in st.ready
           cmd == Command("Read", st.handle, seq * ReadLen, reads)
<1>1. /\ UNCHANGED <<running, files, canonCache, tasks, canon, truncates, renames, last, nextId,
                     handles, length, stopped, opens, module, bridge, closed, owner>>
      /\ stream' = [stream EXCEPT ![s].issueCursor = seq + 1,
                                  ![s].inflight = IF skip THEN st.inflight ELSE st.inflight + 1]
      /\ skip => UNCHANGED <<commands, asker, reads>>
      /\ ~skip => /\ reads < MaxReads /\ commands' = SendAll(<<cmd>>) /\ reads' = reads + 1
                  /\ asker' = Append(asker, [stream |-> s, seq |-> seq])
  BY DEF IssueRead, reactor
<1>2. st \in StreamRecord /\ SoundStream(st) /\ st.phase = "Streaming" /\ st.nextSend \notin st.ready
  BY DEF ServerInv, Shape, Owning, Inert, IssueRead
<1>3. st.handle # 0 /\ st.handle \in Ids /\ seq \in Nat
  BY <1>2 DEF SoundStream, StreamRecord
<1>4. stream' \in [Streams -> StreamRecord] /\ SameStreams
  <2>1. PICK cursor \in Nat, inflight \in Int :
          /\ cursor = seq + 1
          /\ inflight = IF skip THEN st.inflight ELSE st.inflight + 1
    BY <1>2 DEF StreamRecord
  <2>2. PICK next : next = [st EXCEPT !.issueCursor = cursor, !.inflight = inflight]
    OBVIOUS
  <2>3. stream' = [stream EXCEPT ![s] = next]
    BY <1>1, <2>1, <2>2 DEF ServerInv, Shape, StreamRecord
  <2>4. /\ next \in StreamRecord /\ next.phase = st.phase /\ next.handle = st.handle
        /\ next.chunks = st.chunks /\ next.nextSend = st.nextSend /\ next.ready = st.ready
    BY <1>2, <2>1, <2>2 DEF StreamRecord
  <2> QED
    BY <2>3, <2>4 DEF ServerInv, Shape, SameStreams
<1>5. st.handle \in Holds(s) /\ st.handle \in handles /\ st.handle \in Known /\ owner[st.handle] = s
  <2>1. st.handle \in Holds(s)
    BY <1>3, HoldsIs
  <2> QED
    BY <2>1 DEF ServerInv, Owning, Holding, OwnHandles, Inv, Flow, Named
<1>6. CASE skip
  <2>1. UNCHANGED vars /\ UNCHANGED <<asker, reads>>
    BY <1>1, <1>6 DEF vars
  <2>2. Inv'
    BY <2>1, InvStep DEF ServerInv
  <2>3. Channel' = Channel /\ Known' = Known
    BY <2>1 DEF Channel, Known, vars
  <2>4. Asking' /\ \A id : Unanswered(id)' => Unanswered(id)
    BY <1>1, <2>1, <2>3 DEF ServerInv, Asking, Asked, Unanswered, vars
  <2>5. Owning'
    BY <1>1, <1>4, <2>4, OwningKept DEF ServerInv
  <2>6. Shape'
    BY <1>1, <1>4, <2>1, <2>3 DEF ServerInv, Shape
  <2> QED
    BY <2>2, <2>4, <2>5, <2>6 DEF ServerInv
<1>7. CASE ~skip
  <2>1. /\ cmd \in CommandType /\ cmd.op = "Read" /\ cmd.id = st.handle /\ cmd.ticket = reads
        /\ reads \in Nat
    <3>1. seq * ReadLen \in Nat /\ reads \in Nat
      BY <1>3, EngineAssumption DEF ServerInv, Inv, Basics
    <3> QED
      BY <1>3, <3>1 DEF Command, CommandType
  <2> HIDE DEF cmd
  <2>2. PICK cs : cs = <<cmd>>
    OBVIOUS
  <2>3. cs \in Seq(CommandType) /\ Len(cs) = 1 /\ cs[1] = cmd /\ commands' = SendAll(cs)
    BY <1>1, <1>7, <2>1, <2>2
  <2>4. reads' = reads + 1 /\ reads' <= MaxReads /\ Known' = Known
    BY <1>1, <1>7, <2>1, EngineAssumption DEF Known
  <2>5. /\ Submitted \subseteq Submitted'
        /\ Op(cmd.op, cmd.id, cmd.ticket) \in Submitted' \ Submitted
    <3>1. Submitted' = Submitted \cup {[open |-> FALSE, n |-> reads]}
      BY <1>1, <2>1, <2>4, ReadSubmitted
    <3>2. Op(cmd.op, cmd.id, cmd.ticket) = [open |-> FALSE, n |-> reads]
      BY <2>1 DEF Op
    <3>3. [open |-> FALSE, n |-> reads] \notin Submitted
      BY <2>1 DEF Submitted
    <3> QED
      BY <3>1, <3>2, <3>3
  <2>6. Fair(cs, {})
    BY <1>5, <2>1, <2>3, <2>5 DEF Fair
  <2>7. Flow'
    <3>1. handles' = handles \ {}
      BY <1>1
    <3> QED
      BY <1>1, <2>3, <2>4, <2>5, <2>6, <3>1, FlowSends DEF ServerInv, Inv
  <2>8. /\ commands' \in Seq(CommandType)
        /\ \A i \in Channel : i \in Channel' /\ commands'[i] = commands[i]
        /\ \A i \in Channel' \ Channel : commands'[i] = cmd
    <3>1. /\ commands' \in Seq(CommandType)
          /\ \A i \in Channel : i \in Channel' /\ commands'[i] = commands[i]
          /\ \A i \in Channel' \ Channel : \E k \in 1 .. Len(cs) : commands'[i] = cs[k]
      BY <2>3, SentAll DEF ServerInv, Inv, Basics
    <3> QED
      BY <2>3, <3>1
  <2>9. Inv'
    BY <1>1, <2>4, <2>7, <2>8, QuietInv DEF ServerInv, Inv, Basics, disk
  <2>10. /\ asker' \in Seq(AskerType) /\ Len(asker') = reads'
         /\ \A t \in 1 .. Len(asker) : t \in 1 .. Len(asker') /\ asker'[t] = asker[t]
         /\ reads + 1 \in 1 .. Len(asker') /\ asker'[reads + 1].stream = s
    <3> DEFINE new == [stream |-> s, seq |-> seq]
    <3>0. new \in AskerType /\ new.stream = s
      BY <1>3 DEF AskerType
    <3> HIDE DEF new
    <3>1. PICK a \in AskerType : a = new /\ a.stream = s
      BY <3>0
    <3>2. asker' = Append(asker, a) /\ asker \in Seq(AskerType) /\ Len(asker) = reads
      BY <1>1, <1>7, <3>1 DEF ServerInv, Shape, new
    <3> QED
      BY <2>1, <2>4, <3>1, <3>2
  <2>11. Asking'
    <3>1. Remembers
      BY <1>1, <2>4, <2>10 DEF Remembers
    <3>2. PICK id \in Known, t \in Nat : id = st.handle /\ t = reads
      BY <1>5, <2>1
    <3>3. Asked(id, t)'
      BY <1>1, <1>5, <2>10, <3>2 DEF Asked
    <3>4. \A i \in Channel' :
            \/ \E k \in Channel : commands'[i] = commands[k]
            \/ commands'[i].op = "Read" /\ commands'[i].id = id /\ commands'[i].ticket = t
      BY <2>1, <2>8, <3>2
    <3>5. \A y \in tasks' :
            /\ \E x \in tasks : y.kind = x.kind /\ y.id = x.id /\ y.ticket = x.ticket
            /\ y.kind = "Open" => y.len <= ReadLen
      BY <1>1 DEF ServerInv, Asking
    <3> QED
      BY <3>1, <3>3, <3>4, <3>5, AskingKept DEF ServerInv
  <2>12. \A id : Unanswered(id)' => Unanswered(id)
    BY <1>1, <2>1, <2>8 DEF Unanswered
  <2>13. Owning'
    BY <1>1, <1>4, <2>12, OwningKept DEF ServerInv
  <2>14. Shape'
    BY <1>1, <1>4, <2>4, <2>10 DEF ServerInv, Shape
  <2> QED
    BY <2>9, <2>11, <2>13, <2>14 DEF ServerInv
<1> QED
  BY <1>6, <1>7

\* The stream is complete: its bridge is emptied, and a handle in it is dropped.
LEMMA CompleteServer ==
    ASSUME ServerInv, NEW s \in Streams, OnStreamComplete(s)
    PROVE  ServerInv'
<1> DEFINE D == Carried(bridge[s])
<1>1. /\ closed' = closed \cup {s} /\ bridge' = [bridge EXCEPT ![s] = <<>>]
      /\ handles' = handles \ D /\ commands' = SendAll(Close(D))
      /\ UNCHANGED <<running, files, canonCache, tasks, canon, truncates, renames, last, nextId,
                     length, stopped, opens, reads, module, stream, owner, asker>>
  BY DEF OnStreamComplete, reactor
<1>2. \A id : id \in D <=> id # 0 /\ \E i \in Events(s) : bridge[s][i].handle = id
  BY DEF Carried, Events
<1>3. D \subseteq Holds(s) /\ D \in SUBSET handles
  BY DEF Holds, ServerInv, Owning, Holding
<1> HIDE DEF D
<1>4. AtMostOne(D)
  <2>1. ASSUME NEW a \in D, NEW b \in D PROVE a = b
    BY <1>2, CarriedOnce
  <2>2. CASE D = {}
    BY <2>2 DEF AtMostOne
  <2>3. CASE D # {}
    <3>1. PICK a \in D : TRUE
      BY <2>3
    <3>2. D = {a}
      BY <2>1, <3>1
    <3> QED
      BY <3>2 DEF AtMostOne
  <2> QED
    BY <2>2, <2>3
<1>5. PICK cs \in Seq(CommandType) : cs = Close(D) /\ Closing(cs, D)
  BY <1>3, <1>4, ClosingIs DEF ServerInv
<1>6. commands' = SendAll(cs) /\ Fair(cs, D)
  <2>1. commands' = SendAll(cs)
    BY <1>1, <1>5
  <2>2. \A k \in 1 .. Len(cs) : cs[k].op \notin Calls
    BY <1>5 DEF Closing, Calls
  <2> QED
    BY <1>5, <2>1, <2>2 DEF Fair, Closing
<1>7. Known' = Known /\ Submitted' = Submitted
  BY <1>1 DEF Known, Submitted
<1>8. Flow'
  BY <1>1, <1>3, <1>6, <1>7, FlowSends DEF ServerInv, Inv
<1>9. /\ commands' \in Seq(CommandType)
      /\ \A i \in Channel : i \in Channel' /\ commands'[i] = commands[i]
      /\ \A i \in Channel' \ Channel : commands'[i].op = "Close"
  <2>1. /\ commands' \in Seq(CommandType)
        /\ \A i \in Channel : i \in Channel' /\ commands'[i] = commands[i]
        /\ \A i \in Channel' \ Channel : \E k \in 1 .. Len(cs) : commands'[i] = cs[k]
    BY <1>6, SentAll DEF ServerInv, Inv, Basics
  <2> QED
    BY <1>5, <2>1 DEF Closing
<1>10. Inv'
  BY <1>1, <1>8, <1>9, QuietInv DEF ServerInv, Inv, Basics, disk
<1>11. Asking'
  <2>1. Remembers
    BY <1>1, <1>7 DEF Remembers
  <2>2. \A i \in Channel' : \/ \E k \in Channel : commands'[i] = commands[k]
                            \/ commands'[i].op \in {"Open", "Close", "Shutdown"}
    BY <1>9
  <2>3. \A y \in tasks' :
          /\ \E x \in tasks : y.kind = x.kind /\ y.id = x.id /\ y.ticket = x.ticket
          /\ y.kind = "Open" => y.len <= ReadLen
    BY <1>1 DEF ServerInv, Asking
  <2> QED
    BY <2>1, <2>2, <2>3, AskingKept DEF ServerInv
<1>12. \A id : Unanswered(id)' => Unanswered(id)
  BY <1>1, <1>9 DEF Unanswered
<1>13. /\ bridge' \in [Streams -> Seq(EventType)] /\ Events(s)' = {} /\ OpenEvents(s)' = {}
       /\ \A t \in Streams : t # s => /\ bridge'[t] = bridge[t] /\ Events(t)' = Events(t)
                                       /\ OpenEvents(t)' = OpenEvents(t)
  <2>1. <<>> \in Seq(EventType) /\ 1 .. Len(<<>>) = {}
    OBVIOUS
  <2>2. bridge' \in [Streams -> Seq(EventType)] /\ bridge'[s] = <<>>
    BY <1>1, <2>1 DEF ServerInv, Shape
  <2>3. \A t \in Streams : t # s => bridge'[t] = bridge[t]
    BY <1>1 DEF ServerInv, Shape
  <2> QED
    BY <2>1, <2>2, <2>3 DEF Events, OpenEvents
<1>14. Shape'
  BY <1>1, <1>7, <1>13 DEF ServerInv, Shape
<1>15. SoundEvents'
  <2>1. ASSUME NEW t \in Streams, NEW i \in Events(t)' PROVE SoundEvent(t, bridge'[t][i])
    BY <1>13 DEF ServerInv, Owning, SoundEvents
  <2> QED
    BY <1>1, <1>7, <2>1 DEF SoundEvents, SoundEvent
<1>16. Waiting'
  <2>1. ASSUME NEW id \in Known, Unanswered(id)'
        PROVE  /\ (OpenEvents(owner[id]))' = {}
               /\ stream'[owner[id]].handle = 0 /\ stream'[owner[id]].phase # "Idle"
    <3>1. PICK t \in Streams : t = owner[id] /\ t = owner'[id]
      BY <1>1 DEF ServerInv, Shape
    <3>2. OpenEvents(t) = {} /\ stream[t].handle = 0 /\ stream[t].phase # "Idle"
      BY <1>12, <2>1, <3>1 DEF ServerInv, Owning, Waiting
    <3>3. OpenEvents(t)' = {}
      BY <1>13, <3>2
    <3> QED
      BY <1>1, <3>1, <3>2, <3>3 DEF OpenEvents, Events
  <2>2. \A a, b \in Known : Unanswered(a)' /\ Unanswered(b)' /\ owner[a] = owner[b] => a = b
    BY <1>12 DEF ServerInv, Owning, Waiting
  <2>3. \A t \in Streams : \A i, j \in OpenEvents(t)' : i = j
    BY <1>13 DEF ServerInv, Owning, Waiting
  <2>4. \A t \in Streams : OpenEvents(t)' # {} => stream[t].handle = 0 /\ stream[t].phase # "Idle"
    BY <1>13 DEF ServerInv, Owning, Waiting
  <2> QED
    BY <1>1, <1>7, <2>1, <2>2, <2>3, <2>4 DEF Waiting
<1>17. \A t \in Streams : t # s => Holds(t)' = Holds(t)
  BY <1>1, <1>13 DEF Holds, Carried
<1>18. ASSUME NEW id PROVE id \in Holds(s)' <=> id \in Holds(s) /\ id \notin D
  <2>1. id \in Holds(s)' <=> id # 0 /\ stream[s].handle = id
    BY <1>1, <1>13, HoldsIs
  <2>2. id \in D => stream[s].handle = 0
    BY <1>2, CarriedOnce
  <2> QED
    BY <1>2, <2>1, <2>2, HoldsIs
<1>19. \A t \in Streams : t # s => \A id \in Holds(t) : id \notin D
  BY <1>3 DEF ServerInv, Owning, OwnHandles
<1>20. Holding'
  <2>1. ASSUME NEW t \in Streams, NEW id \in Holds(t)' PROVE id \in handles'
    BY <1>1, <1>17, <1>18, <1>19 DEF ServerInv, Owning, Holding
  <2>2. ASSUME NEW id \in handles' PROVE \E t \in Streams : id \in Holds(t)'
    BY <1>1, <1>17, <1>18 DEF ServerInv, Owning, Holding
  <2> QED
    BY <2>1, <2>2 DEF Holding
<1>21. OwnHandles' /\ Inert'
  BY <1>1, <1>17, <1>18 DEF ServerInv, Owning, OwnHandles, Inert, SoundStream
<1> QED
  BY <1>10, <1>11, <1>14, <1>15, <1>16, <1>20, <1>21 DEF ServerInv, Owning

-----------------------------------------------------------------------------
(* The configuration, and the theorems. *)

\* The configuration is loaded, dropped or unloaded, or nothing happens.
LEMMA ConfigServer ==
    ASSUME ServerInv, Load \/ DropConfig \/ JoinReturns \/ UNCHANGED allVars
    PROVE  ServerInv'
<1>1. CASE DropConfig
  <2>1. Inv'
    BY <1>1, NoticeInv DEF DropConfig, ServerInv
  <2>2. /\ UNCHANGED <<running, tasks, handles, nextId, reads, stream, bridge, closed, owner,
                       asker>>
        /\ commands' = Send(Command("Shutdown", 0, 0, 0)) /\ module' = "Joining"
    BY <1>1 DEF DropConfig, Shutdown
  <2>3. PICK c \in CommandType : c = Command("Shutdown", 0, 0, 0) /\ c.op = "Shutdown"
    <3> DEFINE notice == Command("Shutdown", 0, 0, 0)
    <3>1. notice \in CommandType /\ notice.op = "Shutdown"
      BY DEF Command, CommandType
    <3> QED
      BY <3>1
  <2>4. \A i \in Channel' : \/ i \in Channel /\ commands'[i] = commands[i]
                            \/ commands'[i].op = "Shutdown"
    BY <2>2, <2>3, Sent DEF ServerInv, Inv, Basics
  <2>5. Remembers
    BY <2>2 DEF Remembers, Known
  <2>6. \A y \in tasks' :
          /\ \E x \in tasks : y.kind = x.kind /\ y.id = x.id /\ y.ticket = x.ticket
          /\ y.kind = "Open" => y.len <= ReadLen
    BY <2>2 DEF ServerInv, Asking
  <2>7. Asking'
    BY <2>4, <2>5, <2>6, AskingKept DEF ServerInv
  <2>8. \A id : Unanswered(id)' => Unanswered(id)
    BY <2>2, <2>4 DEF Unanswered
  <2>9. IsFiniteSet(tasks')
    BY <2>2 DEF ServerInv, Shape
  <2> QED
    BY <2>1, <2>2, <2>7, <2>8, <2>9, QuietServer
<1>2. CASE Load \/ JoinReturns \/ UNCHANGED allVars
  <2>1. UNCHANGED <<vars, stream, bridge, closed, owner, asker>>
    BY <1>2 DEF Load, JoinReturns, allVars, filter
  <2>2. UNCHANGED <<commands, running, nextId, tasks, handles, reads>>
    BY <2>1 DEF vars
  <2>3. module' = "Unloaded" => ~running'
    BY <1>2, <2>2 DEF Load, JoinReturns, allVars, filter, ServerInv, Shape
  <2>4. Inv'
    BY <2>1, InvStep DEF ServerInv
  <2>5. Asking'
    BY <2>1, <2>2 DEF ServerInv, Asking, Asked, Channel
  <2>6. \A id : Unanswered(id)' => Unanswered(id)
    BY <2>2 DEF Unanswered, Channel
  <2>7. IsFiniteSet(tasks')
    BY <2>2 DEF ServerInv, Shape
  <2> QED
    BY <2>1, <2>2, <2>3, <2>4, <2>5, <2>6, <2>7, QuietServer
<1> QED
  BY <1>1, <1>2

\* The invariant holds at first ...
LEMMA ServerInvInit ==
    ASSUME ServerInit
    PROVE  ServerInv
<1>1. Inv
  BY InvInit DEF ServerInit
<1>2. /\ nextId = 1 /\ reads = 0 /\ tasks = {} /\ handles = {} /\ commands = <<>>
      /\ Known = {} /\ Channel = {}
  BY DEF ServerInit, Init, Known, Channel
<1>3. New \in StreamRecord /\ New.handle = 0 /\ New.phase = "Idle"
  BY DEF New, StreamRecord
<1>4. /\ stream \in [Streams -> StreamRecord]
      /\ \A s \in Streams : stream[s].handle = 0 /\ stream[s].phase = "Idle"
  BY <1>3 DEF ServerInit
<1>5. /\ bridge \in [Streams -> Seq(EventType)]
      /\ \A s \in Streams : Events(s) = {} /\ OpenEvents(s) = {} /\ Carried(bridge[s]) = {}
  BY DEF ServerInit, Events, OpenEvents, Carried
<1>6. Shape
  <2>1. IsFiniteSet(tasks)
    BY <1>2, FS_EmptySet
  <2> QED
    BY <1>2, <1>4, <1>5, <2>1 DEF ServerInit, Shape
<1>7. Asking
  BY <1>2 DEF Asking
<1>8. \A s \in Streams : Holds(s) = {}
  BY <1>4, <1>5 DEF Holds
<1>9. Owning
  BY <1>2, <1>4, <1>5, <1>8
     DEF Owning, SoundEvents, Waiting, Holding, Inert, SoundStream, OwnHandles
<1> QED
  BY <1>1, <1>6, <1>7, <1>9 DEF ServerInv

\* ... and every step keeps it.
LEMMA ServerInvStep ==
    ASSUME ServerInv, [ServerNext]_allVars
    PROVE  ServerInv'
<1>1. CASE Load \/ DropConfig \/ JoinReturns \/ UNCHANGED allVars
  BY <1>1, ConfigServer
<1>2. ASSUME NEW s \in Streams, OnRequestHeaders(s) \/ StreamStep(s) \/ OnStreamComplete(s)
      PROVE  ServerInv'
  BY <1>2, RequestServer, HandleEventServer, FlushServer, IssueReadServer, DropFilterServer,
     CompleteServer DEF StreamStep
<1>3. CASE Reactor(Receive)
  BY <1>3, ReceiveServer
<1>4. CASE Reactor(TaskStep) \/ Reactor(OpenFails) \/ Reactor(ReadError)
  BY <1>4, TaskServer
<1> QED
  BY <1>1, <1>2, <1>3, <1>4 DEF ServerNext

\* A reactor that has ended takes no step.
LEMMA EndedReactor ==
    ASSUME ServerInv, ~running
    PROVE  ~(Receive \/ TaskStep \/ OpenFails \/ ReadError)
<1>1. commands = <<>> /\ tasks = {}
  BY DEF ServerInv, Inv, Flow, Halted
<1>2. ~Receive
  BY DEF Receive, Receives, ReceiveOpen, ReceiveRead, ReceiveReadDir, ReceiveClose, ReceiveShutdown
<1>3. ~(TaskStep \/ OpenFails \/ ReadError)
  BY <1>1 DEF TaskStep, OpenNofollow, OpenFollow, OpenMetadata, ReadAt, ReadDir, OpenFails,
     ReadError
<1> QED
  BY <1>2, <1>3

\* The invariant of the streams and the engine together holds in every state that
\* they reach.
THEOREM ServerInvariance == ServerSpec => []ServerInv
<1>1. ServerInit => ServerInv
  BY ServerInvInit
<1>2. ServerInv /\ [ServerNext]_allVars => ServerInv'
  BY ServerInvStep
<1> QED
  BY <1>1, <1>2, PTL DEF ServerSpec

\* A registered file is held by a stream's phase or by an event on a stream's
\* bridge, or its Close is in the channel.
THEOREM FilesStayReachable == ServerSpec => []FilesReachable
<1>1. ServerInv => FilesReachable
  <2> SUFFICES ASSUME ServerInv, NEW id \in files
               PROVE  \/ \E s \in Streams : id \in Holds(s)
                      \/ \E i \in 1 .. Len(commands) : commands[i] = CloseCommand(id)
    BY DEF FilesReachable
  <2>1. id \in handles \/ \E i \in 1 .. Len(commands) : commands[i] = CloseCommand(id)
    BY DEF ServerInv, Inv, Flow, NoLeakedFile
  <2> QED
    BY <2>1 DEF ServerInv, Owning, Holding
<1> QED
  BY <1>1, ServerInvariance, PTL

\* A stream holds the handles of its own opens only, and reads its own file only.
THEOREM StreamsKeepApart == ServerSpec => []OwnFile
<1>1. ServerInv => OwnFile
  BY AskingOwn DEF ServerInv
<1> QED
  BY <1>1, ServerInvariance, PTL

\* Once shutdown has returned the reactor has no task and no file, and no event
\* reaches a bridge.
THEOREM QuietOnceJoined == ServerSpec => QuietAfterJoin
<1>1. ServerInv /\ [ServerNext]_allVars =>
        [module = "Unloaded" =>
           /\ tasks = {} /\ files = {}
           /\ \A s \in Streams : Len(bridge'[s]) <= Len(bridge[s])]_allVars
  <2> SUFFICES ASSUME ServerInv, ServerNext, module = "Unloaded"
               PROVE  /\ tasks = {} /\ files = {}
                      /\ \A s \in Streams : Len(bridge'[s]) <= Len(bridge[s])
    OBVIOUS
  <2>1. ~running /\ tasks = {} /\ files = {}
    BY DEF ServerInv, Shape, Inv, Flow, Halted
  <2>2. bridge \in [Streams -> Seq(EventType)] /\ \A s \in Streams : Len(bridge[s]) \in Nat
    BY DEF ServerInv, Shape
  <2>3. CASE bridge' = bridge
    BY <2>1, <2>2, <2>3
  <2>4. ASSUME NEW s \in Streams, HandleEvent(s) \/ OnStreamComplete(s)
        PROVE  \A t \in Streams : Len(bridge'[t]) <= Len(bridge[t])
    <3>1. PICK q \in Seq(EventType) : bridge' = [bridge EXCEPT ![s] = q] /\ Len(q) <= Len(bridge[s])
      <4>1. CASE HandleEvent(s)
        <5>1. bridge[s] # <<>> /\ bridge' = [bridge EXCEPT ![s] = Tail(bridge[s])]
          BY <4>1 DEF HandleEvent
        <5>2. Tail(bridge[s]) \in Seq(EventType) /\ Len(Tail(bridge[s])) <= Len(bridge[s])
          BY <2>2, <5>1
        <5> QED
          BY <5>1, <5>2
      <4>2. CASE OnStreamComplete(s)
        <5>1. bridge' = [bridge EXCEPT ![s] = <<>>]
          BY <4>2 DEF OnStreamComplete
        <5>2. <<>> \in Seq(EventType) /\ Len(<<>>) <= Len(bridge[s])
          BY <2>2
        <5> QED
          BY <5>1, <5>2
      <4> QED
        BY <2>4, <4>1, <4>2
    <3>2. ASSUME NEW t \in Streams PROVE Len(bridge'[t]) <= Len(bridge[t])
      BY <2>2, <3>1
    <3> QED
      BY <3>2
  <2>5. ASSUME NEW s \in Streams,
               OnRequestHeaders(s) \/ Flush(s) \/ IssueRead(s) \/ DropFilter(s)
        PROVE  bridge' = bridge
    BY <2>5 DEF OnRequestHeaders, Flush, IssueRead, DropFilter
  <2>6. CASE Load \/ DropConfig \/ JoinReturns
    <3>1. bridge' = bridge
      BY <2>6 DEF Load, DropConfig, JoinReturns
    <3> QED
      BY <2>3, <3>1
  <2>7. ~(Reactor(Receive) \/ Reactor(TaskStep) \/ Reactor(OpenFails) \/ Reactor(ReadError))
    BY <2>1, EndedReactor DEF Reactor
  <2> QED
    BY <2>1, <2>3, <2>4, <2>5, <2>6, <2>7 DEF ServerNext, StreamStep
<1> QED
  BY <1>1, ServerInvariance, PTL DEF ServerSpec, QuietAfterJoin
=============================================================================
