---------------------------- MODULE EngineProofs -----------------------------
(* Proofs about Engine, for any files, any number of operations and any size of *)
(* the cache.                                                                   *)
EXTENDS Engine, FiniteSetTheorems, TLAPS

-----------------------------------------------------------------------------
(* The inductive invariant. *)

Calls == {"Open", "Read", "ReadDir"}
Channel == 1 .. Len(commands)
Queued == {i \in Channel : commands[i].op \in Calls}
Opening == {"Nofollow", "Follow", "Metadata"}

\* The operation that a command, or a task, stands for.
CommandOp(i) == Op(commands[i].op, commands[i].id, commands[i].ticket)
TaskOp(task) == Op(task.kind, task.id, task.ticket)

\* The cached directories.
Cached == {d \in Dirs : canonCache[d] # "None"}

\* The cache is finite and, without a rename, tells where a directory is.
Cache ==
    /\ canonCache \in [Dirs -> Where \cup {"None"}]
    /\ IsFiniteSet(Cached) /\ Cardinality(Cached) <= CanonCacheMax
    /\ renames = 0 => \A d \in Dirs : canonCache[d] \in {"None", canon[d]}

\* The ids of opens.
Known == 1 .. nextId - 1

\* Where a task may find its file.
Places(task) == IF task.linked THEN {opens[task.id].link} ELSE task.seen

\* A task of an open has read nothing before it knows the file; without a rename
\* it has seen where its directory is, and has passed the check if it prefetches.
SoundOpen(task) ==
    /\ task.id \in Known /\ task.at \in Opening \cup {"Read"}
    /\ task.at \in Opening => task.got = 0
    /\ task.at = "Follow" \/ task.linked => opens[task.id].link \in Where
    /\ task.at \in {"Nofollow", "Follow"} => ~task.linked
    /\ renames = 0 => /\ canon[opens[task.id].dir] \in task.seen
                      /\ task.at = "Read" => "In" \in Places(task)

\* A task of a read has found its file, which does not grow, and has read no more
\* than there was.
SoundRead(task) ==
    /\ task.id \in Known /\ task.at = "Read" /\ task.len = ReadLen
    /\ task.got <= Bytes(task, task.size) /\ length[task.id] <= task.size

Sound(task) ==
    /\ task \in TaskType /\ task.got <= task.len
    /\ task.kind = "Open" => SoundOpen(task)
    /\ task.kind = "Read" => SoundRead(task)
    /\ task.kind = "ReadDir" => task.at = "Dir"

\* The last callback was that of a task, and is what the properties say.
Answer ==
    /\ last.task \in TaskType /\ (last.result = "None" <=> last = NoCall)
    /\ last.task.kind \in {"Open", "Read"} => last.task.id \in Known
    /\ ReadsExact /\ VerdictExact

\* A reactor that has ended keeps nothing.
Halted == ~running => commands = <<>> /\ tasks = {} /\ files = {}

\* Ids are those of opens.
Named ==
    /\ \A i \in Channel :
          commands[i].op \in {"Open", "Read", "Close"} => commands[i].id \in Known
    /\ files \subseteq Known /\ handles \subseteq Known

\* An operation is in the channel or at a task, once, and was submitted.
Once ==
    /\ \A i, j \in Queued : CommandOp(i) = CommandOp(j) => i = j
    /\ \A x, y \in tasks : TaskOp(x) = TaskOp(y) => x = y
    /\ \A i \in Queued, x \in tasks : CommandOp(i) # TaskOp(x)
    /\ \A i \in Queued : CommandOp(i) \in Submitted
    /\ \A x \in tasks : TaskOp(x) \in Submitted

\* An id that has, or has had, a handle.
Used(id) ==
    \/ id \in handles \cup files
    \/ \E i \in Channel : commands[i].op \in {"Read", "Close"} /\ commands[i].id = id

\* An open that has not called back has given out no handle.
Unused ==
    /\ \A i \in Channel : commands[i].op = "Open" => ~Used(commands[i].id)
    /\ \A task \in tasks : task.kind = "Open" => ~Used(task.id)

\* A live handle has its file, its Close is not sent, and a Close is behind all
\* the reads of the handle.
Found ==
    /\ running => handles \subseteq files
    /\ \A i \in Channel : commands[i].op = "Read" => commands[i].id \in files
    /\ \A i \in Channel : commands[i].op = "Close" => commands[i].id \notin handles
    /\ \A i, j \in Channel :
          commands[i].op = "Close" /\ commands[j].op = "Read" /\ commands[j].id = commands[i].id
          => j < i

\* The types of what is left.
Basics ==
    /\ commands \in Seq(CommandType) /\ running \in BOOLEAN /\ stopped \in BOOLEAN
    /\ nextId \in 1 .. MaxOpens + 1 /\ length \in [Ids -> Nat] /\ canon \in [Dirs -> Where]
    /\ opens \in Seq(Requests) /\ Len(opens) = nextId - 1
    /\ reads \in Nat /\ reads <= MaxReads /\ truncates \in Nat /\ renames \in Nat

Flow == Halted /\ Named /\ Once /\ Unused /\ Found /\ NoLeakedFile

Inv == Basics /\ Cache /\ (\A task \in tasks : Sound(task)) /\ Answer /\ Flow

-----------------------------------------------------------------------------
(* The channel. *)

\* The known ids are ids.
LEMMA KnownIds ==
    ASSUME Basics
    PROVE  Known \subseteq Ids /\ Known \subseteq Nat \ {0} /\ \A id \in Known : opens[id] \in Requests
  BY EngineAssumption DEF Basics, Known, Ids

\* The invariant implies the type invariant.
LEMMA InvTypeOK ==
    ASSUME Inv
    PROVE  TypeOK
<1>1. files \subseteq Ids /\ handles \subseteq Ids
  BY KnownIds DEF Inv, Flow, Named
<1>2. tasks \subseteq TaskType /\ \A task \in tasks : task.got <= task.len
  BY DEF Inv, Sound
<1>3. CacheBounded
  BY DEF Inv, Cache, Cached, CacheBounded
<1> QED
  BY <1>1, <1>2, <1>3 DEF Inv, Basics, Cache, TypeOK

\* What try_send does to the channel.
LEMMA Sent ==
    ASSUME commands \in Seq(CommandType), NEW c \in CommandType, commands' = Send(c)
    PROVE  /\ commands' \in Seq(CommandType)
           /\ ~running => commands' = commands
           /\ \A i \in Channel : i \in Channel' /\ commands'[i] = commands[i]
           /\ \A i \in Channel' \ Channel :
                 running /\ i = Len(commands) + 1 /\ commands'[i] = c
           /\ running => Len(commands) + 1 \in Channel' /\ commands'[Len(commands) + 1] = c
  BY DEF Send, Channel

\* The reactor takes the first command.
Take == running /\ commands # <<>> /\ commands' = Tail(commands)

\* The k-th command is the i-th after a receive.
After(k, i) == i \in Nat \ {0} /\ k \in Nat \ {0, 1} /\ k = i + 1

\* What a receive does to the channel.
LEMMA Received ==
    ASSUME commands \in Seq(CommandType), Take
    PROVE  /\ commands' \in Seq(CommandType)
           /\ 1 \in Channel /\ Head(commands) = commands[1] /\ commands[1] \in CommandType
           /\ \A i \in Channel' : \E k \in Channel : After(k, i) /\ commands'[i] = commands[k]
           /\ \A k \in Channel : k = 1 \/ \E i \in Channel' : After(k, i) /\ commands'[i] = commands[k]
<1>1. /\ commands' \in Seq(CommandType) /\ 1 \in Channel
      /\ Head(commands) = commands[1] /\ commands[1] \in CommandType
  BY DEF Channel, Take
<1>2. ASSUME NEW i \in Channel'
      PROVE  i + 1 \in Channel /\ After(i + 1, i) /\ commands'[i] = commands[i + 1]
  BY DEF Channel, After, Take
<1>3. ASSUME NEW k \in Channel, k # 1
      PROVE  k - 1 \in Channel' /\ After(k, k - 1) /\ commands'[k - 1] = commands[k]
  BY <1>3 DEF Channel, After, Take
<1> QED
  BY <1>1, <1>2, <1>3

\* What is queued after a send.
LEMMA SentQueued ==
    ASSUME commands \in Seq(CommandType), NEW c \in CommandType, commands' = Send(c)
    PROVE  /\ \A i \in Queued : i \in Queued' /\ CommandOp(i)' = CommandOp(i)
           /\ \A i \in Queued' \ Queued :
                 /\ running /\ i = Len(commands) + 1 /\ c.op \in Calls
                 /\ CommandOp(i)' = Op(c.op, c.id, c.ticket)
           /\ running /\ c.op \in Calls =>
                 \E i \in Queued' : CommandOp(i)' = Op(c.op, c.id, c.ticket)
<1>1. \A i \in Queued : i \in Queued' /\ CommandOp(i)' = CommandOp(i)
  BY Sent DEF Queued, CommandOp
<1>2. ASSUME NEW i \in Queued' \ Queued
      PROVE  /\ running /\ i = Len(commands) + 1 /\ c.op \in Calls
             /\ CommandOp(i)' = Op(c.op, c.id, c.ticket)
  <2>1. i \in Channel' \ Channel
    BY <1>2, Sent DEF Queued
  <2> QED
    BY <1>2, <2>1, Sent DEF Queued, CommandOp, Op
<1>3. ASSUME running, c.op \in Calls
      PROVE  \E i \in Queued' : CommandOp(i)' = Op(c.op, c.id, c.ticket)
  <2>1. PICK i \in Channel' : i = Len(commands) + 1 /\ commands'[i] = c
    BY <1>3, Sent
  <2>2. i \in Queued' /\ CommandOp(i)' = Op(c.op, c.id, c.ticket)
    BY <1>3, <2>1 DEF Queued, CommandOp
  <2> QED
    BY <2>2
<1> QED
  BY <1>1, <1>2, <1>3

\* What is queued after a receive.
LEMMA ReceivedQueued ==
    ASSUME commands \in Seq(CommandType), Take
    PROVE  /\ \A i \in Queued' : \E k \in Queued : After(k, i) /\ CommandOp(i)' = CommandOp(k)
           /\ \A k \in Queued : k = 1 \/ \E i \in Queued' : CommandOp(i)' = CommandOp(k)
  BY Received DEF Queued, CommandOp

\* Steps of tasks that hand out no handle.
LEMMA FlowTasks ==
    ASSUME Flow, UNCHANGED <<commands, running, files, handles, nextId, reads>>,
           \A x, y \in tasks' : TaskOp(x) = TaskOp(y) => x = y,
           \A y \in tasks' : \E x \in tasks : x.kind = y.kind /\ x.id = y.id /\ x.ticket = y.ticket
    PROVE  Flow'
<1>1. Channel' = Channel /\ Queued' = Queued /\ Submitted' = Submitted /\ Known' = Known
  BY DEF Channel, Queued, Submitted, Known
<1>2. \A i : CommandOp(i)' = CommandOp(i)
  BY DEF CommandOp
<1>3. \A id : Used(id)' = Used(id)
  BY <1>1 DEF Used
<1>4. \A y \in tasks' : \E x \in tasks : x.kind = y.kind /\ x.id = y.id /\ TaskOp(x) = TaskOp(y)
  BY DEF TaskOp
<1>5. Once'
  BY <1>1, <1>2, <1>4 DEF Flow, Once
<1>6. Unused'
  BY <1>1, <1>3 DEF Flow, Unused
<1>7. Halted' /\ Named' /\ Found' /\ NoLeakedFile'
  BY <1>1 DEF Flow, Halted, Named, Found, NoLeakedFile, Channel
<1> QED
  BY <1>5, <1>6, <1>7 DEF Flow

\* Submitting an operation that is new, on a handle that is live.
LEMMA FlowSubmit ==
    ASSUME Basics, Flow, NEW c \in CommandType, commands' = Send(c), c.op \in Calls,
           UNCHANGED <<running, files, handles, tasks>>,
           Submitted \subseteq Submitted', Known \subseteq Known',
           Op(c.op, c.id, c.ticket) \in Submitted' \ Submitted,
           c.op = "Open" => c.id \in Known' \ Known,
           c.op = "Read" => c.id \in handles
    PROVE  Flow'
<1>1. /\ \A i \in Channel : i \in Channel' /\ commands'[i] = commands[i]
      /\ \A i \in Channel' \ Channel : running /\ commands'[i] = c
      /\ ~running => commands' = commands
  BY Sent DEF Basics
<1>2. \A id : Used(id)' => Used(id)
  BY <1>1 DEF Used, Calls
<1>3. \A id : Used(id) => id \in Known
  BY DEF Used, Flow, Named
<1>4. Halted'
  BY <1>1 DEF Flow, Halted
<1>5. Named'
  BY <1>1 DEF Flow, Named, Calls
<1>6. Once'
  <2>1. /\ \A i \in Queued' \cap Queued : CommandOp(i)' = CommandOp(i)
        /\ \A i \in Queued' \ Queued :
              i = Len(commands) + 1 /\ CommandOp(i)' = Op(c.op, c.id, c.ticket)
    BY SentQueued DEF Basics
  <2> QED
    BY <2>1 DEF Flow, Once
<1>7. Unused'
  BY <1>1, <1>2, <1>3 DEF Flow, Unused
<1>8. Found'
  <2>1. \A i \in Channel', j \in Channel' :
          commands'[i].op = "Close" /\ commands'[j].op = "Read" /\ commands'[j].id = commands'[i].id
          => j < i
    BY <1>1 DEF Flow, Found, Calls
  <2> QED
    BY <1>1, <2>1 DEF Flow, Found, Calls
<1>9. NoLeakedFile'
  BY <1>1 DEF Flow, NoLeakedFile, Channel, CloseCommand, Command
<1> QED
  BY <1>4, <1>5, <1>6, <1>7, <1>8, <1>9 DEF Flow

\* A Close, when its handle is dropped, or a Shutdown.
LEMMA FlowSend ==
    ASSUME Basics, Flow, NEW c \in CommandType, commands' = Send(c),
           UNCHANGED <<running, files, tasks, nextId, reads>>,
           \/ c.op = "Shutdown" /\ UNCHANGED handles
           \/ c = CloseCommand(c.id) /\ c.id \in handles /\ handles' = handles \ {c.id}
    PROVE  Flow'
<1>0. c.op \in {"Close", "Shutdown"} /\ Submitted' = Submitted /\ Known' = Known
  BY DEF CloseCommand, Command, Submitted, Known
<1>1. /\ \A i \in Channel : i \in Channel' /\ commands'[i] = commands[i]
      /\ \A i \in Channel' \ Channel : running /\ commands'[i] = c /\ i = Len(commands) + 1
      /\ running => \E i \in Channel' : commands'[i] = c
      /\ ~running => commands' = commands
      /\ \A i \in Channel : i < Len(commands) + 1
  BY Sent DEF Basics, Channel
<1>2. \A id : Used(id)' => Used(id)
  BY <1>0, <1>1 DEF Used
<1>3. Halted'
  BY <1>1 DEF Flow, Halted
<1>4. Named'
  BY <1>0, <1>1 DEF Flow, Named
<1>5. Once'
  <2>1. /\ \A i \in Queued' : i \in Queued /\ CommandOp(i)' = CommandOp(i)
    BY <1>0, SentQueued DEF Basics, Calls
  <2> QED
    BY <1>0, <2>1 DEF Flow, Once
<1>6. Unused'
  BY <1>0, <1>1, <1>2 DEF Flow, Unused
<1>7. Found'
  <2>1. \A i \in Channel', j \in Channel' :
          commands'[i].op = "Close" /\ commands'[j].op = "Read" /\ commands'[j].id = commands'[i].id
          => j < i
    BY <1>0, <1>1 DEF Flow, Found
  <2>2. \A i \in Channel' : commands'[i].op = "Close" => commands'[i].id \notin handles'
    BY <1>0, <1>1 DEF Flow, Found
  <2> QED
    BY <1>0, <1>1, <2>1, <2>2 DEF Flow, Found
<1>8. NoLeakedFile'
  <2> SUFFICES ASSUME NEW id \in files
               PROVE  id \in handles' \/ \E i \in Channel' : commands'[i] = CloseCommand(id)
    BY DEF NoLeakedFile, Channel, CloseCommand, Command
  <2>1. running
    BY DEF Flow, Halted
  <2>2. id \in handles \/ \E i \in Channel : commands[i] = CloseCommand(id)
    BY DEF Flow, NoLeakedFile, Channel
  <2> QED
    BY <1>1, <2>1, <2>2
<1> QED
  BY <1>3, <1>4, <1>5, <1>6, <1>7, <1>8 DEF Flow

\* An open calls back with a handle, which is kept or dropped.
LEMMA FlowOpened ==
    ASSUME Basics, Flow, NEW task \in tasks, task.kind = "Open", task.id \in Known,
           tasks' = tasks \ {task}, files' = files \cup {task.id},
           \/ handles' = handles \cup {task.id} /\ UNCHANGED commands
           \/ commands' = Send(CloseCommand(task.id)) /\ UNCHANGED handles,
           UNCHANGED <<running, nextId, reads>>
    PROVE  Flow'
<1>0. /\ Submitted' = Submitted /\ Known' = Known /\ running
      /\ CloseCommand(task.id) \in CommandType
      /\ CloseCommand(task.id).op = "Close" /\ CloseCommand(task.id).id = task.id
  BY KnownIds DEF CloseCommand, Command, CommandType, Submitted, Known, Flow, Halted
<1>1. /\ \A i \in Channel : i \in Channel' /\ commands'[i] = commands[i]
      /\ \A i \in Channel' \ Channel : commands'[i] = CloseCommand(task.id) /\ handles' = handles
      /\ handles' # handles => commands' = commands
      /\ task.id \in handles' \/ \E i \in Channel' : commands'[i] = CloseCommand(task.id)
      /\ \A i \in Channel : i < Len(commands) + 1
      /\ \A i \in Channel' \ Channel : i = Len(commands) + 1
  BY <1>0, Sent DEF Basics, Channel
<1>2. \A id : Used(id)' => Used(id) \/ id = task.id
  BY <1>0, <1>1 DEF Used
<1>3. ~Used(task.id)
  BY DEF Flow, Unused
<1>4. Halted' /\ Named'
  BY <1>0, <1>1 DEF Flow, Halted, Named
<1>5. Once'
  <2>1. \A i \in Queued' : i \in Queued /\ CommandOp(i)' = CommandOp(i)
    BY <1>0, <1>1 DEF Queued, CommandOp, Calls
  <2> QED
    BY <1>0, <2>1 DEF Flow, Once
<1>6. Unused'
  <2>1. ASSUME NEW i \in Channel, commands[i].op = "Open" PROVE commands[i].id # task.id
    <3>1. i \in Queued /\ CommandOp(i) # TaskOp(task)
      BY <2>1 DEF Flow, Once, Queued, Calls
    <3> QED
      BY <2>1, <3>1 DEF CommandOp, TaskOp, Op
  <2>2. ASSUME NEW x \in tasks', x.kind = "Open" PROVE x.id # task.id
    <3>1. TaskOp(x) # TaskOp(task)
      BY <2>2 DEF Flow, Once
    <3> QED
      BY <2>2, <3>1 DEF TaskOp, Op
  <2>3. \A i \in Channel' : commands'[i].op = "Open" => i \in Channel /\ commands'[i] = commands[i]
    BY <1>0, <1>1
  <2>4. (\A i \in Channel : commands[i].op = "Open" => ~Used(commands[i].id))'
    BY <1>2, <2>1, <2>3 DEF Flow, Unused
  <2> QED
    BY <1>2, <2>2, <2>4 DEF Flow, Unused
<1>7. Found'
  <2>1. /\ \A i \in Channel : commands[i].op \in {"Read", "Close"} => commands[i].id # task.id
        /\ task.id \notin handles
    BY <1>3 DEF Used
  <2>2. \A i \in Channel', j \in Channel' :
          commands'[i].op = "Close" /\ commands'[j].op = "Read" /\ commands'[j].id = commands'[i].id
          => j < i
    BY <1>0, <1>1, <2>1 DEF Flow, Found
  <2>3. \A i \in Channel' : commands'[i].op = "Close" => commands'[i].id \notin handles'
    BY <1>0, <1>1, <2>1 DEF Flow, Found
  <2>4. \A i \in Channel' : commands'[i].op = "Read" => commands'[i].id \in files'
    BY <1>0, <1>1 DEF Flow, Found
  <2> QED
    BY <1>0, <2>2, <2>3, <2>4 DEF Flow, Found
<1>8. NoLeakedFile'
  <2> SUFFICES ASSUME NEW id \in files'
               PROVE  id \in handles' \/ \E i \in Channel' : commands'[i] = CloseCommand(id)
    BY DEF NoLeakedFile, Channel, CloseCommand, Command
  <2>1. CASE id = task.id
    BY <1>1, <2>1
  <2>2. CASE id \in files
    <3>1. id \in handles \/ \E i \in Channel : commands[i] = CloseCommand(id)
      BY <2>2 DEF Flow, NoLeakedFile, Channel
    <3> QED
      BY <1>1, <3>1
  <2> QED
    BY <2>1, <2>2
<1> QED
  BY <1>4, <1>5, <1>6, <1>7, <1>8 DEF Flow

\* The task of an operation takes the place of its command.
LEMMA FlowReceive ==
    ASSUME Basics, Flow, Take,
           commands[1].op \in Calls, NEW task, tasks' = tasks \cup {task},
           task.kind = commands[1].op, task.id = commands[1].id,
           task.ticket = commands[1].ticket,
           UNCHANGED <<running, files, handles, nextId, reads>>
    PROVE  Flow'
<1>1. /\ \A i \in Channel' : \E k \in Channel : After(k, i) /\ commands'[i] = commands[k]
      /\ 1 \in Channel
      /\ \A k \in Channel : k = 1 \/ \E i \in Channel' : commands'[i] = commands[k]
  BY Received DEF Basics
<1>2. Submitted' = Submitted /\ Known' = Known
  BY DEF Submitted, Known
<1>3. \A id : Used(id)' => Used(id)
  BY <1>1 DEF Used
<1>4. Halted' /\ Named'
  BY <1>1, <1>2 DEF Flow, Halted, Named, Take
<1>5. Once'
  <2>1. \A i \in Queued' : \E k \in Queued : After(k, i) /\ CommandOp(i)' = CommandOp(k)
    BY ReceivedQueued DEF Basics
  <2>2. 1 \in Queued /\ CommandOp(1) = TaskOp(task)
    BY <1>1 DEF Queued, CommandOp, TaskOp
  <2>3. \A i \in Queued' : CommandOp(i)' # TaskOp(task)
    BY <2>1, <2>2 DEF Flow, Once, After
  <2>4. \A i, j \in Queued' : CommandOp(i)' = CommandOp(j)' => i = j
    BY <2>1 DEF Flow, Once, After
  <2>5. \A x, y \in tasks' : TaskOp(x) = TaskOp(y) => x = y
    BY <2>2 DEF Flow, Once
  <2>6. \A i \in Queued', x \in tasks' : CommandOp(i)' # TaskOp(x)
    BY <2>1, <2>3 DEF Flow, Once
  <2>7. /\ \A i \in Queued' : CommandOp(i)' \in Submitted'
        /\ \A x \in tasks' : TaskOp(x) \in Submitted'
    BY <1>2, <2>1, <2>2 DEF Flow, Once
  <2> QED
    BY <2>4, <2>5, <2>6, <2>7 DEF Once
<1>6. Unused'
  <2>1. (\A i \in Channel : commands[i].op = "Open" => ~Used(commands[i].id))'
    BY <1>1, <1>3 DEF Flow, Unused
  <2>2. task.kind = "Open" => ~Used(task.id)
    BY <1>1 DEF Flow, Unused
  <2> QED
    BY <1>3, <2>1, <2>2 DEF Flow, Unused
<1>7. Found'
  <2>1. \A i \in Channel', j \in Channel' :
          commands'[i].op = "Close" /\ commands'[j].op = "Read" /\ commands'[j].id = commands'[i].id
          => j < i
    BY <1>1 DEF Flow, Found, After
  <2> QED
    BY <1>1, <2>1 DEF Flow, Found
<1>8. NoLeakedFile'
  <2> SUFFICES ASSUME NEW id \in files, id \notin handles
               PROVE  \E i \in Channel' : commands'[i] = CloseCommand(id)
    BY DEF NoLeakedFile, Channel, CloseCommand, Command
  <2>1. PICK i \in Channel : commands[i] = CloseCommand(id)
    BY DEF Flow, NoLeakedFile, Channel
  <2>2. i # 1
    BY <2>1 DEF CloseCommand, Command, Calls
  <2> QED
    BY <1>1, <2>1, <2>2
<1> QED
  BY <1>4, <1>5, <1>6, <1>7, <1>8 DEF Flow

\* A Close finds no handle and no read of its file behind it.
LEMMA FlowClose ==
    ASSUME Basics, Flow, Take,
           commands[1].op = "Close", files' = files \ {commands[1].id},
           UNCHANGED <<running, tasks, handles, nextId, reads>>
    PROVE  Flow'
<1>1. /\ \A i \in Channel' : \E k \in Channel : After(k, i) /\ commands'[i] = commands[k]
      /\ 1 \in Channel
      /\ \A k \in Channel : k = 1 \/ \E i \in Channel' : commands'[i] = commands[k]
  BY Received DEF Basics
<1>2. Submitted' = Submitted /\ Known' = Known
  BY DEF Submitted, Known
<1>3. \A id : Used(id)' => Used(id)
  BY <1>1 DEF Used
<1>4. Halted' /\ Named'
  BY <1>1, <1>2 DEF Flow, Halted, Named, Take
<1>5. Once'
  <2>1. \A i \in Queued' : \E k \in Queued : After(k, i) /\ CommandOp(i)' = CommandOp(k)
    BY ReceivedQueued DEF Basics
  <2>2. \A i, j \in Queued' : CommandOp(i)' = CommandOp(j)' => i = j
    BY <2>1 DEF Flow, Once, After
  <2> QED
    BY <1>2, <2>1, <2>2 DEF Flow, Once
<1>6. Unused'
  <2>1. (\A i \in Channel : commands[i].op = "Open" => ~Used(commands[i].id))'
    BY <1>1, <1>3 DEF Flow, Unused
  <2> QED
    BY <1>3, <2>1 DEF Flow, Unused
<1>7. Found'
  <2>1. \A i \in Channel', j \in Channel' :
          commands'[i].op = "Close" /\ commands'[j].op = "Read" /\ commands'[j].id = commands'[i].id
          => j < i
    BY <1>1 DEF Flow, Found, After
  <2>2. \A i \in Channel : commands[i].op = "Read" => commands[i].id # commands[1].id
    BY <1>1 DEF Flow, Found, Channel
  <2>3. commands[1].id \notin handles
    BY <1>1 DEF Flow, Found
  <2>4. \A i \in Channel' : commands'[i].op = "Read" => commands'[i].id \in files'
    BY <1>1, <2>2 DEF Flow, Found
  <2> QED
    BY <1>1, <2>1, <2>3, <2>4 DEF Flow, Found
<1>8. NoLeakedFile'
  <2> SUFFICES ASSUME NEW id \in files', id \notin handles
               PROVE  \E i \in Channel' : commands'[i] = CloseCommand(id)
    BY DEF NoLeakedFile, Channel, CloseCommand, Command
  <2>1. PICK i \in Channel : commands[i] = CloseCommand(id)
    BY DEF Flow, NoLeakedFile, Channel
  <2>2. i # 1
    BY <2>1 DEF CloseCommand, Command
  <2> QED
    BY <1>1, <2>1, <2>2
<1> QED
  BY <1>4, <1>5, <1>6, <1>7, <1>8 DEF Flow

\* The end of the reactor leaves nothing to say of.
LEMMA FlowEnd ==
    ASSUME Flow, commands' = <<>>, files' = {}, tasks' = {}, running' = FALSE,
           UNCHANGED <<handles, nextId>>
    PROVE  Flow'
<1>1. Channel' = {} /\ Queued' = {} /\ Known' = Known
  BY DEF Channel, Queued, Known
<1> QED
  BY <1>1 DEF Flow, Halted, Named, Once, Unused, Found, NoLeakedFile

\* Steps of the file system leave the flow as it is.
LEMMA FlowSkip ==
    ASSUME Flow, UNCHANGED <<commands, running, files, handles, nextId, reads, tasks>>
    PROVE  Flow'
  BY FlowTasks DEF Flow, Once

-----------------------------------------------------------------------------
(* Tasks, callbacks and the cache. *)

\* What a read of a task could return at most is monotone in the file's length.
LEMMA BytesMonotone ==
    ASSUME NEW task \in TaskType, NEW n \in Nat, NEW m \in Nat, n <= m
    PROVE  Bytes(task, n) <= Bytes(task, m) /\ Bytes(task, n) \in Nat /\ Bytes(task, n) <= task.len
  BY DEF Bytes, TaskType

\* The moment's files: opens stay what they are, and files do not grow.
Settled ==
    /\ Known \subseteq Known' /\ UNCHANGED <<canon, renames>>
    /\ \A id \in Known : opens'[id] = opens[id] /\ length'[id] <= length[id]

\* A task, and the last callback, stay sound when others open files and when
\* files shrink.
LEMMA SoundKept ==
    ASSUME Basics, Basics', Settled, NEW task, Sound(task)
    PROVE  Sound(task)'
<1>1. CASE task.kind = "Open"
  BY <1>1 DEF Sound, SoundOpen, Places, Settled
<1>2. CASE task.kind = "Read"
  <2>1. /\ task.id \in Known /\ length[task.id] \in Nat /\ length'[task.id] \in Nat
        /\ task.size \in Nat
    BY <1>2, KnownIds DEF Sound, SoundRead, Basics, TaskType, Settled
  <2> QED
    BY <1>2, <2>1 DEF Sound, SoundRead, Settled, Bytes
<1>3. CASE task.kind = "ReadDir"
  BY <1>3 DEF Sound
<1> QED
  BY <1>1, <1>2, <1>3 DEF Sound, TaskType

\* The last callback was right when it ran, and is when files shrink.
LEMMA AnswerKept ==
    ASSUME Basics, Basics', Settled, Answer, UNCHANGED last
    PROVE  Answer'
<1>1. ASSUME last.task.kind = "Read", last.result = "Ok"
      PROVE  last.task.got >= Bytes(last.task, length'[last.task.id])
  <2>1. last.task.id \in Known /\ last.task \in TaskType
    BY <1>1 DEF Answer
  <2>2. /\ length[last.task.id] \in Nat /\ length'[last.task.id] \in Nat
        /\ length'[last.task.id] <= length[last.task.id]
    BY <2>1, KnownIds DEF Basics, Settled
  <2>3. last.task.got >= Bytes(last.task, length[last.task.id])
    BY <1>1 DEF Answer, ReadsExact, ReadsAreWhole
  <2>4. last.task.got \in Nat
    BY <2>1 DEF TaskType
  <2> HIDE DEF Bytes
  <2> QED
    BY <2>1, <2>2, <2>3, <2>4, BytesMonotone
<1>2. ReadsExact'
  BY <1>1 DEF Answer, ReadsExact, ReadsFindFile, ReadsAreWhole, Bytes
<1>3. VerdictExact'
  BY DEF Answer, VerdictExact, VerdictFresh, Settled
<1> QED
  BY <1>2, <1>3 DEF Answer, Settled, NoCall, Called, Task, Command

\* What a task may call back with.
Replies(final, result) ==
    /\ final \in TaskType
    /\ result \in {"Ok", "NotFound", "PermissionDenied", "Loop", "Other"}
    /\ final.kind \in {"Open", "Read"} => final.id \in Known
    /\ final.kind = "Read" =>
          /\ result # "NotFound"
          /\ result = "Ok" => /\ final.got <= Bytes(final, final.size)
                              /\ final.got >= Bytes(final, length[final.id])
    /\ renames = 0 /\ final.kind = "Open" =>
          /\ result = "Ok" => "In" \in Places(final)
          /\ result = "PermissionDenied" => "Out" \in Places(final)

\* Such a callback is what the properties say.
LEMMA AnswerCalled ==
    ASSUME NEW final, NEW result, Replies(final, result), last' = Called(final, result),
           UNCHANGED <<nextId, opens, length, renames>>
    PROVE  Answer'
<1>1. last'.task = final /\ last'.result = result
  BY DEF Called
<1>2. last' # NoCall /\ result # "None"
  BY <1>1 DEF NoCall, Called, Replies
<1> HIDE DEF Called
<1>3. Known' = Known
  BY DEF Known
<1>4. ReadsExact'
  BY <1>1 DEF Replies, ReadsExact, ReadsFindFile, ReadsAreWhole, Bytes
<1>5. VerdictExact'
  BY <1>1 DEF Replies, VerdictExact, VerdictFresh, Places
<1> QED
  BY <1>1, <1>2, <1>3, <1>4, <1>5 DEF Answer, Replies, NoCall

\* The cache has a new entry at most, is never above its bound and, as long as
\* nothing is renamed, right.
LEMMA CacheKept ==
    ASSUME Basics, Cache, NEW dir \in Dirs, canonCache' = parent_cached_canonicalize(dir),
           UNCHANGED <<canon, renames>>
    PROVE  /\ Cache'
           /\ canonCache'[dir] \in Where
           /\ renames = 0 => canonCache'[dir] = canon[dir]
<1>1. canon[dir] \in Where /\ "None" \notin Where /\ canonCache \in [Dirs -> Where \cup {"None"}]
  BY DEF Basics, Cache, Where
<1>2. CASE canonCache[dir] # "None"
  <2>1. canonCache' = canonCache
    BY <1>2 DEF parent_cached_canonicalize
  <2> QED
    BY <1>1, <1>2, <2>1 DEF Cache, Cached
<1>3. CASE canonCache[dir] = "None" /\ Cardinality(Cached) >= CanonCacheMax
  <2>1. canonCache' = [d \in Dirs |-> IF d = dir THEN canon[dir] ELSE "None"]
    BY <1>3 DEF parent_cached_canonicalize, Cached
  <2>2. Cached' = {dir}
    BY <1>1, <2>1 DEF Cached
  <2>3. IsFiniteSet(Cached') /\ Cardinality(Cached') = 1
    BY <2>2, FS_Singleton
  <2> QED
    BY <1>1, <2>1, <2>3, EngineAssumption DEF Cache
<1>4. CASE canonCache[dir] = "None" /\ ~(Cardinality(Cached) >= CanonCacheMax)
  <2>1. canonCache' = [canonCache EXCEPT ![dir] = canon[dir]]
    BY <1>4 DEF parent_cached_canonicalize, Cached
  <2>2. Cached' = Cached \cup {dir} /\ dir \notin Cached
    BY <1>1, <1>4, <2>1 DEF Cached
  <2>3. IsFiniteSet(Cached') /\ Cardinality(Cached') = Cardinality(Cached) + 1
    BY <2>2, FS_AddElement DEF Cache
  <2>4. Cardinality(Cached) \in Nat
    BY FS_CardinalityType DEF Cache
  <2> QED
    BY <1>1, <1>4, <2>1, <2>3, <2>4, EngineAssumption DEF Cache
<1> QED
  BY <1>2, <1>3, <1>4

-----------------------------------------------------------------------------
(* Operations. *)

\* A step of the engine seen as one of Operations.
AbstractStep == [Abstract!Next]_(Abstract!vars)

\* The operations at tasks, and those that are queued.
TaskOps == {TaskOp(task) : task \in tasks}
QueuedOps == {CommandOp(i) : i \in Queued}

\* Both are pending.
LEMMA PendingIs == Pending = TaskOps \cup QueuedOps /\ (Pending = TaskOps \cup QueuedOps)'
  BY DEF Pending, TaskOp, CommandOp, Queued, Channel, Calls, TaskOps, QueuedOps

\* What a send adds.
LEMMA SentOps ==
    ASSUME commands \in Seq(CommandType), NEW c \in CommandType, commands' = Send(c)
    PROVE  QueuedOps' = IF running /\ c.op \in Calls
                        THEN QueuedOps \cup {Op(c.op, c.id, c.ticket)} ELSE QueuedOps
<1>1. QueuedOps \subseteq QueuedOps'
  BY SentQueued DEF QueuedOps
<1>2. ASSUME NEW op \in QueuedOps'
      PROVE  op \in QueuedOps \/ (running /\ c.op \in Calls /\ op = Op(c.op, c.id, c.ticket))
  BY <1>2, SentQueued DEF QueuedOps
<1>3. running /\ c.op \in Calls => Op(c.op, c.id, c.ticket) \in QueuedOps'
  BY SentQueued DEF QueuedOps
<1> QED
  BY <1>1, <1>2, <1>3

\* What a receive takes.
LEMMA TakenOps ==
    ASSUME commands \in Seq(CommandType), Take
    PROVE  QueuedOps = QueuedOps' \cup (IF commands[1].op \in Calls THEN {CommandOp(1)} ELSE {})
<1>1. QueuedOps' \subseteq QueuedOps
  BY ReceivedQueued DEF QueuedOps
<1>2. 1 \in Queued <=> commands[1].op \in Calls
  BY Received DEF Queued
<1>3. ASSUME NEW op \in QueuedOps
      PROVE  op \in QueuedOps' \/ (commands[1].op \in Calls /\ op = CommandOp(1))
  BY <1>2, <1>3, ReceivedQueued DEF QueuedOps
<1> QED
  BY <1>1, <1>2, <1>3 DEF QueuedOps

\* What was submitted is an operation.
LEMMA SubmittedOps ==
    ASSUME Basics
    PROVE  Submitted \subseteq Ops
<1>1. 1 .. nextId - 1 \subseteq Ids /\ 0 .. reads - 1 \subseteq 0 .. MaxReads - 1
  BY EngineAssumption DEF Basics, Ids
<1>2. /\ [open : {TRUE}, n : 1 .. nextId - 1] \subseteq [open : {TRUE}, n : Ids]
      /\ [open : {FALSE}, n : 0 .. reads - 1] \subseteq [open : {FALSE}, n : 0 .. MaxReads - 1]
  BY <1>1
<1> QED
  BY <1>2 DEF Submitted, Ops

\* Steps that Operations does not see.
LEMMA Unseen ==
    ASSUME UNCHANGED <<running, nextId, reads, last>>,
           (TaskOps \cup QueuedOps)' = TaskOps \cup QueuedOps
    PROVE  AbstractStep
<1>1. Pending' = Pending
  BY PendingIs
<1>2. Submitted' = Submitted /\ Answered' = Answered
  BY DEF Submitted, Answered, NoCall, Called, Task, Command, Op
<1> QED
  BY <1>1, <1>2 DEF AbstractStep, Abstract!vars

\* An operation is submitted: it is pending if the engine runs.
LEMMA Submits ==
    ASSUME Basics, Basics', NEW c \in CommandType, commands' = Send(c), c.op \in Calls,
           Op(c.op, c.id, c.ticket) \notin Submitted,
           Submitted' = Submitted \cup {Op(c.op, c.id, c.ticket)},
           UNCHANGED <<running, tasks, last>>
    PROVE  AbstractStep
<1> DEFINE op == Op(c.op, c.id, c.ticket)
<1>1. op \in Ops
  <2>1. (Submitted \subseteq Ops)'
    BY SubmittedOps, PTL
  <2> QED
    BY <2>1 DEF Ops, Ids
<1>2. Answered' = Answered
  BY DEF Answered, NoCall, Called, Task, Command, Op
<1>3. Pending' = IF running THEN Pending \cup {op} ELSE Pending
  BY PendingIs, SentOps DEF Basics, TaskOps
<1> HIDE DEF op
<1>4. Abstract!Submit(op)
  BY <1>2, <1>3 DEF Abstract!Submit, op
<1> QED
  BY <1>1, <1>4 DEF AbstractStep, Abstract!Next

\* A task calls back: its operation is no longer pending.
LEMMA Completes ==
    ASSUME Basics, Flow, NEW task \in tasks, tasks' = tasks \ {task}, QueuedOps' = QueuedOps,
           NEW final, NEW result, last' = Called(final, result), result # "None",
           TaskOp(final) = TaskOp(task), UNCHANGED <<running, nextId, reads>>
    PROVE  AbstractStep
<1> DEFINE op == TaskOp(task)
<1>1. op \in Pending /\ op \in Ops
  BY PendingIs, SubmittedOps DEF Flow, Once, TaskOps
<1>2. TaskOps' = TaskOps \ {op}
  BY DEF Flow, Once, TaskOps
<1>3. op \notin QueuedOps
  BY DEF Flow, Once, QueuedOps
<1>4. Pending' = Pending \ {op}
  BY <1>2, <1>3, PendingIs
<1>5. Answered' = op
  <2>1. last' # NoCall /\ last'.task = final
    BY DEF NoCall, Called
  <2> QED
    BY <2>1 DEF Answered, TaskOp, NoCall, Called, Task, Command, Op
<1>6. Submitted' = Submitted
  BY DEF Submitted
<1> HIDE DEF op
<1>7. Abstract!Complete(op)
  BY <1>1, <1>4, <1>5, <1>6 DEF Abstract!Complete
<1> QED
  BY <1>1, <1>7 DEF AbstractStep, Abstract!Next

-----------------------------------------------------------------------------
(* Steps of tasks. *)

\* A task goes on.
LEMMA GotoInv ==
    ASSUME Inv, Cache', NEW task \in tasks, NEW next, Goto(task, next), UNCHANGED commands,
           Sound(next), next.kind = task.kind, next.id = task.id, next.ticket = task.ticket
    PROVE  Inv' /\ AbstractStep
<1>1. /\ UNCHANGED <<running, files, handles, opens, reads, nextId, stopped, length, canon,
                     truncates, renames, last>>
      /\ tasks' = (tasks \ {task}) \cup {next}
  BY DEF Goto, client, disk
<1>2. Basics'
  BY <1>1 DEF Inv, Basics
<1>3. Settled
  BY <1>1, KnownIds DEF Inv, Basics, Settled, Known
<1>4. \A x \in tasks' : Sound(x)'
  BY <1>1, <1>2, <1>3, SoundKept DEF Inv
<1>5. Answer'
  BY <1>1, <1>2, <1>3, AnswerKept DEF Inv
<1>6. Flow'
  <2>1. TaskOp(next) = TaskOp(task)
    BY DEF TaskOp
  <2>2. \A x, y \in tasks' : TaskOp(x) = TaskOp(y) => x = y
    BY <1>1, <2>1 DEF Inv, Flow, Once
  <2> QED
    BY <1>1, <2>2, FlowTasks DEF Inv
<1>7. AbstractStep
  <2>1. TaskOp(next) = TaskOp(task)
    BY DEF TaskOp
  <2>2. TaskOps' = TaskOps
    BY <1>1, <2>1 DEF TaskOps
  <2>3. QueuedOps' = QueuedOps
    BY DEF QueuedOps, CommandOp, Queued, Channel
  <2> QED
    BY <1>1, <2>2, <2>3, Unseen
<1> QED
  BY <1>2, <1>4, <1>5, <1>6, <1>7 DEF Inv

\* A task calls back without a handle.
LEMMA FinishInv ==
    ASSUME Inv, Cache', NEW task \in tasks, NEW final, NEW result, Finish(task, final, result),
           UNCHANGED commands, Replies(final, result), TaskOp(final) = TaskOp(task)
    PROVE  Inv' /\ AbstractStep
<1>1. /\ UNCHANGED <<running, files, handles, opens, reads, nextId, stopped, length, canon,
                     truncates, renames>>
      /\ tasks' = tasks \ {task} /\ last' = Called(final, result)
  BY DEF Finish, client, disk
<1>2. Basics'
  BY <1>1 DEF Inv, Basics
<1>3. Settled
  BY <1>1, KnownIds DEF Inv, Basics, Settled, Known
<1>4. \A x \in tasks' : Sound(x)'
  BY <1>1, <1>2, <1>3, SoundKept DEF Inv
<1>5. Answer'
  BY <1>1, AnswerCalled
<1>6. Flow'
  BY <1>1, FlowTasks DEF Inv, Flow, Once
<1>7. AbstractStep
  <2>1. QueuedOps' = QueuedOps
    BY DEF QueuedOps, CommandOp, Queued, Channel
  <2> QED
    BY <1>1, <2>1, Completes DEF Inv, Replies
<1> QED
  BY <1>2, <1>4, <1>5, <1>6, <1>7 DEF Inv

\* The task of an open calls back with a handle, inert or not.
LEMMA OpenedInv ==
    ASSUME Inv, Cache', NEW task \in tasks, NEW final, Opened(task, final), task.kind = "Open",
           final.id = task.id, Replies(final, "Ok"), TaskOp(final) = TaskOp(task)
    PROVE  Inv' /\ AbstractStep
<1>1. /\ UNCHANGED <<running, opens, reads, nextId, stopped, length, canon, truncates, renames>>
      /\ tasks' = tasks \ {task} /\ last' = Called(final, "Ok")
  BY DEF Opened, disk
<1>2. task.id \in Known /\ CloseCommand(task.id) \in CommandType
  BY KnownIds DEF Inv, Sound, SoundOpen, CloseCommand, Command, CommandType
<1>3. commands' \in Seq(CommandType)
  BY <1>2, Sent DEF Opened, Inv, Basics
<1>4. Basics'
  BY <1>1, <1>3 DEF Inv, Basics
<1>5. Settled
  BY <1>1, KnownIds DEF Inv, Basics, Settled, Known
<1>6. \A x \in tasks' : Sound(x)'
  BY <1>1, <1>4, <1>5, SoundKept DEF Inv
<1>7. Answer'
  BY <1>1, AnswerCalled
<1>8. Flow'
  <2>1. CASE Prefetched(final)
    BY <1>1, <2>1, FlowTasks DEF Opened, Inv, Flow, Once
  <2>2. CASE ~Prefetched(final)
    BY <1>1, <1>2, <2>2, FlowOpened DEF Opened, Inv
  <2> QED
    BY <2>1, <2>2
<1>9. AbstractStep
  <2>1. CloseCommand(task.id).op \notin Calls
    BY DEF CloseCommand, Command, Calls
  <2>2. commands' = commands => QueuedOps' = QueuedOps
    BY DEF QueuedOps, CommandOp, Queued, Channel
  <2>3. commands' = Send(CloseCommand(task.id)) => QueuedOps' = QueuedOps
    BY <1>2, <2>1, SentOps DEF Inv, Basics
  <2>4. QueuedOps' = QueuedOps
    BY <2>2, <2>3 DEF Opened
  <2> QED
    BY <1>1, <2>4, Completes DEF Inv
<1> QED
  BY <1>4, <1>6, <1>7, <1>8, <1>9 DEF Inv

\* The open that does not follow a link.
LEMMA OpenNofollowInv ==
    ASSUME Inv, OpenNofollow
    PROVE  Inv' /\ AbstractStep
<1> PICK task \in tasks :
      /\ task.at = "Nofollow"
      /\ UNCHANGED <<commands, canonCache>>
      /\ IF opens[task.id].link # "No"
         THEN IF opens[task.id].deny THEN Finish(task, task, "Loop")
              ELSE Goto(task, [task EXCEPT !.at = "Follow"])
         ELSE IF opens[task.id].node = "Missing" THEN Finish(task, task, "NotFound")
         ELSE Goto(task, [task EXCEPT !.at = "Metadata"])
  BY DEF OpenNofollow
<1>1. /\ Sound(task) /\ task \in TaskType /\ task.kind = "Open" /\ SoundOpen(task)
      /\ opens[task.id] \in RequestType
  BY KnownIds, EngineAssumption DEF Inv, Sound, SoundRead, SoundOpen, TaskType
<1>2. Cache'
  BY DEF Inv, Cache, Cached, Finish, Goto, disk
<1>3. Replies(task, "Loop") /\ Replies(task, "NotFound")
  BY <1>1 DEF Replies, SoundOpen
<1>4. ASSUME NEW at \in {"Follow", "Metadata"}, at = "Follow" => opens[task.id].link \in Where
      PROVE  LET next == [task EXCEPT !.at = at]
             IN  /\ Sound(next) /\ next.kind = task.kind /\ next.id = task.id
                 /\ next.ticket = task.ticket
  BY <1>1, <1>4 DEF Sound, SoundOpen, TaskType, Opening, Places
<1>5. opens[task.id].link # "No" => opens[task.id].link \in Where
  BY <1>1 DEF RequestType
<1> QED
  BY <1>1, <1>2, <1>3, <1>4, <1>5, GotoInv, FinishInv

\* The open that does.
LEMMA OpenFollowInv ==
    ASSUME Inv, OpenFollow
    PROVE  Inv' /\ AbstractStep
<1> PICK task \in tasks :
      /\ task.at = "Follow"
      /\ UNCHANGED <<commands, canonCache>>
      /\ IF opens[task.id].node = "Missing" THEN Finish(task, task, "NotFound")
         ELSE Goto(task, [task EXCEPT !.at = "Metadata", !.linked = TRUE])
  BY DEF OpenFollow
<1>1. Sound(task) /\ task \in TaskType /\ task.kind = "Open" /\ SoundOpen(task)
  BY DEF Inv, Sound, SoundRead, TaskType
<1>2. Cache'
  BY DEF Inv, Cache, Cached, Finish, Goto, disk
<1>3. Replies(task, "NotFound")
  BY <1>1 DEF Replies, SoundOpen
<1>4. LET next == [task EXCEPT !.at = "Metadata", !.linked = TRUE]
      IN  Sound(next) /\ next.kind = task.kind /\ next.id = task.id /\ next.ticket = task.ticket
  BY <1>1 DEF Sound, SoundOpen, TaskType, Opening, Places
<1> QED
  BY <1>1, <1>2, <1>3, <1>4, GotoInv, FinishInv

\* The metadata and the containment check.
LEMMA OpenMetadataInv ==
    ASSUME Inv, OpenMetadata
    PROVE  Inv' /\ AbstractStep
<1> DEFINE Want(task) == IF opens[task.id].node = "Dir" THEN 0
                         ELSE IF opens[task.id].want < length[task.id]
                         THEN opens[task.id].want ELSE length[task.id]
           KnownTask(task) == [task EXCEPT !.size = length[task.id], !.len = Want(task)]
<1>1. PICK task \in tasks :
        /\ task.at = "Metadata"
        /\ canonCache' = IF task.linked THEN canonCache
                         ELSE parent_cached_canonicalize(opens[task.id].dir)
        /\ IF Location(task, canonCache') = "Out"
           THEN Finish(task, KnownTask(task), "PermissionDenied") /\ UNCHANGED commands
           ELSE IF Want(task) > 0
           THEN Goto(task, [KnownTask(task) EXCEPT !.at = "Read"]) /\ UNCHANGED commands
           ELSE Opened(task, KnownTask(task))
  BY DEF OpenMetadata
<1>2. /\ Sound(task) /\ task \in TaskType /\ task.kind = "Open" /\ SoundOpen(task)
      /\ opens[task.id] \in RequestType /\ task.id \in Ids /\ task.got = 0
  BY <1>1, KnownIds, EngineAssumption DEF Inv, Sound, SoundRead, SoundOpen, TaskType, Opening
<1>3. UNCHANGED <<canon, renames>>
  BY <1>1 DEF Finish, Goto, Opened, disk
<1>4. length[task.id] \in Nat /\ Want(task) \in Nat
  BY <1>2 DEF Inv, Basics, RequestType
<1>5. /\ Cache' /\ Location(task, canonCache') \in Where
      /\ renames = 0 => Location(task, canonCache') \in Places(task)
  <2>1. opens[task.id].dir \in Dirs
    BY <1>2 DEF RequestType
  <2>2. CASE task.linked
    BY <1>1, <1>2, <1>3, <2>2 DEF Inv, Cache, Cached, Location, Places, SoundOpen
  <2>3. CASE ~task.linked
    <3>1. canonCache' = parent_cached_canonicalize(opens[task.id].dir)
      BY <1>1, <2>3
    <3>2. /\ Cache' /\ canonCache'[opens[task.id].dir] \in Where
          /\ renames = 0 => canonCache'[opens[task.id].dir] = canon[opens[task.id].dir]
      BY <1>3, <2>1, <3>1, CacheKept DEF Inv
    <3> QED
      BY <1>2, <2>3, <3>2 DEF Location, Places, SoundOpen
  <2> QED
    BY <2>2, <2>3
<1>6. /\ KnownTask(task) \in TaskType /\ KnownTask(task).id = task.id
      /\ KnownTask(task).kind = "Open" /\ KnownTask(task).ticket = task.ticket
      /\ KnownTask(task).got = 0 /\ KnownTask(task).len = Want(task)
      /\ KnownTask(task).linked = task.linked /\ KnownTask(task).seen = task.seen
      /\ KnownTask(task).offset = task.offset /\ Places(KnownTask(task)) = Places(task)
      /\ TaskOp(KnownTask(task)) = TaskOp(task)
  BY <1>2, <1>4 DEF TaskType, Places, TaskOp
<1> HIDE DEF KnownTask, Want
<1>7. CASE Location(task, canonCache') = "Out"
  <2>1. Replies(KnownTask(task), "PermissionDenied")
    BY <1>2, <1>5, <1>6, <1>7 DEF Replies, SoundOpen
  <2> QED
    BY <1>1, <1>5, <1>6, <1>7, <2>1, FinishInv
<1>8. CASE Location(task, canonCache') # "Out"
  <2>1. renames = 0 => "In" \in Places(task)
    BY <1>5, <1>8 DEF Where
  <2>2. CASE Want(task) > 0
    <3> DEFINE next == [KnownTask(task) EXCEPT !.at = "Read"]
    <3>1. /\ next \in TaskType /\ next.kind = "Open" /\ next.id = task.id
          /\ next.ticket = task.ticket /\ next.at = "Read" /\ next.got = 0
          /\ next.len = Want(task) /\ next.linked = task.linked /\ next.seen = task.seen
          /\ next.offset = task.offset
      BY <1>6 DEF TaskType
    <3> HIDE DEF next
    <3>2. Sound(next)
      BY <1>2, <1>4, <2>1, <3>1 DEF Sound, SoundOpen, Places, Opening
    <3>3. Goto(task, next) /\ UNCHANGED commands
      BY <1>1, <1>8, <2>2 DEF next
    <3> QED
      BY <1>2, <1>5, <3>1, <3>2, <3>3, GotoInv
  <2>3. CASE ~(Want(task) > 0)
    <3>1. Replies(KnownTask(task), "Ok")
      BY <1>2, <1>6, <2>1 DEF Replies, SoundOpen
    <3> QED
      BY <1>1, <1>2, <1>5, <1>6, <1>8, <2>3, <3>1, OpenedInv
  <2> QED
    BY <2>2, <2>3
<1> QED
  BY <1>7, <1>8

\* The task after a read of n bytes.
Advanced(task, n) == [task EXCEPT !.got = task.got + n]

\* A read of read_at: the task has no more than there is and was asked for, and
\* when the loop is left, all that there is.
LEMMA Advances ==
    ASSUME Inv, NEW task \in tasks, task.at = "Read", NEW n \in 0 .. Available(task)
    PROVE  /\ Sound(Advanced(task, n)) /\ Advanced(task, n).kind = task.kind
           /\ Advanced(task, n).id = task.id /\ Advanced(task, n).ticket = task.ticket
           /\ Places(Advanced(task, n)) = Places(task)
           /\ (n = 0 => Available(task) = 0) /\ ReadFull(task, n) /\ task.kind = "Read" =>
                 Advanced(task, n).got >= Bytes(Advanced(task, n), length[task.id])
<1> DEFINE next == Advanced(task, n)
<1>1. /\ Sound(task) /\ task \in TaskType /\ task.kind \in {"Open", "Read"}
      /\ task.id \in Ids /\ task.id \in Known
  BY KnownIds DEF Inv, Sound, SoundOpen, SoundRead, TaskType
<1>2. /\ task.got \in Nat /\ task.len \in Nat /\ task.offset \in Nat /\ task.got <= task.len
      /\ length[task.id] \in Nat /\ task.size \in Nat
  BY <1>1 DEF Sound, TaskType, Inv, Basics
<1>3. n \in Nat /\ Available(task) \in Nat
  BY <1>2 DEF Available
<1>4. /\ task.got + n <= task.len
      /\ n > 0 => task.offset + task.got + n <= length[task.id]
  BY <1>2, <1>3 DEF Available
<1>5. /\ next \in TaskType /\ next.kind = task.kind /\ next.id = task.id /\ next.at = "Read"
      /\ next.ticket = task.ticket /\ next.offset = task.offset /\ next.len = task.len
      /\ next.size = task.size /\ next.linked = task.linked /\ next.seen = task.seen
      /\ next.got = task.got + n
  BY <1>1, <1>2, <1>3 DEF TaskType, Advanced
<1> HIDE DEF next
<1>6. Places(next) = Places(task)
  BY <1>5 DEF Places
<1>7. Sound(next)
  <2>1. CASE task.kind = "Open"
    BY <1>1, <1>4, <1>5, <1>6, <2>1 DEF Sound, SoundOpen, Opening
  <2>2. CASE task.kind = "Read"
    <3>1. task.got <= Bytes(task, task.size) /\ length[task.id] <= task.size
      BY <1>1, <2>2 DEF Sound, SoundRead
    <3>2. next.got <= Bytes(next, next.size)
      BY <1>2, <1>3, <1>4, <1>5, <3>1 DEF Bytes
    <3> QED
      BY <1>1, <1>4, <1>5, <2>2, <3>1, <3>2 DEF Sound, SoundRead
  <2> QED
    BY <1>1, <2>1, <2>2
<1>8. ASSUME n = 0 => Available(task) = 0, ReadFull(task, n)
      PROVE  next.got >= Bytes(next, length[task.id])
  BY <1>2, <1>3, <1>4, <1>5, <1>8 DEF Bytes, Available, ReadFull
<1> QED
  BY <1>5, <1>6, <1>7, <1>8 DEF next

\* A read that fails keeps the invariant; that of a prefetch leaves no prefix.
LEMMA ReadFailsInv ==
    ASSUME Inv, NEW task \in tasks, task.at = "Read", UNCHANGED canonCache, ReadFails(task)
    PROVE  Inv' /\ AbstractStep
<1>1. /\ Sound(task) /\ task \in TaskType /\ task.kind \in {"Open", "Read"} /\ task.id \in Known
  BY DEF Inv, Sound, SoundOpen, SoundRead, TaskType
<1>2. Cache'
  BY DEF ReadFails, Inv, Cache, Cached, Finish, Opened, disk
<1>3. CASE task.kind = "Read"
  <2>1. Replies(task, "Other")
    BY <1>1, <1>3 DEF Replies
  <2> QED
    BY <1>2, <1>3, <2>1, FinishInv DEF ReadFails
<1>4. CASE task.kind = "Open"
  <2> DEFINE final == [task EXCEPT !.got = 0]
  <2>1. /\ final \in TaskType /\ final.kind = "Open" /\ final.id = task.id
        /\ final.linked = task.linked /\ final.seen = task.seen /\ TaskOp(final) = TaskOp(task)
    BY <1>1, <1>4 DEF TaskType, TaskOp
  <2>2. Opened(task, final)
    BY <1>4 DEF ReadFails
  <2> HIDE DEF final
  <2>3. Replies(final, "Ok")
    BY <1>1, <1>4, <2>1 DEF Replies, Sound, SoundOpen, Places
  <2> QED
    BY <1>2, <1>4, <2>1, <2>2, <2>3, OpenedInv
<1> QED
  BY <1>1, <1>3, <1>4

\* A read keeps the invariant.
LEMMA ReadAtInv ==
    ASSUME Inv, ReadAt
    PROVE  Inv' /\ AbstractStep
<1>1. PICK task \in tasks :
        /\ task.at \in {"Read", "Closed"} /\ UNCHANGED canonCache
        /\ IF task.at = "Closed" THEN ReadFails(task) ELSE ReadSome(task)
  BY DEF ReadAt
<1>2. /\ Sound(task) /\ task \in TaskType /\ task.kind \in {"Open", "Read"} /\ task.id \in Known
      /\ task.at = "Read"
  BY <1>1 DEF Inv, Sound, SoundOpen, SoundRead, TaskType, Opening
<1>3. PICK n \in 0 .. Available(task) :
        /\ n = 0 => Available(task) = 0
        /\ IF ~ReadFull(task, n) THEN Goto(task, Advanced(task, n)) /\ UNCHANGED commands
           ELSE IF task.kind = "Read"
           THEN Finish(task, Advanced(task, n), "Ok") /\ UNCHANGED commands
           ELSE Opened(task, Advanced(task, n))
  BY <1>1, <1>2 DEF ReadSome, Advanced
<1>4. /\ Sound(Advanced(task, n)) /\ Advanced(task, n).kind = task.kind
      /\ Advanced(task, n).id = task.id /\ Advanced(task, n).ticket = task.ticket
      /\ Places(Advanced(task, n)) = Places(task)
      /\ ReadFull(task, n) /\ task.kind = "Read" =>
            Advanced(task, n).got >= Bytes(Advanced(task, n), length[task.id])
  BY <1>2, <1>3, Advances
<1>5. TaskOp(Advanced(task, n)) = TaskOp(task)
  BY <1>4 DEF TaskOp
<1>6. Cache'
  BY <1>1, <1>3 DEF Inv, Cache, Cached, Finish, Goto, Opened, disk
<1>7. CASE ~ReadFull(task, n)
  BY <1>3, <1>4, <1>6, <1>7, GotoInv
<1>8. CASE ReadFull(task, n) /\ task.kind = "Read"
  <2>1. Replies(Advanced(task, n), "Ok")
    BY <1>2, <1>4, <1>8 DEF Replies, Sound, SoundRead
  <2> QED
    BY <1>3, <1>6, <1>8, <1>5, <2>1, FinishInv
<1>9. CASE ReadFull(task, n) /\ task.kind = "Open"
  <2>1. Replies(Advanced(task, n), "Ok")
    BY <1>2, <1>4, <1>9 DEF Replies, Sound, SoundOpen
  <2>2. Opened(task, Advanced(task, n))
    BY <1>3, <1>9
  <2> QED
    BY <1>4, <1>6, <1>9, <1>5, <2>1, <2>2, OpenedInv
<1> QED
  BY <1>2, <1>7, <1>8, <1>9

\* So do its errors, those of the metadata and the directory reads.
LEMMA OtherTasksInv ==
    ASSUME Inv, ReadError \/ OpenFails \/ ReadDir
    PROVE  Inv' /\ AbstractStep
<1>1. CASE ReadError
  BY <1>1, ReadFailsInv DEF ReadError
<1>2. CASE OpenFails
  <2>1. PICK task \in tasks : /\ task.at = "Metadata" /\ UNCHANGED <<commands, canonCache>>
                              /\ Finish(task, task, "Other")
    BY <1>2 DEF OpenFails
  <2>2. Replies(task, "Other")
    BY <2>1 DEF Inv, Sound, SoundOpen, SoundRead, TaskType, Replies
  <2>3. Cache'
    BY <2>1 DEF Inv, Cache, Cached, Finish, disk
  <2> QED
    BY <2>1, <2>2, <2>3, FinishInv
<1>3. CASE ReadDir
  <2>1. PICK task \in tasks, result \in {"Ok", "NotFound", "Other"} :
          task.at = "Dir" /\ UNCHANGED <<commands, canonCache>> /\ Finish(task, task, result)
    BY <1>3 DEF ReadDir
  <2>2. Replies(task, result)
    BY <2>1 DEF Inv, Sound, SoundOpen, SoundRead, TaskType, Replies, Opening
  <2>3. Cache'
    BY <2>1 DEF Inv, Cache, Cached, Finish, disk
  <2> QED
    BY <2>1, <2>2, <2>3, FinishInv
<1> QED
  BY <1>1, <1>2, <1>3

-----------------------------------------------------------------------------
(* Steps of clients, of the reactor and of the file system. *)

\* Steps that leave the tasks, the callbacks and the files alone.
LEMMA QuietInv ==
    ASSUME Inv, commands' \in Seq(CommandType), reads' \in Nat, reads' <= MaxReads, stopped' \in BOOLEAN,
           running' \in BOOLEAN, Flow',
           \A task \in tasks' : task \in tasks \/ Sound(task),
           UNCHANGED <<canonCache, opens, nextId, disk, last>>
    PROVE  Inv'
<1>1. UNCHANGED <<canonCache, opens, nextId, length, canon, truncates, renames, last>>
  BY DEF disk
<1>2. Basics' /\ Cache'
  BY <1>1 DEF Inv, Basics, Cache, Cached
<1>3. Settled
  BY <1>1, KnownIds DEF Inv, Basics, Settled, Known
<1>4. \A task \in tasks' : Sound(task)'
  BY <1>2, <1>3, SoundKept DEF Inv
<1>5. Answer'
  BY <1>1, <1>2, <1>3, AnswerKept DEF Inv
<1> QED
  BY <1>2, <1>4, <1>5 DEF Inv

\* What is submitted stays so.
LEMMA SubmittedGrows ==
    ASSUME 1 .. nextId - 1 \subseteq 1 .. nextId' - 1, 0 .. reads - 1 \subseteq 0 .. reads' - 1
    PROVE  Submitted \subseteq Submitted'
<1>1. [open : {TRUE}, n : 1 .. nextId - 1] \subseteq [open : {TRUE}, n : 1 .. nextId' - 1]
  OBVIOUS
<1>2. [open : {FALSE}, n : 0 .. reads - 1] \subseteq [open : {FALSE}, n : 0 .. reads' - 1]
  OBVIOUS
<1> QED
  BY <1>1, <1>2 DEF Submitted

\* An open submits the next id and nothing else.
LEMMA OpenSubmitted ==
    ASSUME nextId \in Nat, nextId >= 1, nextId' = nextId + 1, reads' = reads
    PROVE  Submitted' = Submitted \cup {[open |-> TRUE, n |-> nextId]}
<1>1. 1 .. nextId' - 1 = (1 .. nextId - 1) \cup {nextId}
  OBVIOUS
<1> DEFINE S == 1 .. nextId - 1
           T == 1 .. nextId' - 1
<1>2. T = S \cup {nextId}
  BY <1>1
<1> HIDE DEF S, T
<1>3. [open : {TRUE}, n : T] = [open : {TRUE}, n : S] \cup {[open |-> TRUE, n |-> nextId]}
  <2>1. ASSUME NEW o \in [open : {TRUE}, n : T]
        PROVE  o \in [open : {TRUE}, n : S] \cup {[open |-> TRUE, n |-> nextId]}
    BY <1>2
  <2>2. ASSUME NEW o \in [open : {TRUE}, n : S] PROVE o \in [open : {TRUE}, n : T]
    BY <1>2
  <2>3. [open |-> TRUE, n |-> nextId] \in [open : {TRUE}, n : T]
    BY <1>2
  <2> QED
    BY <2>1, <2>2, <2>3
<1> QED
  BY <1>3 DEF Submitted, S, T

\* A read or listing submits the next ticket and nothing else.
LEMMA ReadSubmitted ==
    ASSUME reads \in Nat, reads' = reads + 1, nextId' = nextId
    PROVE  Submitted' = Submitted \cup {[open |-> FALSE, n |-> reads]}
<1>1. 0 .. reads' - 1 = (0 .. reads - 1) \cup {reads}
  OBVIOUS
<1> DEFINE S == 0 .. reads - 1
           T == 0 .. reads' - 1
<1>2. T = S \cup {reads}
  BY <1>1
<1> HIDE DEF S, T
<1>3. [open : {FALSE}, n : T] = [open : {FALSE}, n : S] \cup {[open |-> FALSE, n |-> reads]}
  <2>1. ASSUME NEW o \in [open : {FALSE}, n : T]
        PROVE  o \in [open : {FALSE}, n : S] \cup {[open |-> FALSE, n |-> reads]}
    BY <1>2
  <2>2. ASSUME NEW o \in [open : {FALSE}, n : S] PROVE o \in [open : {FALSE}, n : T]
    BY <1>2
  <2>3. [open |-> FALSE, n |-> reads] \in [open : {FALSE}, n : T]
    BY <1>2
  <2> QED
    BY <2>1, <2>2, <2>3
<1> QED
  BY <1>3 DEF Submitted, S, T

\* A new id is none of the known ones.
LEMMA OpenInv ==
    ASSUME Inv, NEW request \in Requests, nextId \in 1 .. MaxOpens, nextId' = nextId + 1,
           opens' = Append(opens, request), length' = [length EXCEPT ![nextId] = request.size],
           commands' \in Seq(CommandType), Flow',
           UNCHANGED <<running, canonCache, tasks, canon, stopped, reads, truncates, renames, last>>
    PROVE  Inv'
<1>1. request.size \in Nat
  BY EngineAssumption DEF RequestType
<1>2. length' \in [Ids -> Nat] /\ \A id \in Ids : id # nextId => length'[id] = length[id]
  BY <1>1 DEF Inv, Basics
<1>3. /\ opens' \in Seq(Requests) /\ Len(opens') = nextId' - 1
      /\ \A id \in Known : opens'[id] = opens[id]
  BY DEF Inv, Basics, Known
<1>4. Basics'
  BY <1>2, <1>3, EngineAssumption DEF Inv, Basics
<1>5. \A id \in Known : id \in Known' /\ id \in Ids /\ id # nextId /\ length[id] \in Nat
  BY KnownIds DEF Inv, Basics, Known
<1>6. Settled
  <2>1. ASSUME NEW id \in Known PROVE opens'[id] = opens[id] /\ length'[id] <= length[id]
    <3>1. length'[id] = length[id] /\ length[id] \in Nat
      BY <1>2, <1>5
    <3>2. length'[id] <= length[id]
      BY <3>1
    <3> QED
      BY <1>3, <3>2
  <2> QED
    BY <1>5, <2>1 DEF Settled
<1>7. (\A task \in tasks : Sound(task))' /\ Answer'
  BY <1>4, <1>6, SoundKept, AnswerKept DEF Inv
<1>8. Cache'
  BY DEF Inv, Cache, Cached
<1> QED
  BY <1>4, <1>7, <1>8 DEF Inv

\* An open is submitted.
LEMMA SubmitOpenInv ==
    ASSUME Inv, SubmitOpen
    PROVE  Inv' /\ AbstractStep
<1>1. PICK request \in Requests :
        opens' = Append(opens, request) /\ length' = [length EXCEPT ![nextId] = request.size]
  BY DEF SubmitOpen
<1>2. /\ nextId \in 1 .. MaxOpens /\ nextId' = nextId + 1
      /\ commands' = Send(Command("Open", nextId, 0, 0))
      /\ UNCHANGED <<running, files, canonCache, tasks, handles, canon, stopped, reads,
                     truncates, renames, last>>
  BY EngineAssumption DEF SubmitOpen, Inv, Basics
<1> DEFINE c == Command("Open", nextId, 0, 0)
<1>3. /\ c \in CommandType /\ c.op = "Open" /\ c.id = nextId /\ c.ticket = 0
  BY <1>2 DEF Command, CommandType, Ids
<1>4. commands' = Send(c)
  BY <1>2
<1> HIDE DEF c
<1>5. commands' \in Seq(CommandType)
  BY <1>3, <1>4, Sent DEF Inv, Basics
<1>6. Known \subseteq Known' /\ nextId \in Known' \ Known
  BY <1>2 DEF Known
<1>7. Submitted \subseteq Submitted' /\ Op(c.op, c.id, c.ticket) \in Submitted' \ Submitted
  <2>1. Submitted \subseteq Submitted'
    BY <1>2, SubmittedGrows
  <2>2. Op(c.op, c.id, c.ticket) \in Submitted' \ Submitted
    BY <1>2, <1>3 DEF Submitted, Op
  <2> QED
    BY <2>1, <2>2
<1>8. Flow'
  BY <1>2, <1>3, <1>4, <1>6, <1>7, FlowSubmit DEF Inv, Calls
<1>9. Inv'
  BY <1>1, <1>2, <1>5, <1>8, OpenInv
<1>10. AbstractStep
  <2>1. Submitted' = Submitted \cup {Op(c.op, c.id, c.ticket)}
    BY <1>2, <1>3, OpenSubmitted DEF Op
  <2> QED
    BY <1>2, <1>3, <1>4, <1>7, <1>9, <2>1, Submits DEF Inv, Calls
<1> QED
  BY <1>9, <1>10

\* A read or a directory read has a ticket of its own.
LEMMA SubmitReadInv ==
    ASSUME Inv, SubmitRead \/ SubmitReadDir
    PROVE  Inv' /\ AbstractStep
<1>1. PICK c \in CommandType :
        /\ c.op \in {"Read", "ReadDir"} /\ c.ticket = reads /\ commands' = Send(c)
        /\ c.op = "Read" => c.id \in handles
  <2>1. CASE SubmitRead
    <3>1. PICK id \in handles, offset \in {0, ReadLen} :
            commands' = Send(Command("Read", id, offset, reads))
      BY <2>1 DEF SubmitRead
    <3> DEFINE c == Command("Read", id, offset, reads)
    <3>2. c \in CommandType /\ c.op = "Read" /\ c.id = id /\ c.ticket = reads
      BY KnownIds, EngineAssumption DEF Inv, Basics, Flow, Named, Command, CommandType
    <3> QED
      BY <3>1, <3>2
  <2>2. CASE SubmitReadDir
    <3> DEFINE c == Command("ReadDir", 0, 0, reads)
    <3>1. c \in CommandType /\ c.op = "ReadDir" /\ c.ticket = reads
      BY DEF Inv, Basics, Command, CommandType
    <3>2. commands' = Send(c)
      BY <2>2 DEF SubmitReadDir
    <3> QED
      BY <3>1, <3>2
  <2> QED
    BY <2>1, <2>2
<1>2. /\ reads' = reads + 1 /\ reads \in Nat /\ reads' <= MaxReads
      /\ UNCHANGED <<running, nextId, files, canonCache, tasks, handles, disk, stopped, opens,
                     last>>
  BY EngineAssumption DEF SubmitRead, SubmitReadDir, Inv, Basics
<1>3. commands' \in Seq(CommandType)
  BY <1>1, Sent DEF Inv, Basics
<1>4. Flow'
  <2>1. Submitted \subseteq Submitted' /\ Known' = Known
    BY <1>2, SubmittedGrows DEF Known
  <2>2. Op(c.op, c.id, c.ticket) \in Submitted' \ Submitted
    BY <1>1, <1>2 DEF Submitted, Op
  <2> QED
    BY <1>1, <1>2, <2>1, <2>2, FlowSubmit DEF Inv, Calls
<1>5. Inv'
  BY <1>2, <1>3, <1>4, QuietInv DEF Inv, Basics
<1>6. AbstractStep
  <2>1. Op(c.op, c.id, c.ticket) \notin Submitted
    BY <1>1, <1>2 DEF Submitted, Op
  <2>2. Submitted' = Submitted \cup {Op(c.op, c.id, c.ticket)}
    BY <1>1, <1>2, ReadSubmitted DEF Op
  <2> QED
    BY <1>1, <1>2, <1>5, <2>1, <2>2, Submits DEF Inv, Calls
<1> QED
  BY <1>5, <1>6

\* A handle is dropped, or the engine is told to stop.
LEMMA NoticeInv ==
    ASSUME Inv, DropHandle \/ Shutdown
    PROVE  Inv' /\ AbstractStep
<1>1. /\ UNCHANGED <<running, nextId, files, canonCache, tasks, disk, opens, reads, last>>
      /\ stopped' \in BOOLEAN
  BY DEF DropHandle, Shutdown, Inv, Basics
<1>2. PICK c \in CommandType :
        /\ commands' = Send(c)
        /\ \/ c.op = "Shutdown" /\ UNCHANGED handles
           \/ c = CloseCommand(c.id) /\ c.id \in handles /\ handles' = handles \ {c.id}
  <2>1. CASE DropHandle
    <3>1. PICK id \in handles : handles' = handles \ {id} /\ commands' = Send(CloseCommand(id))
      BY <2>1 DEF DropHandle
    <3>2. CloseCommand(id) \in CommandType /\ CloseCommand(id).id = id
      BY KnownIds DEF Inv, Flow, Named, CloseCommand, Command, CommandType
    <3> QED
      BY <3>1, <3>2
  <2>2. CASE Shutdown
    <3> DEFINE c == Command("Shutdown", 0, 0, 0)
    <3>1. c \in CommandType /\ c.op = "Shutdown"
      BY DEF Command, CommandType
    <3>2. commands' = Send(c) /\ UNCHANGED handles
      BY <2>2 DEF Shutdown
    <3> QED
      BY <3>1, <3>2
  <2> QED
    BY <2>1, <2>2
<1>3. commands' \in Seq(CommandType)
  BY <1>2, Sent DEF Inv, Basics
<1>4. Flow'
  BY <1>1, <1>2, FlowSend DEF Inv
<1>5. AbstractStep
  <2>1. c.op \notin Calls
    BY <1>2 DEF CloseCommand, Command, Calls
  <2>2. QueuedOps' = QueuedOps /\ TaskOps' = TaskOps
    BY <1>1, <1>2, <2>1, SentOps DEF Inv, Basics, TaskOps
  <2> QED
    BY <1>1, <2>2, Unseen
<1> QED
  BY <1>1, <1>3, <1>4, <1>5, QuietInv DEF Inv, Basics

\* The task of a command is sound from the start.
LEMMA ReceiveCallInv ==
    ASSUME Inv, ReceiveOpen \/ ReceiveRead \/ ReceiveReadDir
    PROVE  Inv' /\ AbstractStep
<1>1. /\ UNCHANGED <<running, files, canonCache, handles, opens, reads, nextId, stopped, disk,
                     last>>
      /\ Take /\ Head(commands).op \in Calls
  BY DEF ReceiveOpen, ReceiveRead, ReceiveReadDir, Receives, Take, Calls, client
<1>2. /\ 1 \in Channel /\ Head(commands) = commands[1] /\ commands[1] \in CommandType
      /\ commands' \in Seq(CommandType)
  BY <1>1, Received DEF Inv, Basics
<1> DEFINE command == commands[1]
<1>3. PICK task : /\ tasks' = tasks \cup {task} /\ Sound(task) /\ task.kind = command.op
                  /\ task.id = command.id /\ task.ticket = command.ticket
  <2>1. CASE ReceiveOpen
    <3> DEFINE places == {canon[opens[command.id].dir]}
               task == [Task(command, "Nofollow") EXCEPT !.seen = places]
    <3>1. command.op = "Open" /\ tasks' = tasks \cup {task}
      BY <1>2, <2>1 DEF ReceiveOpen, Receives
    <3>2. command.id \in Known /\ opens[command.id] \in RequestType
      BY <1>2, <3>1, KnownIds, EngineAssumption DEF Inv, Flow, Named
    <3>3. canon[opens[command.id].dir] \in Where
      BY <3>2 DEF RequestType, Inv, Basics
    <3>4. /\ task \in TaskType /\ task.kind = "Open" /\ task.id = command.id
          /\ task.ticket = command.ticket /\ task.at = "Nofollow" /\ task.offset = command.offset
          /\ task.got = 0 /\ task.len = 0 /\ ~task.linked /\ task.seen = places
      BY <1>2, <3>1, <3>3 DEF Task, TaskType, CommandType
    <3> HIDE DEF task
    <3>5. Sound(task)
      BY <3>2, <3>4 DEF Sound, SoundOpen, Opening
    <3> QED
      BY <3>1, <3>4, <3>5
  <2>2. CASE ReceiveRead
    <3> DEFINE at == IF command.id \in files THEN "Read" ELSE "Closed"
               task == [Task(command, at) EXCEPT !.len = ReadLen, !.size = length[command.id]]
    <3>1. command.op = "Read" /\ tasks' = tasks \cup {task}
      BY <1>2, <2>2 DEF ReceiveRead, Receives
    <3>2. command.id \in Known /\ command.id \in files /\ length[command.id] \in Nat
      BY <1>2, <3>1, KnownIds DEF Inv, Basics, Flow, Named, Found
    <3>3. at = "Read"
      BY <3>2
    <3>4. /\ task \in TaskType /\ task.kind = "Read" /\ task.id = command.id
          /\ task.ticket = command.ticket /\ task.at = "Read" /\ task.len = ReadLen
          /\ task.got = 0 /\ task.size = length[command.id] /\ task.offset \in Nat
      BY <1>2, <3>1, <3>2, <3>3, EngineAssumption DEF Task, TaskType, CommandType
    <3> HIDE DEF task, at
    <3>5. Sound(task)
      BY <3>2, <3>4, EngineAssumption DEF Sound, SoundRead, Bytes
    <3> QED
      BY <3>1, <3>4, <3>5
  <2>3. CASE ReceiveReadDir
    <3> DEFINE task == Task(command, "Dir")
    <3>1. command.op = "ReadDir" /\ tasks' = tasks \cup {task}
      BY <1>2, <2>3 DEF ReceiveReadDir, Receives
    <3>2. /\ task \in TaskType /\ task.kind = "ReadDir" /\ task.id = command.id
          /\ task.ticket = command.ticket /\ task.at = "Dir" /\ task.got <= task.len
      BY <1>2, <3>1 DEF Task, TaskType, CommandType
    <3> HIDE DEF task
    <3>3. Sound(task)
      BY <3>2 DEF Sound
    <3> QED
      BY <3>1, <3>2, <3>3
  <2> QED
    BY <2>1, <2>2, <2>3
<1>4. AbstractStep
  <2>1. TaskOp(task) = CommandOp(1)
    BY <1>3 DEF TaskOp, CommandOp
  <2>2. TaskOps' = TaskOps \cup {CommandOp(1)}
    BY <1>3, <2>1 DEF TaskOps
  <2>3. QueuedOps = QueuedOps' \cup {CommandOp(1)}
    BY <1>1, <1>2, TakenOps DEF Inv, Basics
  <2> HIDE DEF command
  <2> QED
    BY <1>1, <2>2, <2>3, Unseen
<1> QED
  BY <1>1, <1>2, <1>3, <1>4, FlowReceive, QuietInv DEF Inv, Basics

\* A Close, and the end of the reactor.
LEMMA ReceiveRestInv ==
    ASSUME Inv, ReceiveClose \/ ReceiveShutdown
    PROVE  Inv' /\ AbstractStep
<1>1. CASE ReceiveClose
  <2>1. /\ UNCHANGED <<running, canonCache, tasks, handles, opens, reads, nextId, stopped, disk,
                       last>>
        /\ Take /\ Head(commands).op = "Close" /\ files' = files \ {Head(commands).id}
    BY <1>1 DEF ReceiveClose, Receives, Take, client
  <2>2. Head(commands) = commands[1] /\ commands' \in Seq(CommandType)
    BY <2>1, Received DEF Inv, Basics
  <2>3. QueuedOps' = QueuedOps /\ TaskOps' = TaskOps
    BY <2>1, <2>2, TakenOps DEF Inv, Basics, Calls, TaskOps
  <2>4. AbstractStep
    BY <2>1, <2>3, Unseen
  <2> QED
    BY <2>1, <2>2, <2>4, FlowClose, QuietInv DEF Inv, Basics
<1>2. CASE ReceiveShutdown
  <2>1. /\ UNCHANGED <<canonCache, handles, opens, reads, nextId, stopped, disk, last>>
        /\ commands' = <<>> /\ files' = {} /\ tasks' = {} /\ running' = FALSE
    BY <1>2 DEF ReceiveShutdown, client
  <2>2. commands' \in Seq(CommandType)
    BY <2>1
  <2>3. AbstractStep
    <3>1. running
      BY <1>2 DEF ReceiveShutdown
    <3>2. TaskOps' = {} /\ QueuedOps' = {}
      BY <2>1 DEF TaskOps, QueuedOps, Queued, Channel
    <3>3. Pending' = {}
      BY <3>2, PendingIs
    <3>4. Submitted' = Submitted /\ Answered' = Answered
      BY <2>1 DEF Submitted, Answered, NoCall, Called, Task, Command, Op
    <3> QED
      BY <2>1, <3>1, <3>3, <3>4 DEF AbstractStep, Abstract!Next, Abstract!Stop
  <2> QED
    BY <2>1, <2>2, <2>3, FlowEnd, QuietInv DEF Inv, Basics
<1> QED
  BY <1>1, <1>2

\* A file is truncated.
LEMMA TruncateInv ==
    ASSUME Inv, Truncate
    PROVE  Inv' /\ AbstractStep
<1>1. PICK id \in Ids : length[id] > 0 /\ length' = [length EXCEPT ![id] = length[id] - 1]
  BY DEF Truncate
<1>2. /\ UNCHANGED <<commands, running, files, canonCache, tasks, handles, opens, reads, nextId,
                     stopped, canon, renames, last>>
      /\ truncates' = truncates + 1
  BY DEF Truncate, client
<1>3. length' \in [Ids -> Nat] /\ \A i \in Ids : length'[i] <= length[i]
  BY <1>1 DEF Inv, Basics
<1>4. Basics' /\ Cache'
  BY <1>2, <1>3 DEF Inv, Basics, Cache, Cached
<1>5. Settled
  BY <1>2, <1>3, KnownIds DEF Inv, Settled, Known
<1>6. (\A task \in tasks : Sound(task))' /\ Answer'
  BY <1>2, <1>4, <1>5, SoundKept, AnswerKept DEF Inv
<1>7. Flow'
  BY <1>2, FlowSkip DEF Inv
<1>8. AbstractStep
  BY <1>2, Unseen DEF TaskOps, QueuedOps, CommandOp, Queued, Channel
<1> QED
  BY <1>4, <1>6, <1>7, <1>8 DEF Inv

\* A directory is replaced: its opens have seen both places, and nothing more is
\* said of where files are.
LEMMA RenameInv ==
    ASSUME Inv, Rename
    PROVE  Inv' /\ AbstractStep
<1>1. PICK dir \in Dirs, where \in Where :
        /\ canon' = [canon EXCEPT ![dir] = where]
        /\ tasks' = {IF task.kind = "Open" /\ opens[task.id].dir = dir
                     THEN [task EXCEPT !.seen = task.seen \cup {where}] ELSE task :
                     task \in tasks}
  BY DEF Rename
<1> DEFINE Seen(task) == IF task.kind = "Open" /\ opens[task.id].dir = dir
                         THEN [task EXCEPT !.seen = task.seen \cup {where}] ELSE task
<1>2. /\ UNCHANGED <<commands, running, files, canonCache, handles, opens, reads, nextId, stopped,
                     length, truncates, last>>
      /\ renames' = renames + 1 /\ renames \in Nat
  BY DEF Rename, client, Inv, Basics
<1>3. renames' # 0 /\ renames' \in Nat
  BY <1>2
<1>4. Basics' /\ Cache'
  BY <1>1, <1>2, <1>3 DEF Inv, Basics, Cache, Cached
<1>5. ASSUME NEW task \in tasks
      PROVE  /\ Seen(task) \in TaskType /\ Seen(task).kind = task.kind /\ Seen(task).id = task.id
             /\ Seen(task).ticket = task.ticket /\ Seen(task).at = task.at
             /\ Seen(task).offset = task.offset /\ Seen(task).len = task.len
             /\ Seen(task).got = task.got /\ Seen(task).size = task.size
             /\ Seen(task).linked = task.linked
  BY DEF Inv, Sound, TaskType
<1>6. \A y \in tasks' : \E x \in tasks : y = Seen(x)
  BY <1>1
<1> HIDE DEF Seen
<1>7. Known' = Known
  BY <1>2 DEF Known
<1>8. ASSUME NEW y \in tasks' PROVE Sound(y)'
  <2>1. PICK x \in tasks : y = Seen(x)
    BY <1>6
  <2>2. /\ Sound(x) /\ y \in TaskType /\ y.kind = x.kind /\ y.id = x.id /\ y.at = x.at
        /\ y.offset = x.offset /\ y.len = x.len /\ y.got = x.got /\ y.size = x.size
        /\ y.linked = x.linked
    BY <1>5, <2>1 DEF Inv
  <2>3. y.kind = "Open" => SoundOpen(y)'
    BY <1>2, <1>3, <1>7, <2>2 DEF Sound, SoundOpen
  <2>4. y.kind = "Read" => SoundRead(y)'
    BY <1>2, <1>7, <2>2 DEF Sound, SoundRead, Bytes
  <2> QED
    BY <2>2, <2>3, <2>4 DEF Sound
<1>9. (\A task \in tasks : Sound(task))'
  BY <1>8
<1>10. Answer'
  BY <1>2, <1>3, <1>7
  DEF Inv, Answer, ReadsExact, ReadsFindFile, ReadsAreWhole, Bytes, VerdictExact, NoCall, Called,
      Task, Command
<1>11. Flow'
  <2>1. \A x, y \in tasks' : TaskOp(x) = TaskOp(y) => x = y
    BY <1>5, <1>6 DEF Inv, Flow, Once, TaskOp
  <2>2. \A y \in tasks' : \E x \in tasks : x.kind = y.kind /\ x.id = y.id /\ x.ticket = y.ticket
    BY <1>5, <1>6
  <2> QED
    BY <1>2, <2>1, <2>2, FlowTasks DEF Inv
<1>12. AbstractStep
  <2>1. QueuedOps' = QueuedOps
    BY <1>2 DEF QueuedOps, CommandOp, Queued, Channel
  <2>2. \A x \in tasks : Seen(x) \in tasks' /\ TaskOp(Seen(x)) = TaskOp(x)
    BY <1>1, <1>5 DEF TaskOp, Seen
  <2>3. TaskOps' = TaskOps
    BY <1>6, <2>2 DEF TaskOps
  <2> QED
    BY <1>2, <2>1, <2>3, Unseen
<1> QED
  BY <1>4, <1>9, <1>10, <1>11, <1>12 DEF Inv

-----------------------------------------------------------------------------
(* The theorems. *)

\* The invariant holds in every initial state ...
LEMMA InvInit ==
    ASSUME Init
    PROVE  Inv
<1>1. Basics
  <2>1. commands \in Seq(CommandType) /\ opens \in Seq(Requests) /\ Len(opens) = 0
    BY DEF Init
  <2>2. length \in [Ids -> Nat] /\ canon \in [Dirs -> Where]
    BY EngineAssumption DEF Init
  <2>3. nextId \in 1 .. MaxOpens + 1 /\ nextId - 1 = 0 /\ reads <= MaxReads
    BY EngineAssumption DEF Init
  <2> QED
    BY <2>1, <2>2, <2>3 DEF Init, Basics
<1>2. Cache
  <2>1. Cached = {}
    BY DEF Init, Cached
  <2> QED
    BY <2>1, FS_EmptySet, EngineAssumption DEF Init, Cache
<1>3. Answer
  BY DEF Init, Answer, NoCall, Called, Task, Command, TaskType, ReadsExact, ReadsFindFile,
     ReadsAreWhole, VerdictExact, VerdictFresh
<1>4. Flow
  <2>1. Channel = {} /\ Queued = {} /\ tasks = {}
    BY DEF Init, Channel, Queued
  <2> QED
    BY <2>1 DEF Init, Flow, Halted, Named, Once, Unused, Found, NoLeakedFile
<1> QED
  BY <1>1, <1>2, <1>3, <1>4 DEF Init, Inv

\* ... every step keeps it, and is one of Operations or none.
LEMMA InvStep ==
    ASSUME Inv, [Next]_vars
    PROVE  Inv' /\ AbstractStep
<1>1. CASE UNCHANGED vars
  <2>1. UNCHANGED <<commands, running, nextId, files, canonCache, tasks, handles, disk, stopped,
                    opens, reads, last>>
    BY <1>1 DEF vars, disk
  <2>2. Flow'
    BY <2>1, FlowSkip DEF Inv
  <2>3. AbstractStep
    BY <2>1, Unseen DEF TaskOps, QueuedOps, CommandOp, Queued, Channel
  <2> QED
    BY <2>1, <2>2, <2>3, QuietInv DEF Inv, Basics
<1> QED
  BY <1>1, SubmitOpenInv, SubmitReadInv, NoticeInv, ReceiveCallInv, ReceiveRestInv,
     OpenNofollowInv, OpenFollowInv, OpenMetadataInv, ReadAtInv, OtherTasksInv, TruncateInv,
     RenameInv
  DEF Next, Submit, Receive, TaskStep

\* The invariant holds throughout.
THEOREM Invariance == Spec => []Inv
<1>1. Init => Inv
  BY InvInit
<1>2. Inv /\ [Next]_vars => Inv'
  BY InvStep
<1> QED
  BY <1>1, <1>2, PTL DEF Spec

\* The engine's state is well typed; the cache of canonical parents never has more
\* entries than CANON_CACHE_MAX, however many directories there are, and no task
\* has read more than it was asked for.
THEOREM TypeCorrect == Spec => []TypeOK
<1>1. Inv => TypeOK
  BY InvTypeOK
<1> QED
  BY <1>1, Invariance, PTL

\* Every file in the reactor's table has a live handle or a Close on its way.
THEOREM LeaksNoFile == Spec => []NoLeakedFile
<1>1. Inv => NoLeakedFile
  BY DEF Inv, Flow
<1> QED
  BY <1>1, Invariance, PTL

\* No read fails for want of its file, and none returns less than the file has,
\* in whatever order handles are dropped and however short the kernel's reads are.
THEOREM ReadsAreExact == Spec => []ReadsExact
<1>1. Inv => ReadsExact
  BY DEF Inv, Answer
<1> QED
  BY <1>1, Invariance, PTL

\* As long as no directory is renamed the verdict of the containment check is that
\* of a full canonicalization, whatever is cached.
THEOREM VerdictIsExact == Spec => []VerdictExact
<1>1. Inv => VerdictExact
  BY DEF Inv, Answer
<1> QED
  BY <1>1, Invariance, PTL

\* The engine implements Operations: whatever the channel, the reactor and the
\* tasks do, an operation that reaches a running engine calls back at most once and
\* is not dropped before the engine stops, and none calls back afterwards.
THEOREM Refinement == Spec => ImplementsOperations
<1>1. Init => Abstract!Init
  <2> SUFFICES ASSUME Init PROVE Abstract!Init
    OBVIOUS
  <2>1. Submitted = {}
    BY DEF Init, Submitted
  <2>2. TaskOps = {} /\ QueuedOps = {}
    BY DEF Init, TaskOps, QueuedOps, Queued, Channel
  <2>3. Pending = {} /\ Answered = Op("Open", 0, 0)
    BY <2>2, PendingIs DEF Init, Answered
  <2> QED
    BY <2>1, <2>3 DEF Init, Abstract!Init
<1>2. Inv /\ [Next]_vars => [Abstract!Next]_(Abstract!vars)
  BY InvStep DEF AbstractStep
<1> QED
  BY <1>1, <1>2, Invariance, PTL DEF Spec, ImplementsOperations, Abstract!Spec
=============================================================================
