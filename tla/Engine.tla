------------------------------- MODULE Engine -------------------------------
(***************************************************************************)
(* The I/O engine of crates/envoy-files-io/src/engine.rs                   *)
(*                                                                         *)
(* Worker threads submit commands to an unbounded channel; one reactor     *)
(* thread receives them in order and spawns a task per open, read and      *)
(* directory read.  Tasks interleave at their awaits.  An opened file is   *)
(* kept in the table `files` under its id until the Close that the drop of *)
(* its last handle sends.  The unix code path is modelled.                 *)
(*                                                                         *)
(* Data is abstracted: a path is its parent directory and what its last    *)
(* component is, a file is its length, a buffer is its length.             *)
(***************************************************************************)
EXTENDS Integers, Sequences, FiniteSets

CONSTANTS
    Dirs,            \* parent directories under the root
    Requests,        \* the opens that clients submit
    Canons,          \* where the directories may lead at first
    CanonCacheMax,   \* CANON_CACHE_MAX
    ReadLen,         \* length of a read (config.chunk_size)
    MaxOpens,        \* bound: opens
    MaxReads,        \* bound: reads
    MaxChanges       \* bound: truncations of files and renames of directories

Where == {"In", "Out"}

\* OpenRequest for a path: its parent, its last component (a symbolic link's
\* target is "In" or "Out" of the root), the node it names with its length,
\* deny_symlinks and prefetch_len.  The filter always sets containment_root.
RequestType ==
    [dir : Dirs, link : {"No"} \cup Where, node : {"File", "Dir", "Missing"},
     size : Nat, deny : BOOLEAN, want : Nat]

ASSUME EngineAssumption ==
    /\ Requests \subseteq RequestType
    /\ Canons \subseteq [Dirs -> Where]
    /\ CanonCacheMax \in Nat \ {0}
    /\ ReadLen \in Nat \ {0}
    /\ MaxOpens \in Nat /\ MaxReads \in Nat
    /\ MaxChanges \in Nat

Ids == 1 .. MaxOpens

VARIABLES
    commands,    \* the channel
    running,     \* the reactor's loop has not ended
    nextId,      \* next_id
    files,       \* ids in the reactor's table of open files
    canonCache,  \* cached canonical parent of each directory, or "None"
    tasks,       \* spawned tasks
    handles,     \* ids of the live FileHandles; the inert handle has none
    length,      \* current length of the file opened under each id
    canon,       \* where each directory leads
    stopped,     \* shutdown was called
    opens,       \* history: requests submitted, by id
    reads,       \* number of reads submitted
    truncates,   \* number of truncations
    renames,     \* number of renames
    last         \* history: the last callback that ran

vars == <<commands, running, nextId, files, canonCache, tasks, handles, length,
          canon, stopped, opens, reads, truncates, renames, last>>

\* What the clients and the file system keep.
client == <<handles, opens, reads, nextId, stopped>>
disk == <<length, canon, truncates, renames>>

-----------------------------------------------------------------------------
(* Commands, tasks and callbacks. *)

Command(op, id, offset, ticket) ==
    [op |-> op, id |-> id, offset |-> offset, ticket |-> ticket]

\* The ticket tells reads apart, as their callbacks do.
CommandType ==
    [op : {"Open", "Read", "ReadDir", "Close", "Shutdown"}, id : Ids \cup {0},
     offset : Nat, ticket : Nat]

CloseCommand(id) == Command("Close", id, 0, 0)

\* A task at an await: the open (Nofollow, Follow, Metadata), a read_at (Read)
\* and the blocking read_dir (Dir).  kind is the command it serves, got what
\* read_at has of the length len at offset; size is the length the task knows
\* of the file, and linked whether the open followed a final symbolic link.
\* seen is a history: where the parent has led since the task was spawned.
TaskType ==
    [kind : {"Open", "Read", "ReadDir"}, id : Ids \cup {0},
     at : {"Nofollow", "Follow", "Metadata", "Read", "Dir", "Closed"},
     ticket : Nat, offset : Nat, len : Nat, got : Nat, size : Nat, linked : BOOLEAN,
     seen : SUBSET Where]

Task(command, at) ==
    [kind |-> command.op, id |-> command.id, at |-> at, ticket |-> command.ticket,
     offset |-> command.offset, len |-> 0, got |-> 0, size |-> 0, linked |-> FALSE,
     seen |-> {}]

\* A callback: the task that called it and the result it was given.
Called(task, result) == [task |-> task, result |-> result]
NoCall == Called(Task(Command("ReadDir", 0, 0, 0), "Dir"), "None")

\* try_send: it fails, dropping the command, once the receiver is gone.
Send(command) == IF running THEN Append(commands, command) ELSE commands

Receives(op) ==
    /\ running /\ commands # <<>> /\ Head(commands).op = op
    /\ commands' = Tail(commands)

-----------------------------------------------------------------------------
Init ==
    /\ commands = <<>>
    /\ running = TRUE
    /\ nextId = 1
    /\ files = {}
    /\ canonCache = [d \in Dirs |-> "None"]
    /\ tasks = {}
    /\ handles = {}
    /\ length = [i \in Ids |-> 0]
    /\ canon \in Canons
    /\ stopped = FALSE
    /\ opens = <<>>
    /\ reads = 0
    /\ truncates = 0
    /\ renames = 0
    /\ last = NoCall

-----------------------------------------------------------------------------
(* The clients. *)

SubmitOpen ==
    /\ nextId <= MaxOpens
    /\ \E request \in Requests :
          /\ opens' = Append(opens, request)
          /\ length' = [length EXCEPT ![nextId] = request.size]
    /\ nextId' = nextId + 1
    /\ commands' = Send(Command("Open", nextId, 0, 0))
    /\ UNCHANGED <<running, files, canonCache, tasks, handles, canon, stopped, reads,
                    truncates, renames, last>>

\* A stream reads chunks within the length it was told at the open.
SubmitRead ==
    /\ reads < MaxReads
    /\ \E id \in handles, offset \in {0, ReadLen} :
          /\ offset < opens[id].size
          /\ commands' = Send(Command("Read", id, offset, reads))
    /\ reads' = reads + 1
    /\ UNCHANGED <<running, nextId, files, canonCache, tasks, handles, disk, stopped,
                    opens, last>>

SubmitReadDir ==
    /\ reads < MaxReads
    /\ commands' = Send(Command("ReadDir", 0, 0, reads))
    /\ reads' = reads + 1
    /\ UNCHANGED <<running, nextId, files, canonCache, tasks, handles, disk, stopped,
                    opens, last>>

\* Mutant: the close does not queue behind the reads.
DropHandleFirst ==
    \E id \in handles :
        /\ handles' = handles \ {id}
        /\ commands' = IF running THEN <<CloseCommand(id)>> \o commands ELSE commands
        /\ UNCHANGED <<running, nextId, files, canonCache, tasks, disk, stopped, opens,
                        reads, last>>

\* Drop of the last clone of a handle.
DropHandle ==
    \E id \in handles :
        /\ handles' = handles \ {id}
        /\ commands' = Send(CloseCommand(id))
        /\ UNCHANGED <<running, nextId, files, canonCache, tasks, disk, stopped, opens,
                        reads, last>>

\* shutdown, from the drop of the FilterConfig; the join is the end of running.
Shutdown ==
    /\ ~stopped
    /\ stopped' = TRUE
    /\ commands' = Send(Command("Shutdown", 0, 0, 0))
    /\ UNCHANGED <<running, nextId, files, canonCache, tasks, handles, disk, opens,
                    reads, last>>

-----------------------------------------------------------------------------
(* run_reactor. *)

ReceiveOpen ==
    /\ Receives("Open")
    /\ LET command == Head(commands)
           places == {canon[opens[command.id].dir]}
       IN tasks' = tasks \cup {[Task(command, "Nofollow") EXCEPT !.seen = places]}
    /\ UNCHANGED <<running, files, canonCache, client, disk, last>>

\* The table is looked up when the command is received, not when the task runs.
ReceiveRead ==
    /\ Receives("Read")
    /\ LET command == Head(commands)
           at == IF command.id \in files THEN "Read" ELSE "Closed"
       IN tasks' = tasks \cup {[Task(command, at) EXCEPT !.len = ReadLen,
                                                        !.size = length[command.id]]}
    /\ UNCHANGED <<running, files, canonCache, client, disk, last>>

ReceiveReadDir ==
    /\ Receives("ReadDir")
    /\ tasks' = tasks \cup {Task(Head(commands), "Dir")}
    /\ UNCHANGED <<running, files, canonCache, client, disk, last>>

ReceiveClose ==
    /\ Receives("Close")
    /\ files' = files \ {Head(commands).id}
    /\ UNCHANGED <<running, canonCache, tasks, client, disk, last>>

\* Mutant: the tasks outlive the reactor's loop.
ReceiveShutdownDetached ==
    /\ running /\ commands # <<>> /\ Head(commands).op = "Shutdown"
    /\ running' = FALSE
    /\ commands' = <<>>
    /\ files' = {}
    /\ UNCHANGED <<tasks, canonCache, client, disk, last>>

\* block_on returns: the table, the tasks and the receiver are dropped.  What
\* is left in the channel is never received.
ReceiveShutdown ==
    /\ running /\ commands # <<>> /\ Head(commands).op = "Shutdown"
    /\ running' = FALSE
    /\ commands' = <<>>
    /\ files' = {}
    /\ tasks' = {}
    /\ UNCHANGED <<canonCache, client, disk, last>>

-----------------------------------------------------------------------------
(* The tasks. *)

Goto(task, next) ==
    /\ tasks' = (tasks \ {task}) \cup {next}
    /\ UNCHANGED <<running, files, client, disk, last>>

\* The task ends, as `final`, with a callback that carries no file.
Finish(task, final, result) ==
    /\ tasks' = tasks \ {task}
    /\ last' = Called(final, result)
    /\ UNCHANGED <<running, files, client, disk>>

\* The prefetch holds the whole file.
Prefetched(final) == opens[final.id].node # "Dir" /\ final.got = final.size

\* Mutant: an open whose prefetch holds the file is registered nevertheless.
OpenedRegistersAll(task, final) ==
    /\ tasks' = tasks \ {task}
    /\ last' = Called(final, "Ok")
    /\ files' = files \cup {final.id}
    /\ IF Prefetched(final) THEN UNCHANGED <<handles, commands>>
       ELSE \/ handles' = handles \cup {final.id} /\ UNCHANGED commands
            \/ commands' = Send(CloseCommand(final.id)) /\ UNCHANGED handles
    /\ UNCHANGED <<running, nextId, stopped, opens, reads, disk>>

\* The end of open_stat.  The inert handle of a fully prefetched file has no
\* entry in the table; any other handle goes to the callback with its entry.
\* The callback keeps the handle, or drops it when the stream is gone.
Opened(task, final) ==
    /\ tasks' = tasks \ {task}
    /\ last' = Called(final, "Ok")
    /\ IF Prefetched(final) THEN UNCHANGED <<files, handles, commands>>
       ELSE /\ files' = files \cup {final.id}
            /\ \/ handles' = handles \cup {final.id} /\ UNCHANGED commands
               \/ commands' = Send(CloseCommand(final.id)) /\ UNCHANGED handles
    /\ UNCHANGED <<running, nextId, stopped, opens, reads, disk>>

\* The open with O_NOFOLLOW, and the one that follows after ELOOP if allowed.
OpenNofollow ==
    \E task \in tasks :
        LET request == opens[task.id] IN
        /\ task.at = "Nofollow"
        /\ UNCHANGED <<commands, canonCache>>
        /\ IF request.link # "No"
           THEN IF request.deny THEN Finish(task, task, "Loop")
                ELSE Goto(task, [task EXCEPT !.at = "Follow"])
           ELSE IF request.node = "Missing" THEN Finish(task, task, "NotFound")
           ELSE Goto(task, [task EXCEPT !.at = "Metadata"])

OpenFollow ==
    \E task \in tasks :
        /\ task.at = "Follow"
        /\ UNCHANGED <<commands, canonCache>>
        /\ IF opens[task.id].node = "Missing" THEN Finish(task, task, "NotFound")
           ELSE Goto(task, [task EXCEPT !.at = "Metadata", !.linked = TRUE])

\* Mutant: the bound is checked one entry late.
parent_cached_canonicalize_off_by_one(dir) ==
    IF canonCache[dir] # "None" THEN canonCache
    ELSE IF Cardinality({d \in Dirs : canonCache[d] # "None"}) > CanonCacheMax
    THEN [d \in Dirs |-> IF d = dir THEN canon[dir] ELSE "None"]
    ELSE [canonCache EXCEPT ![dir] = canon[dir]]

\* The cache after parent_cached_canonicalize, which answers from it: a full
\* cache is cleared before a new entry goes in.
parent_cached_canonicalize(dir) ==
    IF canonCache[dir] # "None" THEN canonCache
    ELSE IF Cardinality({d \in Dirs : canonCache[d] # "None"}) >= CanonCacheMax
    THEN [d \in Dirs |-> IF d = dir THEN canon[dir] ELSE "None"]
    ELSE [canonCache EXCEPT ![dir] = canon[dir]]

\* Mutant: a followed link is located by its parent.
LocationByParent(task, cache) == cache[opens[task.id].dir]

\* Where the opened file is: a followed link is fully canonicalized, past the
\* cache; any other file is its canonical parent joined with its name.
Location(task, cache) ==
    IF task.linked THEN opens[task.id].link ELSE cache[opens[task.id].dir]

\* The metadata, the containment check and the decision to prefetch run between
\* two awaits.
OpenMetadata ==
    \E task \in tasks :
        LET request == opens[task.id]
            size == length[task.id]
            want == IF request.node = "Dir" THEN 0
                    ELSE IF request.want < size THEN request.want ELSE size
            known == [task EXCEPT !.size = size, !.len = want]
        IN  /\ task.at = "Metadata"
            /\ canonCache' = IF task.linked THEN canonCache
                             ELSE parent_cached_canonicalize(request.dir)
            /\ IF Location(task, canonCache') = "Out"
               THEN Finish(task, known, "PermissionDenied") /\ UNCHANGED commands
               ELSE IF want > 0
               THEN Goto(task, [known EXCEPT !.at = "Read"]) /\ UNCHANGED commands
               ELSE Opened(task, known)

\* The metadata or the canonical path cannot be had.
OpenFails ==
    \E task \in tasks :
        /\ task.at = "Metadata"
        /\ UNCHANGED <<commands, canonCache>>
        /\ Finish(task, task, "Other")

\* Mutant: every read asks for the whole length again.
AvailableUnreduced(task) ==
    LET rest == length[task.id] - task.offset - task.got
    IN IF rest <= 0 THEN 0 ELSE IF rest < task.len THEN rest ELSE task.len

\* The most that the next read of read_at can return: what is left of the file,
\* or of the length asked for.
Available(task) ==
    LET rest == length[task.id] - task.offset - task.got
        need == task.len - task.got
    IN IF rest <= 0 THEN 0 ELSE IF rest < need THEN rest ELSE need

\* Mutants: the first short read is returned; the end of the file is not
\* noticed.
ReadFullOnce(task, n) == n >= 0
ReadFullNoEof(task, n) == task.got + n = task.len

\* read_at leaves its loop when the buffer is full or the file ends.
ReadFull(task, n) == n = 0 \/ task.got + n = task.len

\* One read of read_at: between one byte and all that is available, none at the
\* end of the file.
ReadSome(task) ==
    \E n \in 0 .. Available(task) :
        LET next == [task EXCEPT !.got = task.got + n] IN
        /\ n = 0 => Available(task) = 0
        /\ IF ~ReadFull(task, n) THEN Goto(task, next) /\ UNCHANGED commands
           ELSE IF task.kind = "Read" THEN Finish(task, next, "Ok") /\ UNCHANGED commands
           ELSE Opened(task, next)

\* A handle that is not in the table cannot be read; a read error is an empty
\* prefix for a prefetch.
ReadFails(task) ==
    IF task.kind = "Read"
    THEN /\ Finish(task, task, IF task.at = "Closed" THEN "NotFound" ELSE "Other")
         /\ UNCHANGED commands
    ELSE Opened(task, [task EXCEPT !.got = 0])

ReadAt ==
    \E task \in tasks :
        /\ task.at \in {"Read", "Closed"}
        /\ UNCHANGED canonCache
        /\ IF task.at = "Closed" THEN ReadFails(task) ELSE ReadSome(task)

ReadError ==
    \E task \in tasks :
        /\ task.at = "Read"
        /\ UNCHANGED canonCache
        /\ ReadFails(task)

ReadDir ==
    \E task \in tasks, result \in {"Ok", "NotFound", "Other"} :
        /\ task.at = "Dir"
        /\ UNCHANGED <<commands, canonCache>>
        /\ Finish(task, task, result)

-----------------------------------------------------------------------------
(* The file system. *)

Truncate ==
    /\ truncates + renames < MaxChanges
    /\ \E id \in Ids :
          /\ length[id] > 0
          /\ length' = [length EXCEPT ![id] = length[id] - 1]
    /\ truncates' = truncates + 1
    /\ UNCHANGED <<commands, running, files, canonCache, tasks, client, canon, renames,
                    last>>

\* A directory under the root is replaced by one elsewhere, or back.
Rename ==
    /\ truncates + renames < MaxChanges
    /\ \E dir \in Dirs, where \in Where :
          /\ canon' = [canon EXCEPT ![dir] = where]
          /\ tasks' = {IF task.kind = "Open" /\ opens[task.id].dir = dir
                       THEN [task EXCEPT !.seen = task.seen \cup {where}] ELSE task :
                       task \in tasks}
    /\ renames' = renames + 1
    /\ UNCHANGED <<commands, running, files, canonCache, client, length, truncates,
                    last>>

-----------------------------------------------------------------------------
Submit == SubmitOpen \/ SubmitRead \/ SubmitReadDir \/ DropHandle \/ Shutdown

Receive ==
    ReceiveOpen \/ ReceiveRead \/ ReceiveReadDir \/ ReceiveClose \/ ReceiveShutdown

TaskStep == OpenNofollow \/ OpenFollow \/ OpenMetadata \/ ReadAt \/ ReadDir

Next ==
    Submit \/ Receive \/ TaskStep \/ OpenFails \/ ReadError \/ Truncate \/ Rename

Spec == Init /\ [][Next]_vars

\* The reactor keeps receiving and polling its tasks, the kernel completes every
\* operation, and every stream ends and drops its handle.  No error is forced.
FairSpec == Spec /\ WF_vars(Receive) /\ WF_vars(TaskStep) /\ WF_vars(DropHandle)

-----------------------------------------------------------------------------
(* Properties. *)

\* The cache of canonical parents stays within CANON_CACHE_MAX.
CacheBounded == Cardinality({d \in Dirs : canonCache[d] # "None"}) <= CanonCacheMax

\* The reactor's state is well typed, and its cache and reads are within bounds.
TypeOK ==
    /\ commands \in Seq(CommandType)
    /\ running \in BOOLEAN
    /\ nextId \in 1 .. MaxOpens + 1
    /\ files \subseteq Ids
    /\ canonCache \in [Dirs -> Where \cup {"None"}]
    /\ tasks \subseteq TaskType
    /\ \A task \in tasks : task.got <= task.len
    /\ handles \subseteq Ids
    /\ length \in [Ids -> Nat]
    /\ canon \in [Dirs -> Where]
    /\ stopped \in BOOLEAN
    /\ opens \in Seq(Requests) /\ Len(opens) = nextId - 1
    /\ reads \in Nat /\ truncates \in Nat /\ renames \in Nat
    /\ CacheBounded

\* No descriptor leaks: while the reactor runs, a file in its table has a live
\* handle, or the Close that its drop sent is in the channel.
NoLeakedFile ==
    \A id \in files :
        id \in handles \/ \E i \in 1 .. Len(commands) : commands[i] = CloseCommand(id)

\* A read of a live handle always finds its file, even when the handle is
\* dropped before the reactor gets to the read: the Close queues behind it, and
\* the read's task keeps the file open after that.
ReadsFindFile == last.task.kind = "Read" => last.result # "NotFound"

Bytes(task, size) ==
    LET rest == size - task.offset
    IN IF rest <= 0 THEN 0 ELSE IF rest < task.len THEN rest ELSE task.len

\* Short reads never open a gap: a read returns all the bytes that the file had
\* there, unless the file was truncated, and then at least those it still has.
ReadsAreWhole ==
    (last.task.kind = "Read" /\ last.result = "Ok") =>
        /\ last.task.got <= Bytes(last.task, last.task.size)
        /\ last.task.got >= Bytes(last.task, length[last.task.id])

\* What the stream relies on when it turns reads into chunks: none of them fails
\* because its handle went away, and none returns less than the file has.
ReadsExact == ReadsFindFile /\ ReadsAreWhole

\* The verdict of the containment check is right for where the file was at some
\* moment of the open itself.
VerdictFresh ==
    last.task.kind = "Open" =>
        LET places == IF last.task.linked THEN {opens[last.task.id].link}
                      ELSE last.task.seen
        IN  /\ last.result = "Ok" => "In" \in places
            /\ last.result = "PermissionDenied" => "Out" \in places

\* As long as no directory is renamed the cache and the two ways to locate a file
\* make no difference: the verdict is the one that a full canonicalization of
\* the path gives.
VerdictExact == renames = 0 => VerdictFresh

\* The operation a command or a task stands for: an open is told apart by its
\* id, a read or listing by its ticket.
Op(kind, id, ticket) ==
    IF kind = "Open" THEN [open |-> TRUE, n |-> id] ELSE [open |-> FALSE, n |-> ticket]

Ops == [open : {TRUE}, n : Ids] \cup [open : {FALSE}, n : 0 .. MaxReads - 1]

Submitted ==
    [open : {TRUE}, n : 1 .. nextId - 1] \cup [open : {FALSE}, n : 0 .. reads - 1]

Pending ==
    {Op(task.kind, task.id, task.ticket) : task \in tasks}
    \cup {Op(commands[i].op, commands[i].id, commands[i].ticket) :
            i \in {j \in 1 .. Len(commands) :
                     commands[j].op \in {"Open", "Read", "ReadDir"}}}

Answered ==
    IF last = NoCall THEN Op("Open", 0, 0)
    ELSE Op(last.task.kind, last.task.id, last.task.ticket)

Abstract ==
    INSTANCE Operations WITH Nothing <- Op("Open", 0, 0), submitted <- Submitted,
        pending <- Pending, answered <- Answered, open <- running

\* The channel, the reactor and its tasks call back for each operation that
\* reaches a running engine at most once, drop none of them before the reactor
\* ends and call back for none afterwards: this, with Drained, is the engine
\* that the streams of module Filter are written against.
ImplementsOperations == Abstract!Spec

\* Every command is answered and every descriptor is closed in the end, or the
\* engine is shut down: no loop of read_at and no Close is left behind.
Drained == <>[](commands = <<>> /\ tasks = {} /\ files = {})
=============================================================================
