---------------------------- MODULE HarnessProofs ----------------------------
(* Proofs about Harness, for any tests and servers, any number of processes and *)
(* any number of Envoys that crash.                                             *)
EXTENDS Harness, TLAPS

-----------------------------------------------------------------------------
(* Type correctness. *)

EnvoyStates == Alive \cup {"None", "Crashed", "Dead"}
ServerStates == {"Unborn", "Starting", "Up", "Poisoned", "Dropped"}
FetchPoints == {"Fetch", "Write", "Chmod", "Rename"}
Points ==
    FetchPoints \cup {"Idle", "Stage", "Binary", "Spawn", "Await", "Request", "Drop", "Wait",
                      "Done"}

DiskType ==
    /\ binary \in Images /\ partial \in Images
    /\ files \subseteq [name : Nat \X Nat, of : Envoys]
    /\ dirs \subseteq Nat \X Nat

ProcessType ==
    /\ envoy \in [Envoys -> [state : EnvoyStates, admin : Nat]]
    /\ proc \in 1 .. MaxProcesses
    /\ suite \in [Tests -> Servers]
    /\ run \in {"Running", "Exited", "Killed"}

MemoryType ==
    /\ lazy \in {"Unset", "Fetching", "Set", "Poisoned"}
    /\ counter \in Nat
    /\ pids \subseteq Envoys
    /\ server \in [Servers -> [state : ServerStates, dir : Nat, address : Nat \X Servers]]
    /\ pc \in [Tests -> Points]
    /\ attempts \in [Tests -> 0 .. Attempts - 1]

TypeOK == DiskType /\ ProcessType /\ MemoryType

\* Where a step of a test's thread leads to.
LEMMA StepType ==
    ASSUME TypeOK, NEW t \in Tests, NEW from, NEW to \in Points, Step(t, from, to)
    PROVE  /\ pc' \in [Tests -> Points]
           /\ UNCHANGED <<faults, proc, suite, run>>
           /\ run = "Running" /\ pc[t] = from /\ pc'[t] = to
           /\ \A u \in Tests \ {t} : pc'[u] = pc[u]
  BY DEF TypeOK, MemoryType, Step

\* Setting the state of a test's server.
LEMMA SetType ==
    ASSUME TypeOK, NEW t \in Tests, NEW state \in ServerStates, Set(t, state)
    PROVE  /\ server' \in [Servers -> [state : ServerStates, dir : Nat, address : Nat \X Servers]]
           /\ server'[suite[t]].state = state
           /\ \A s \in Servers : /\ server'[s].dir = server[s].dir
                                 /\ server'[s].address = server[s].address
                                 /\ s # suite[t] => server'[s] = server[s]
<1>1. suite[t] \in Servers
  BY DEF TypeOK, ProcessType
<1> QED
  BY <1>1 DEF TypeOK, MemoryType, Set

\* A process that ends leaves a fresh one's memory.
LEMMA ForgetType ==
    ASSUME Forget
    PROVE  MemoryType'
  BY HarnessAssumption DEF Forget, MemoryType, Unborn, Idle, Points, ServerStates

\* Every step keeps the types of what is on disk, of the processes and of the memory
\* of the test process.
THEOREM TypeCorrect == Spec => []TypeOK
<1>1. Init => TypeOK
  BY HarnessAssumption DEF Init, TypeOK, DiskType, ProcessType, MemoryType, NotSpawned, Unborn,
     Idle, Points, ServerStates, EnvoyStates, Alive, Images, Envoys
<1>2. TypeOK /\ [Next]_vars => TypeOK'
  <2> SUFFICES ASSUME TypeOK, [Next]_vars
               PROVE  TypeOK'
    OBVIOUS
  <2>1. ASSUME NEW t \in Tests, TestStep(t) PROVE TypeOK'
    <3>0. /\ suite[t] \in Servers /\ Ended(t) \in ServerStates /\ After(t) \in Points
          /\ Own(t) \in Envoys /\ Own(t) \in Nat \X Servers
      BY DEF TypeOK, ProcessType, Ended, ServerStates, After, Points, Own, Envoys
    <3>1. CASE Begin(t)
      BY <2>1, <3>0, <3>1, StepType, SetType
      DEF Begin, TypeOK, DiskType, ProcessType, MemoryType, fetched, tmp, Points, ServerStates
    <3>2. CASE Stage(t)
      BY <2>1, <3>0, <3>2, StepType
      DEF Stage, unique_tmp, TypeOK, DiskType, ProcessType, MemoryType, fetched, tmp, Points
    <3>12. CASE StageFails(t)
      BY <2>1, <3>0, <3>12, StepType, SetType
      DEF StageFails, TypeOK, DiskType, ProcessType, MemoryType, fetched, tmp, Points
    <3>3. CASE envoy_binary(t)
      BY <2>1, <3>0, <3>3, StepType, SetType
      DEF envoy_binary, TypeOK, DiskType, ProcessType, MemoryType, fetched, tmp, Points,
          FetchPoints
    <3>4. CASE Fetch(t) \/ Write(t) \/ Chmod(t) \/ Rename(t)
      BY <2>1, <3>0, <3>4, StepType
      DEF Fetch, Write, Chmod, Rename, TypeOK, DiskType, ProcessType, MemoryType, fetched, tmp,
          program, Points, FetchPoints, Images
    <3>5. CASE FetchFails(t)
      BY <2>1, <3>0, <3>5, StepType, SetType
      DEF FetchFails, TypeOK, DiskType, ProcessType, MemoryType, fetched, tmp, Points
    <3>6. CASE Spawn(t)
      <4>1. /\ pc' \in [Tests -> Points] /\ UNCHANGED <<proc, suite, run>>
        BY <3>6, StepType DEF Spawn, Points
      <4>2. UNCHANGED <<binary, partial, files, dirs, lazy, counter, attempts>>
        BY <3>6 DEF Spawn, fetched, tmp
      <4>3. envoy' \in [Envoys -> [state : EnvoyStates, admin : Nat]]
        <5>1. server[suite[t]].dir + 1 \in Nat
          BY <3>0 DEF TypeOK, MemoryType
        <5> QED
          BY <3>0, <3>6, <5>1 DEF Spawn, TypeOK, ProcessType, EnvoyStates, Alive
      <4>4. pids' \subseteq Envoys
        BY <3>0, <3>6 DEF Spawn, register_for_cleanup, TypeOK, MemoryType
      <4>5. MemoryType'
        BY <3>0, <3>6, <4>1, <4>2, <4>4, SetType DEF Spawn, TypeOK, MemoryType
      <4> QED
        BY <4>1, <4>2, <4>3, <4>5 DEF TypeOK, DiskType, ProcessType
    <3>7. CASE Ready(t)
      <4>1. pc' \in [Tests -> Points] /\ UNCHANGED <<proc, suite, run>>
        BY <3>7, StepType DEF Ready, Points
      <4>2. UNCHANGED <<binary, partial, dirs, envoy, lazy, counter, pids, attempts>>
        BY <3>7 DEF Ready, fetched
      <4>3. PICK f \in files :
              /\ server' = [server EXCEPT ![suite[t]].state = "Up", ![suite[t]].address = f.of]
              /\ files' = files \ {f}
        BY <3>7 DEF Ready
      <4>4. f.of \in Nat \X Servers
        BY DEF TypeOK, DiskType, ProcessType, Envoys
      <4>5. server' \in [Servers -> [state : ServerStates, dir : Nat, address : Nat \X Servers]]
        BY <3>0, <4>3, <4>4 DEF TypeOK, MemoryType, ServerStates
      <4> QED
        BY <4>1, <4>2, <4>3, <4>5 DEF TypeOK, DiskType, ProcessType, MemoryType
    <3>8. CASE Exited(t) \/ TimesOut(t)
      BY <2>1, <3>0, <3>8, StepType
      DEF Exited, TimesOut, TypeOK, DiskType, ProcessType, MemoryType, fetched, tmp, program,
          Points
    <3>9. CASE Request(t)
      <4>1. attempts' \in [Tests -> 0 .. Attempts - 1]
        <5>1. attempts[t] \in 0 .. Attempts - 1 /\ Attempts \in Nat \ {0}
          BY HarnessAssumption DEF TypeOK, MemoryType
        <5>2. \/ attempts' = [attempts EXCEPT ![t] = 0]
              \/ /\ attempts[t] + 1 # Attempts
                 /\ attempts' = [attempts EXCEPT ![t] = @ + 1]
          BY <3>9 DEF Request, LastAttempt
        <5> QED
          BY <5>1, <5>2 DEF TypeOK, MemoryType
      <4> QED
        BY <2>1, <3>0, <3>9, <4>1, StepType
        DEF Request, TypeOK, DiskType, ProcessType, MemoryType, fetched, tmp, Points
    <3>10. CASE Drop(t)
      BY <2>1, <3>0, <3>10, StepType
      DEF Drop, TypeOK, DiskType, ProcessType, MemoryType, fetched, tmp, program, Points,
          EnvoyStates, Alive
    <3>11. CASE Wait(t)
      BY <2>1, <3>0, <3>11, StepType, SetType
      DEF Wait, TypeOK, DiskType, ProcessType, MemoryType, fetched, tmp, Points
    <3> QED
      BY <2>1, <3>1, <3>2, <3>3, <3>4, <3>5, <3>6, <3>7, <3>8, <3>9, <3>10, <3>11, <3>12
      DEF TestStep
  <2>2. CASE Exit
    BY <2>2, ForgetType
    DEF Exit, TypeOK, DiskType, ProcessType, fetched, tmp, EnvoyStates, Alive
  <2>3. CASE Kill
    BY <2>3, ForgetType DEF Kill, TypeOK, DiskType, ProcessType, fetched, tmp
  <2>4. CASE Restart
    BY <2>4, HarnessAssumption
    DEF Restart, TypeOK, DiskType, ProcessType, MemoryType, fetched, tmp, program
  <2>5. ASSUME NEW e \in Envoys, Boot(e) \/ Listen(e) \/ Hang(e) \/ Crash(e) \/ Terminate(e)
        PROVE  TypeOK'
    <3>1. PICK to \in EnvoyStates, from \in SUBSET EnvoyStates : Becomes(e, from, to)
      BY <2>5 DEF Boot, Listen, Hang, Crash, Terminate, EnvoyStates, Alive
    <3>2. envoy' \in [Envoys -> [state : EnvoyStates, admin : Nat]]
      BY <3>1 DEF Becomes, TypeOK, ProcessType
    <3>3. files' \subseteq [name : Nat \X Nat, of : Envoys]
      <4>1. unique_tmp(e[1], envoy[e].admin) \in Nat \X Nat
        BY DEF unique_tmp, Envoys, TypeOK, ProcessType
      <4>2. [name |-> unique_tmp(e[1], envoy[e].admin), of |-> e] \in [name : Nat \X Nat, of : Envoys]
        BY <4>1
      <4> QED
        BY <2>5, <4>2 DEF Boot, Listen, Hang, Crash, Terminate, TypeOK, DiskType
    <3>4. DiskType' /\ ProcessType'
      BY <3>1, <3>2, <3>3 DEF Becomes, fetched, TypeOK, DiskType, ProcessType
    <3>5. MemoryType'
      BY <3>1 DEF Becomes, program, TypeOK, MemoryType
    <3> QED
      BY <3>4, <3>5 DEF TypeOK
  <2>6. CASE UNCHANGED vars
    BY <2>6 DEF vars, TypeOK, DiskType, ProcessType, MemoryType, fetched, tmp, program
  <2> QED
    BY <2>1, <2>2, <2>3, <2>4, <2>5, <2>6 DEF Next
<1> QED
  BY <1>1, <1>2, PTL DEF Spec

-----------------------------------------------------------------------------
(* The inductive invariant. *)

\* The points of a test that starts its server, up to the spawn.
Before == FetchPoints \cup {"Stage", "Binary", "Spawn"}

\* The points at which a test alone may decide about its server.
Deciding == Before \cup {"Await", "Drop", "Wait"}

\* The points at which a test uses its Envoy.
Using == {"Await", "Request"}

\* An Envoy that nobody has told to stop.
Untold == {"Starting", "Admin", "Listening", "Hung", "Crashed"}

\* Only the thread that holds the lock of envoy_binary fetches, and what it
\* renames is whole and executable.
Fetching ==
    /\ binary \in {"Absent", "Executable"}
    /\ \A t \in Tests : pc[t] = "Rename" => partial = "Executable"
    /\ \A t \in Tests : pc[t] \in FetchPoints => lazy = "Fetching"
    /\ \A t, u \in Tests : pc[t] \in FetchPoints /\ pc[u] \in FetchPoints => t = u
    /\ WholeBinary

\* A process that has ended has no memory.
Memory ==
    run # "Running" => /\ lazy = "Unset" /\ counter = 0 /\ pids = {}
                       /\ server = Unborn /\ pc = Idle

\* What the point of a test says of its server.
Life ==
    \A t \in Tests :
        /\ pc[t] = "Idle" /\ suite[t] \notin Statics => State(t) = "Unborn"
        /\ pc[t] # "Idle" => State(t) # "Unborn"
        /\ pc[t] \in Before \cup {"Await"} => State(t) = "Starting"
        /\ pc[t] = "Request" => State(t) = "Up"
        /\ pc[t] \in {"Drop", "Wait"} =>
              State(t) = "Starting" \/ (State(t) = "Up" /\ suite[t] \notin Statics)

\* Tests that share a server have it in a static, and one at most starts it.
Sharing ==
    \A t, u \in Tests : t # u /\ suite[t] = suite[u] =>
        /\ suite[t] \in Statics
        /\ ~(pc[t] \in Deciding /\ pc[u] \in Deciding)

\* A server's directory has been staged.
Staged(s) ==
    server[s].state # "Unborn" /\ \A t \in Tests : suite[t] = s => pc[t] # "Stage"

\* Names of one process are taken once.
Naming ==
    /\ \A s \in Servers : Staged(s) => server[s].dir < counter
    /\ \A s, r \in Servers :
          Staged(s) /\ Staged(r) /\ server[s].dir = server[r].dir => s = r

\* The Envoy of a server of this process, whether it is registered, and whether
\* the server's directory is there.
Envoy(s) == envoy[<<proc, s>>]
Registered(s) == <<proc, s>> \in pids
HasDir(s) == unique_tmp(proc, server[s].dir) \in dirs

\* An Envoy of this process was spawned after its server was staged, with the
\* name that follows the directory's, and is registered; no later process has any.
Spawned ==
    \A s \in Servers :
        /\ server[s].state = "Unborn" => Envoy(s).state = "None"
        /\ Envoy(s).state # "None" => Envoy(s).admin = server[s].dir + 1 /\ Registered(s)

Spawning ==
    /\ \A e \in Envoys : e[1] > proc => envoy[e].state = "None"
    /\ run = "Running" =>
          Spawned /\ \A t \in Tests : pc[t] \in Before => Envoy(suite[t]).state = "None"

\* Admin files have the names that their Envoys were given.
Files ==
    \A f \in files : envoy[f.of].state # "None"
                      /\ f.name = unique_tmp(f.of[1], envoy[f.of].admin)

\* The Envoy and the directory of a server that is in use, or in a static.
Kept(s) == Envoy(s).state \in Untold /\ HasDir(s)

Usage ==
    /\ \A t \in Tests :
          /\ pc[t] \in Using => Kept(suite[t])
          /\ pc[t] \in Before \ {"Stage"} => HasDir(suite[t])
    /\ \A s \in Statics : server[s].state = "Up" => Kept(s)

\* All that is not about the fetch.
Rest ==
    /\ Memory /\ Life /\ Sharing /\ Naming /\ Spawning /\ Files /\ Usage
    /\ OwnEnvoy /\ NoSurvivors

Inv == Fetching /\ Rest

-----------------------------------------------------------------------------
(* Steps that keep it. *)

\* The steps of a test that change no Envoy, no directory and no name: where the
\* test goes, and what becomes of its server.
Move(t) ==
    \/ pc[t] = "Idle" /\ State(t) = "Unborn" /\ pc'[t] = "Stage" /\ State(t)' = "Starting"
    \/ pc[t] = "Idle" /\ State(t) = "Up" /\ pc'[t] = "Request" /\ State(t)' = State(t)
    \/ pc[t] = "Idle" /\ State(t) = "Poisoned" /\ pc'[t] = "Done" /\ State(t)' = State(t)
    \/ /\ pc[t] \in Before \ {"Stage"} /\ pc'[t] \in Before \ {"Stage"}
       /\ State(t)' = State(t)
    \/ /\ pc[t] \in Before \ {"Stage"} /\ pc'[t] = "Done"
       /\ State(t)' = IF suite[t] \in Statics THEN "Poisoned" ELSE "Dropped"
    \/ pc[t] = "Await" /\ pc'[t] = "Drop" /\ State(t)' = State(t)
    \/ pc[t] = "Request" /\ pc'[t] \in {"Request", After(t)} /\ State(t)' = State(t)

Quiet(t) ==
    /\ run = "Running" /\ UNCHANGED <<proc, suite, run, tmp, envoy, counter, pids>>
    /\ \A u \in Tests \ {t} : pc'[u] = pc[u]
    /\ \A s \in Servers : /\ server'[s].dir = server[s].dir
                          /\ server'[s].address = server[s].address
                          /\ s # suite[t] => server'[s] = server[s]
    /\ Move(t)

\* Such steps keep all but the part about the fetch.
LEMMA QuietInv ==
    ASSUME TypeOK, Inv, NEW t \in Tests, Quiet(t)
    PROVE  Rest'
<1>1. /\ suite \in [Tests -> Servers] /\ suite[t] \in Servers /\ proc \in 1 .. MaxProcesses
      /\ server \in [Servers -> [state : ServerStates, dir : Nat, address : Nat \X Servers]]
      /\ envoy \in [Envoys -> [state : EnvoyStates, admin : Nat]] /\ pc \in [Tests -> Points]
      /\ counter \in Nat
  BY DEF TypeOK, ProcessType, MemoryType
<1>2. /\ run = "Running" /\ UNCHANGED <<proc, suite, run, files, dirs, envoy, counter, pids>>
      /\ Move(t) /\ \A u \in Tests \ {t} : pc'[u] = pc[u]
      /\ \A s \in Servers : /\ server'[s].dir = server[s].dir
                            /\ server'[s].address = server[s].address
                            /\ s # suite[t] => server'[s] = server[s]
  BY DEF Quiet, tmp
<1>3. \A s \in Servers :
         /\ Envoy(s)' = Envoy(s) /\ Registered(s)' = Registered(s)
         /\ HasDir(s)' = HasDir(s)
  BY <1>1, <1>2 DEF Envoy, Registered, HasDir, unique_tmp
<1>4. Memory'
  BY <1>1, <1>2, <1>3 DEF Inv, Rest, Memory
<1>5. Life'
  BY <1>1, <1>2, <1>3
  DEF Inv, Rest, Life, Sharing, State, Deciding, Before, FetchPoints, Move, After
<1>6. Sharing'
  BY <1>1, <1>2, <1>3
  DEF Inv, Rest, Sharing, Life, State, Deciding, Before, FetchPoints, Move, After
<1>7. Naming'
  <2>1. ASSUME NEW s \in Servers, Staged(s)' PROVE Staged(s) /\ server'[s].dir = server[s].dir
    BY <1>1, <1>2, <1>3, <2>1 DEF Inv, Rest, Staged, Life, State, Move, Before, FetchPoints
  <2> QED
    BY <1>1, <1>2, <1>3, <2>1 DEF Inv, Rest, Naming
<1>8. Spawning'
  <2>1. (\A e \in Envoys : e[1] > proc => envoy[e].state = "None")'
    BY <1>1, <1>2, <1>3 DEF Inv, Rest, Spawning
  <2>2. ASSUME NEW s \in Servers, server'[s].state = "Unborn"
        PROVE  Envoy(s)'.state = "None"
    <3>1. server[s].state = "Unborn"
      BY <1>1, <1>2, <2>2 DEF Move, State
    <3> QED
      BY <1>2, <1>3, <3>1 DEF Inv, Rest, Spawning, Spawned
  <2>3. ASSUME NEW s \in Servers, Envoy(s)'.state # "None"
        PROVE  Envoy(s)'.admin = server'[s].dir + 1 /\ Registered(s)'
    BY <1>1, <1>2, <1>3, <2>3 DEF Inv, Rest, Spawning, Spawned
  <2>4. ASSUME NEW u \in Tests, pc'[u] \in Before PROVE Envoy(suite[u])'.state = "None"
    BY <1>1, <1>2, <1>3, <2>4
    DEF Inv, Rest, Spawning, Spawned, Life, Sharing, State, Deciding, Before, FetchPoints,
        Move, After
  <2> QED
    BY <1>1, <1>2, <1>3, <2>1, <2>2, <2>3, <2>4 DEF Spawning, Spawned
<1>9. Files'
  BY <1>1, <1>2, <1>3 DEF Inv, Rest, Files
<1>10. Usage'
  <2>1. ASSUME NEW u \in Tests, pc'[u] \in Using PROVE Kept(suite[u])'
    BY <1>1, <1>2, <1>3, <2>1, HarnessAssumption
    DEF Inv, Rest, Usage, Kept, Using, Life, Sharing, State, Deciding, Before, FetchPoints,
        Move, After
  <2>2. ASSUME NEW u \in Tests, pc'[u] \in Before \ {"Stage"} PROVE HasDir(suite[u])'
    BY <1>1, <1>2, <1>3, <2>2
    DEF Inv, Rest, Usage, Life, Sharing, State, Deciding, Before, FetchPoints, Move, After
  <2>3. ASSUME NEW s \in Statics, server'[s].state = "Up" PROVE Kept(s)'
    BY <1>1, <1>2, <1>3, <2>3, HarnessAssumption
    DEF Inv, Rest, Usage, Kept, State, Move, Before, FetchPoints
  <2> QED
    BY <1>1, <1>2, <1>3, <2>1, <2>2, <2>3 DEF Usage
<1>11. OwnEnvoy'
  BY <1>1, <1>2, <1>3 DEF Inv, Rest, OwnEnvoy, State, Move, Before, FetchPoints
<1>12. NoSurvivors'
  BY <1>1, <1>2, <1>3 DEF Inv, Rest, NoSurvivors
<1> QED
  BY <1>4, <1>5, <1>6, <1>7, <1>8, <1>9, <1>10, <1>11, <1>12 DEF Rest

\* A server is staged when a test is past that point, and when it is up.
LEMMA StagedServers ==
    ASSUME TypeOK, Rest
    PROVE  /\ \A t \in Tests : pc[t] \in (Deciding \ {"Stage"}) \cup {"Request"} => Staged(suite[t])
           /\ \A s \in Servers : server[s].state = "Up" => Staged(s)
<1>1. suite \in [Tests -> Servers]
  BY DEF TypeOK, ProcessType
<1>2. ASSUME NEW s \in Servers, server[s].state = "Up" PROVE Staged(s)
  BY <1>2 DEF Rest, Staged, Life, State, Before
<1>3. ASSUME NEW t \in Tests, pc[t] \in Deciding \ {"Stage"} PROVE Staged(suite[t])
  BY <1>1, <1>3 DEF Rest, Staged, Life, Sharing, State, Deciding, Before, FetchPoints
<1>4. ASSUME NEW t \in Tests, pc[t] = "Request" PROVE Staged(suite[t])
  BY <1>1, <1>2, <1>4 DEF Rest, Life, State
<1> QED
  BY <1>2, <1>3, <1>4

\* The fetch goes on undisturbed by a test that is not at it.
LEMMA FetchElsewhere ==
    ASSUME Fetching, NEW t \in Tests, pc[t] \notin FetchPoints, pc'[t] \notin FetchPoints,
           \A u \in Tests \ {t} : pc'[u] = pc[u], UNCHANGED <<binary, partial, lazy>>
    PROVE  Fetching'
  BY DEF Fetching, WholeBinary, FetchPoints

\* Stage keeps the invariant: the directory's name is new.
LEMMA StageInv ==
    ASSUME TypeOK, Inv, NEW t \in Tests, Stage(t)
    PROVE  Inv'
<1>1. /\ suite \in [Tests -> Servers] /\ suite[t] \in Servers /\ proc \in 1 .. MaxProcesses
      /\ server \in [Servers -> [state : ServerStates, dir : Nat, address : Nat \X Servers]]
      /\ counter \in Nat
  BY DEF TypeOK, ProcessType, MemoryType
<1>2. /\ run = "Running" /\ UNCHANGED <<proc, suite, run>>
      /\ pc[t] = "Stage" /\ pc'[t] = "Binary" /\ \A u \in Tests \ {t} : pc'[u] = pc[u]
  BY StepType DEF Stage, Points
<1>3. /\ UNCHANGED <<binary, partial, files, envoy, lazy, pids>>
      /\ counter' = counter + 2 /\ dirs' = dirs \cup {unique_tmp(proc, counter)}
  BY DEF Stage, fetched
<1>4. /\ \A s \in Servers : /\ server'[s].state = server[s].state
                            /\ server'[s].address = server[s].address
                            /\ s # suite[t] => server'[s].dir = server[s].dir
      /\ server'[suite[t]].dir = counter
  BY <1>1 DEF Stage
<1>5. \A s \in Servers : /\ Envoy(s)' = Envoy(s) /\ Registered(s)' = Registered(s)
                         /\ HasDir(s) => HasDir(s)'
  BY <1>1, <1>2, <1>3, <1>4 DEF Envoy, Registered, HasDir, unique_tmp
<1>6. HasDir(suite[t])'
  BY <1>1, <1>2, <1>3, <1>4 DEF HasDir, unique_tmp
<1>7. Fetching' /\ Memory'
  BY <1>2, <1>3, FetchElsewhere DEF Inv, Memory, FetchPoints
<1>8. Life'
  <2>1. \A u \in Tests : State(u)' = State(u)
    BY <1>1, <1>2, <1>4 DEF State
  <2> QED
    BY <1>2, <2>1 DEF Inv, Rest, Life, Before, FetchPoints
<1>9. Sharing'
  BY <1>1, <1>2 DEF Inv, Rest, Sharing, Deciding, Before, FetchPoints
<1>10. Naming'
  <2>1. ASSUME NEW s \in Servers, Staged(s)', s # suite[t]
        PROVE  Staged(s) /\ server'[s].dir = server[s].dir
    BY <1>1, <1>2, <1>4, <2>1 DEF Staged
  <2>2. \A s \in Servers : s # suite[t] /\ Staged(s)' => server'[s].dir < counter
    BY <2>1 DEF Inv, Rest, Naming
  <2>3. \A s \in Servers : server[s].dir \in Nat
    BY <1>1
  <2>4. \A s \in Servers : Staged(s)' => server'[s].dir < counter'
    <3> SUFFICES ASSUME NEW s \in Servers, Staged(s)' PROVE server'[s].dir < counter'
      OBVIOUS
    <3>1. CASE s = suite[t]
      BY <1>1, <1>3, <1>4, <3>1
    <3>2. CASE s # suite[t]
      <4>1. server'[s].dir = server[s].dir /\ server[s].dir \in Nat /\ server'[s].dir < counter
        BY <1>4, <2>2, <2>3, <3>2
      <4> QED
        BY <1>1, <1>3, <4>1
    <3> QED
      BY <3>1, <3>2
  <2>5. ASSUME NEW s \in Servers, NEW r \in Servers, Staged(s)', Staged(r)',
               server'[s].dir = server'[r].dir
        PROVE  s = r
    BY <1>1, <1>4, <2>1, <2>2, <2>3, <2>5 DEF Inv, Rest, Naming
  <2> QED
    BY <2>4, <2>5 DEF Naming
<1>11. Spawning'
  <2>1. (\A e \in Envoys : e[1] > proc => envoy[e].state = "None")'
    BY <1>2, <1>3 DEF Inv, Rest, Spawning
  <2>2. Envoy(suite[t]).state = "None"
    BY <1>2 DEF Inv, Rest, Spawning, Before
  <2>3. Spawned'
    BY <1>1, <1>2, <1>4, <1>5, <2>2 DEF Inv, Rest, Spawning, Spawned
  <2>4. ASSUME NEW u \in Tests, pc'[u] \in Before PROVE Envoy(suite[u])'.state = "None"
    BY <1>1, <1>2, <1>5, <2>2, <2>4 DEF Inv, Rest, Spawning
  <2> QED
    BY <1>2, <2>1, <2>3, <2>4 DEF Spawning
<1>12. Files' /\ NoSurvivors' /\ OwnEnvoy'
  BY <1>2, <1>3, <1>4 DEF Inv, Rest, Files, NoSurvivors, OwnEnvoy
<1>13. Usage'
  <2>1. \A s \in Servers : Kept(s) => Kept(s)'
    BY <1>5 DEF Kept
  <2>2. ASSUME NEW u \in Tests, pc'[u] \in Using PROVE Kept(suite[u])'
    BY <1>1, <1>2, <2>1, <2>2 DEF Inv, Rest, Usage, Using
  <2>3. ASSUME NEW u \in Tests, pc'[u] \in Before \ {"Stage"} PROVE HasDir(suite[u])'
    BY <1>1, <1>2, <1>5, <1>6, <2>3 DEF Inv, Rest, Usage
  <2>4. ASSUME NEW s \in Statics, server'[s].state = "Up" PROVE Kept(s)'
    BY <1>4, <2>1, <2>4, HarnessAssumption DEF Inv, Rest, Usage
  <2> QED
    BY <1>2, <2>2, <2>3, <2>4 DEF Usage
<1> QED
  BY <1>7, <1>8, <1>9, <1>10, <1>11, <1>12, <1>13 DEF Inv, Rest

\* A spawn keeps the invariant: nobody uses the server yet.
LEMMA SpawnInv ==
    ASSUME TypeOK, Inv, NEW t \in Tests, Step(t, "Spawn", "Await"),
           envoy' = [envoy EXCEPT ![Own(t)] =
                        [state |-> "Starting", admin |-> server[suite[t]].dir + 1]],
           pids' = register_for_cleanup(Own(t)),
           UNCHANGED <<fetched, tmp, lazy, counter, server>>
    PROVE  Inv'
<1>1. /\ suite \in [Tests -> Servers] /\ suite[t] \in Servers /\ proc \in 1 .. MaxProcesses
      /\ server \in [Servers -> [state : ServerStates, dir : Nat, address : Nat \X Servers]]
      /\ envoy \in [Envoys -> [state : EnvoyStates, admin : Nat]]
      /\ files \subseteq [name : Nat \X Nat, of : Envoys]
  BY DEF TypeOK, DiskType, ProcessType, MemoryType
<1>2. /\ run = "Running" /\ UNCHANGED <<proc, suite, run>>
      /\ pc[t] = "Spawn" /\ pc'[t] = "Await" /\ \A u \in Tests \ {t} : pc'[u] = pc[u]
  BY StepType DEF Points
<1>3. UNCHANGED <<binary, partial, files, dirs, lazy, counter, server>>
  BY DEF fetched, tmp
<1>4. /\ Own(t) \in Envoys /\ Own(t)[1] = proc
      /\ envoy'[Own(t)] = [state |-> "Starting", admin |-> server[suite[t]].dir + 1]
      /\ \A e \in Envoys : e # Own(t) => envoy'[e] = envoy[e]
  BY <1>1 DEF Own, Envoys
<1>5. /\ \A s \in Servers : /\ s # suite[t] => Envoy(s)' = Envoy(s)
                            /\ Registered(s) => Registered(s)'
                            /\ HasDir(s)' = HasDir(s)
      /\ Envoy(suite[t])' = [state |-> "Starting", admin |-> server[suite[t]].dir + 1]
      /\ Registered(suite[t])'
  <2>1. \A s \in Servers : <<proc, s>> \in Envoys
    BY <1>1 DEF Envoys
  <2> QED
    BY <1>1, <1>2, <1>3, <1>4, <2>1
    DEF Envoy, Registered, HasDir, Own, unique_tmp, register_for_cleanup
<1>6. Envoy(suite[t]).state = "None" /\ server[suite[t]].state = "Starting" /\ HasDir(suite[t])
  BY <1>2 DEF Inv, Rest, Life, State, Spawning, Usage, Before
<1>7. Fetching' /\ Memory'
  BY <1>2, <1>3, FetchElsewhere DEF Inv, Memory, FetchPoints
<1>8. Life'
  BY <1>1, <1>2, <1>3 DEF Inv, Rest, Life, State, Before, FetchPoints
<1>9. Sharing'
  BY <1>1, <1>2 DEF Inv, Rest, Sharing, Deciding, Before, FetchPoints
<1>10. Naming'
  <2>1. ASSUME NEW s \in Servers, Staged(s)' PROVE Staged(s)
    BY <1>1, <1>2, <1>3, <2>1 DEF Staged
  <2> QED
    BY <1>3, <2>1 DEF Inv, Rest, Naming
<1>11. Spawning'
  <2>1. (\A e \in Envoys : e[1] > proc => envoy[e].state = "None")'
    BY <1>1, <1>2, <1>4 DEF Inv, Rest, Spawning
  <2>2. Spawned'
    BY <1>1, <1>2, <1>3, <1>5, <1>6 DEF Inv, Rest, Spawning, Spawned
  <2>3. ASSUME NEW u \in Tests, pc'[u] \in Before PROVE Envoy(suite[u])'.state = "None"
    <3>1. suite[u] # suite[t] /\ pc[u] \in Before
      BY <1>1, <1>2, <2>3 DEF Inv, Rest, Sharing, Deciding, Before, FetchPoints
    <3> QED
      BY <1>1, <1>2, <1>5, <3>1 DEF Inv, Rest, Spawning
  <2> QED
    BY <1>2, <2>1, <2>2, <2>3 DEF Spawning
<1>12. Files'
  <2>1. ASSUME NEW f \in files PROVE f.of \in Envoys /\ f.of # Own(t)
    BY <1>1, <1>6 DEF Inv, Rest, Files, Envoy, Own
  <2> QED
    BY <1>3, <1>4, <2>1 DEF Inv, Rest, Files, unique_tmp
<1>13. Usage'
  <2>1. \A s \in Servers : Kept(s) => s # suite[t] /\ Kept(s)'
    BY <1>5, <1>6 DEF Kept, Untold
  <2>2. Kept(suite[t])'
    <3>1. Envoy(suite[t])'.state = "Starting" /\ HasDir(suite[t])'
      BY <1>1, <1>2, <1>5, <1>6
    <3> QED
      BY <3>1 DEF Kept, Untold
  <2>3. ASSUME NEW u \in Tests, pc'[u] \in Using PROVE Kept(suite[u])'
    BY <1>1, <1>2, <2>1, <2>2, <2>3 DEF Inv, Rest, Usage, Using
  <2>4. ASSUME NEW u \in Tests, pc'[u] \in Before \ {"Stage"} PROVE HasDir(suite[u])'
    BY <1>1, <1>2, <1>5, <2>4 DEF Inv, Rest, Usage, Before, FetchPoints
  <2>5. ASSUME NEW s \in Statics, server'[s].state = "Up" PROVE Kept(s)'
    BY <1>3, <1>6, <2>1, <2>5, HarnessAssumption DEF Inv, Rest, Usage
  <2> QED
    BY <1>2, <2>3, <2>4, <2>5 DEF Usage
<1>14. OwnEnvoy' /\ NoSurvivors'
  BY <1>2, <1>3 DEF Inv, Rest, OwnEnvoy, NoSurvivors
<1> QED
  BY <1>7, <1>8, <1>9, <1>10, <1>11, <1>12, <1>13, <1>14 DEF Inv, Rest

\* Ready keeps the invariant: the file with the name that this server's Envoy was
\* given was written by that Envoy.
LEMMA ReadyInv ==
    ASSUME TypeOK, Inv, NEW t \in Tests, Ready(t)
    PROVE  Inv'
<1>1. /\ suite \in [Tests -> Servers] /\ suite[t] \in Servers /\ proc \in 1 .. MaxProcesses
      /\ server \in [Servers -> [state : ServerStates, dir : Nat, address : Nat \X Servers]]
      /\ envoy \in [Envoys -> [state : EnvoyStates, admin : Nat]]
      /\ files \subseteq [name : Nat \X Nat, of : Envoys]
  BY DEF TypeOK, DiskType, ProcessType, MemoryType
<1>2. /\ run = "Running" /\ UNCHANGED <<proc, suite, run>>
      /\ pc[t] = "Await" /\ pc'[t] = "Request" /\ \A u \in Tests \ {t} : pc'[u] = pc[u]
  BY StepType DEF Ready, Points
<1>3. UNCHANGED <<binary, partial, dirs, envoy, lazy, counter, pids>>
  BY DEF Ready, fetched
<1>4. PICK f \in files :
        /\ f.name = unique_tmp(proc, server[suite[t]].dir + 1)
        /\ server' = [server EXCEPT ![suite[t]].state = "Up", ![suite[t]].address = f.of]
        /\ files' = files \ {f}
  BY DEF Ready
<1>5. f.of = <<proc, suite[t]>>
  <2>1. f.of \in Envoys /\ f.of = <<f.of[1], f.of[2]>> /\ f.of[2] \in Servers
    BY <1>1 DEF Envoys
  <2>2. envoy[f.of].state # "None" /\ f.name = <<f.of[1], envoy[f.of].admin>>
    BY DEF Inv, Rest, Files, unique_tmp
  <2>3. f.of[1] = proc /\ envoy[f.of].admin = server[suite[t]].dir + 1
    BY <1>4, <2>2 DEF unique_tmp
  <2> DEFINE r == f.of[2]
  <2>4. r \in Servers /\ f.of = <<proc, r>> /\ envoy[f.of] = Envoy(r)
    BY <2>1, <2>3 DEF Envoy
  <2> HIDE DEF r
  <2>5. Envoy(r).state # "None" /\ Envoy(r).admin = server[suite[t]].dir + 1
    BY <2>2, <2>3, <2>4
  <2>6. Envoy(r).admin = server[r].dir + 1 /\ server[r].state # "Unborn"
    BY <1>2, <2>4, <2>5 DEF Inv, Rest, Spawning, Spawned
  <2>7. server[r].dir = server[suite[t]].dir
    <3>1. server[r].dir \in Nat /\ server[suite[t]].dir \in Nat
      BY <1>1, <2>4
    <3> QED
      BY <2>5, <2>6, <3>1
  <2>8. Staged(r)
    BY <1>2, <2>5, <2>6 DEF Inv, Rest, Spawning, Staged, Before
  <2>9. Staged(suite[t])
    BY <1>2, StagedServers DEF Inv, Deciding
  <2>10. r = suite[t]
    BY <1>1, <2>4, <2>7, <2>8, <2>9 DEF Inv, Rest, Naming
  <2> QED
    BY <2>4, <2>10
<1>6. /\ \A s \in Servers : /\ server'[s].dir = server[s].dir
                            /\ s # suite[t] => server'[s] = server[s]
      /\ server'[suite[t]].state = "Up" /\ server'[suite[t]].address = <<proc, suite[t]>>
      /\ server[suite[t]].state = "Starting"
  BY <1>1, <1>2, <1>4, <1>5 DEF Inv, Rest, Life, State
<1>7. \A s \in Servers : /\ Envoy(s)' = Envoy(s) /\ Registered(s)' = Registered(s)
                         /\ HasDir(s)' = HasDir(s)
  BY <1>2, <1>3, <1>6 DEF Envoy, Registered, HasDir, unique_tmp
<1>8. Fetching' /\ Memory'
  BY <1>2, <1>3, FetchElsewhere DEF Inv, Memory, FetchPoints
<1>9. Life'
  <2>1. /\ \A u \in Tests : suite[u] # suite[t] => u # t /\ State(u)' = State(u)
        /\ \A u \in Tests : suite[u] = suite[t] => State(u)' = "Up" /\ State(u) = "Starting"
    BY <1>1, <1>2, <1>6 DEF State
  <2>2. \A u \in Tests : u # t /\ suite[u] = suite[t] =>
                             suite[u] \in Statics /\ pc[u] \notin Deciding
    BY <1>2 DEF Inv, Rest, Sharing, Deciding
  <2> QED
    BY <1>2, <2>1, <2>2 DEF Inv, Rest, Life, Deciding, Before, FetchPoints
<1>10. Sharing'
  BY <1>1, <1>2 DEF Inv, Rest, Sharing, Deciding, Before, FetchPoints
<1>11. Naming'
  <2>1. ASSUME NEW s \in Servers, Staged(s)' PROVE Staged(s)
    BY <1>1, <1>2, <1>6, <2>1 DEF Staged
  <2> QED
    BY <1>3, <1>6, <2>1 DEF Inv, Rest, Naming
<1>12. Spawning'
  <2>1. (\A e \in Envoys : e[1] > proc => envoy[e].state = "None")'
    BY <1>2, <1>3 DEF Inv, Rest, Spawning
  <2>2. Spawned'
    BY <1>1, <1>2, <1>6, <1>7 DEF Inv, Rest, Spawning, Spawned
  <2>3. ASSUME NEW u \in Tests, pc'[u] \in Before PROVE Envoy(suite[u])'.state = "None"
    BY <1>1, <1>2, <1>7, <2>3 DEF Inv, Rest, Spawning, Before, FetchPoints
  <2> QED
    BY <1>2, <2>1, <2>2, <2>3 DEF Spawning
<1>13. Files' /\ NoSurvivors'
  BY <1>2, <1>3, <1>4 DEF Inv, Rest, Files, NoSurvivors
<1>14. Usage'
  <2>1. \A s \in Servers : Kept(s) => Kept(s)'
    BY <1>7 DEF Kept
  <2>2. Kept(suite[t])
    BY <1>2 DEF Inv, Rest, Usage, Using
  <2>3. ASSUME NEW u \in Tests, pc'[u] \in Using PROVE Kept(suite[u])'
    BY <1>1, <1>2, <2>1, <2>2, <2>3 DEF Inv, Rest, Usage
  <2>4. ASSUME NEW u \in Tests, pc'[u] \in Before \ {"Stage"} PROVE HasDir(suite[u])'
    BY <1>1, <1>2, <1>7, <2>4 DEF Inv, Rest, Usage, Before, FetchPoints
  <2>5. ASSUME NEW s \in Statics, server'[s].state = "Up" PROVE Kept(s)'
    BY <1>6, <2>1, <2>2, <2>5, HarnessAssumption DEF Inv, Rest, Usage
  <2> QED
    BY <1>2, <2>3, <2>4, <2>5 DEF Usage
<1>15. OwnEnvoy'
  BY <1>2, <1>6 DEF Inv, Rest, OwnEnvoy
<1> QED
  BY <1>8, <1>9, <1>10, <1>11, <1>12, <1>13, <1>14, <1>15 DEF Inv, Rest

\* Drop keeps the invariant: no other test uses the Envoy that it stops.
LEMMA DropInv ==
    ASSUME TypeOK, Inv, NEW t \in Tests, Drop(t)
    PROVE  Inv'
<1>1. /\ suite \in [Tests -> Servers] /\ suite[t] \in Servers /\ proc \in 1 .. MaxProcesses
      /\ server \in [Servers -> [state : ServerStates, dir : Nat, address : Nat \X Servers]]
      /\ envoy \in [Envoys -> [state : EnvoyStates, admin : Nat]]
      /\ files \subseteq [name : Nat \X Nat, of : Envoys]
  BY DEF TypeOK, DiskType, ProcessType, MemoryType
<1>2. /\ run = "Running" /\ UNCHANGED <<proc, suite, run>>
      /\ pc[t] = "Drop" /\ pc'[t] = "Wait" /\ \A u \in Tests \ {t} : pc'[u] = pc[u]
  BY StepType DEF Drop, Points
<1>3. UNCHANGED <<binary, partial, files, dirs, lazy, counter, pids, server>>
  BY DEF Drop, fetched, tmp, program
<1>4. /\ Own(t) \in Envoys
      /\ \A e \in Envoys : /\ envoy'[e].admin = envoy[e].admin
                           /\ envoy'[e].state = "None" <=> envoy[e].state = "None"
                           /\ e # Own(t) => envoy'[e] = envoy[e]
  <2>1. Own(t) \in Envoys
    BY <1>1 DEF Own, Envoys
  <2> QED
    BY <1>1, <2>1 DEF Drop, Alive
<1>5. \A s \in Servers : /\ Envoy(s)'.admin = Envoy(s).admin
                         /\ Envoy(s)'.state = "None" <=> Envoy(s).state = "None"
                         /\ s # suite[t] => Envoy(s)' = Envoy(s)
                         /\ Registered(s)' = Registered(s) /\ HasDir(s)' = HasDir(s)
  <2>1. \A s \in Servers : <<proc, s>> \in Envoys
    BY <1>1 DEF Envoys
  <2> QED
    BY <1>1, <1>2, <1>3, <1>4, <2>1 DEF Envoy, Registered, HasDir, Own, unique_tmp
<1>6. Fetching' /\ Memory'
  BY <1>2, <1>3, FetchElsewhere DEF Inv, Memory, FetchPoints
<1>7. Life'
  BY <1>1, <1>2, <1>3 DEF Inv, Rest, Life, State, Before, FetchPoints
<1>8. Sharing'
  BY <1>1, <1>2 DEF Inv, Rest, Sharing, Deciding, Before, FetchPoints
<1>9. Naming'
  <2>1. ASSUME NEW s \in Servers, Staged(s)' PROVE Staged(s)
    BY <1>1, <1>2, <1>3, <2>1 DEF Staged
  <2> QED
    BY <1>3, <2>1 DEF Inv, Rest, Naming
<1>10. Spawning'
  <2>1. (\A e \in Envoys : e[1] > proc => envoy[e].state = "None")'
    BY <1>2, <1>4 DEF Inv, Rest, Spawning
  <2>2. Spawned'
    BY <1>1, <1>2, <1>3, <1>5 DEF Inv, Rest, Spawning, Spawned
  <2>3. ASSUME NEW u \in Tests, pc'[u] \in Before PROVE Envoy(suite[u])'.state = "None"
    BY <1>1, <1>2, <1>5, <2>3 DEF Inv, Rest, Spawning, Before, FetchPoints
  <2> QED
    BY <1>2, <2>1, <2>2, <2>3 DEF Spawning
<1>11. Files'
  <2>1. \A f \in files : f.of \in Envoys
    BY <1>1
  <2> QED
    BY <1>3, <1>4, <2>1 DEF Inv, Rest, Files, unique_tmp
<1>12. Usage'
  <2>1. \A s \in Servers : s # suite[t] /\ Kept(s) => Kept(s)'
    BY <1>5 DEF Kept
  <2>2. ASSUME NEW u \in Tests, pc'[u] \in Using PROVE Kept(suite[u])'
    <3>1. pc[u] \in Using /\ u # t /\ suite[u] # suite[t]
      BY <1>1, <1>2, <2>2 DEF Inv, Rest, Life, Sharing, State, Using, Deciding, Before
    <3> QED
      BY <1>1, <1>2, <2>1, <3>1 DEF Inv, Rest, Usage
  <2>3. ASSUME NEW u \in Tests, pc'[u] \in Before \ {"Stage"} PROVE HasDir(suite[u])'
    BY <1>1, <1>2, <1>5, <2>3 DEF Inv, Rest, Usage, Before, FetchPoints
  <2>4. ASSUME NEW s \in Statics, server'[s].state = "Up" PROVE Kept(s)'
    <3>1. s # suite[t] /\ s \in Servers
      BY <1>2, <1>3, <2>4, HarnessAssumption DEF Inv, Rest, Life, State
    <3> QED
      BY <1>3, <2>1, <2>4, <3>1 DEF Inv, Rest, Usage
  <2> QED
    BY <1>2, <2>2, <2>3, <2>4 DEF Usage
<1>13. OwnEnvoy' /\ NoSurvivors'
  BY <1>2, <1>3 DEF Inv, Rest, OwnEnvoy, NoSurvivors
<1> QED
  BY <1>6, <1>7, <1>8, <1>9, <1>10, <1>11, <1>12, <1>13 DEF Inv, Rest

\* Wait keeps the invariant: no other server has the directory that it removes,
\* and no other test uses this one.
LEMMA WaitInv ==
    ASSUME TypeOK, Inv, NEW t \in Tests, Wait(t)
    PROVE  Inv'
<1>1. /\ suite \in [Tests -> Servers] /\ suite[t] \in Servers /\ proc \in 1 .. MaxProcesses
      /\ server \in [Servers -> [state : ServerStates, dir : Nat, address : Nat \X Servers]]
      /\ Ended(t) \in ServerStates
  BY DEF TypeOK, ProcessType, MemoryType, Ended, ServerStates
<1>2. /\ run = "Running" /\ UNCHANGED <<proc, suite, run>>
      /\ pc[t] = "Wait" /\ pc'[t] = "Done" /\ \A u \in Tests \ {t} : pc'[u] = pc[u]
  BY StepType DEF Wait, Points
<1>3. /\ UNCHANGED <<binary, partial, files, envoy, lazy, counter, pids>>
      /\ dirs' = dirs \ {unique_tmp(proc, server[suite[t]].dir)}
  BY DEF Wait, fetched
<1>4. /\ \A s \in Servers : /\ server'[s].dir = server[s].dir
                            /\ server'[s].address = server[s].address
                            /\ s # suite[t] => server'[s] = server[s]
      /\ server'[suite[t]].state \in {"Poisoned", "Dropped"}
      /\ suite[t] \in Statics => server'[suite[t]].state = "Poisoned"
  BY <1>1, SetType DEF Wait, Ended
<1>5. \A s \in Servers : /\ Envoy(s)' = Envoy(s) /\ Registered(s)' = Registered(s)
                         /\ HasDir(s) /\ Staged(s) /\ s # suite[t] => HasDir(s)'
  <2>1. \A s \in Servers : Envoy(s)' = Envoy(s) /\ Registered(s)' = Registered(s)
    BY <1>2, <1>3 DEF Envoy, Registered
  <2>2. Staged(suite[t])
    BY <1>2, StagedServers DEF Inv, Deciding
  <2>3. ASSUME NEW s \in Servers, HasDir(s), Staged(s), s # suite[t] PROVE HasDir(s)'
    <3>1. server[s].dir # server[suite[t]].dir
      BY <1>1, <2>2, <2>3 DEF Inv, Rest, Naming
    <3> QED
      BY <1>2, <1>3, <1>4, <2>3, <3>1 DEF HasDir, unique_tmp
  <2> QED
    BY <2>1, <2>3
<1>6. \A u \in Tests : u # t /\ suite[u] = suite[t] =>
                          suite[u] \in Statics /\ pc[u] \notin Deciding \cup {"Request"}
  BY <1>2 DEF Inv, Rest, Life, Sharing, State, Deciding
<1>7. Fetching' /\ Memory'
  BY <1>2, <1>3, FetchElsewhere DEF Inv, Memory, FetchPoints
<1>8. Life'
  <2>1. /\ \A u \in Tests : suite[u] # suite[t] => u # t /\ State(u)' = State(u)
        /\ \A u \in Tests : suite[u] = suite[t] => State(u)' \in {"Poisoned", "Dropped"}
    BY <1>1, <1>2, <1>4 DEF State
  <2> QED
    BY <1>2, <1>6, <2>1 DEF Inv, Rest, Life, Deciding, Before, FetchPoints
<1>9. Sharing'
  BY <1>1, <1>2 DEF Inv, Rest, Sharing, Deciding, Before, FetchPoints
<1>10. Naming'
  <2>1. ASSUME NEW s \in Servers, Staged(s)' PROVE Staged(s)
    <3>1. server[s].state # "Unborn"
      BY <1>2, <1>4, <2>1 DEF Inv, Rest, Staged, Life, State
    <3> QED
      BY <1>1, <1>2, <2>1, <3>1 DEF Staged
  <2> QED
    BY <1>3, <1>4, <2>1 DEF Inv, Rest, Naming
<1>11. Spawning'
  <2>1. (\A e \in Envoys : e[1] > proc => envoy[e].state = "None")'
    BY <1>2, <1>3 DEF Inv, Rest, Spawning
  <2>2. Spawned'
    BY <1>1, <1>2, <1>4, <1>5 DEF Inv, Rest, Spawning, Spawned
  <2>3. ASSUME NEW u \in Tests, pc'[u] \in Before PROVE Envoy(suite[u])'.state = "None"
    BY <1>1, <1>2, <1>5, <2>3 DEF Inv, Rest, Spawning, Before, FetchPoints
  <2> QED
    BY <1>2, <2>1, <2>2, <2>3 DEF Spawning
<1>12. Files' /\ NoSurvivors'
  BY <1>2, <1>3 DEF Inv, Rest, Files, NoSurvivors
<1>13. Usage'
  <2>1. \A s \in Servers : s # suite[t] /\ Staged(s) /\ Kept(s) => Kept(s)'
    BY <1>5 DEF Kept
  <2>2. ASSUME NEW u \in Tests, pc'[u] \in Using PROVE Kept(suite[u])'
    <3>1. pc[u] \in Using /\ suite[u] # suite[t]
      BY <1>2, <1>6, <2>2 DEF Using, Deciding
    <3>2. Staged(suite[u])
      BY <3>1, StagedServers DEF Inv, Using, Deciding
    <3> QED
      BY <1>1, <1>2, <2>1, <3>1, <3>2 DEF Inv, Rest, Usage
  <2>3. ASSUME NEW u \in Tests, pc'[u] \in Before \ {"Stage"} PROVE HasDir(suite[u])'
    <3>1. pc[u] \in Before \ {"Stage"} /\ suite[u] # suite[t]
      BY <1>2, <1>6, <2>3 DEF Deciding, Before, FetchPoints
    <3>2. Staged(suite[u])
      BY <3>1, StagedServers DEF Inv, Deciding
    <3> QED
      BY <1>1, <1>2, <1>5, <3>1, <3>2 DEF Inv, Rest, Usage
  <2>4. ASSUME NEW s \in Statics, server'[s].state = "Up" PROVE Kept(s)'
    <3>1. s \in Servers /\ s # suite[t] /\ server[s].state = "Up"
      BY <1>4, <2>4, HarnessAssumption
    <3>2. Staged(s)
      BY <3>1, StagedServers DEF Inv
    <3> QED
      BY <2>1, <3>1, <3>2 DEF Inv, Rest, Usage
  <2> QED
    BY <1>2, <2>2, <2>3, <2>4 DEF Usage
<1>14. OwnEnvoy'
  BY <1>1, <1>2, <1>4 DEF Inv, Rest, OwnEnvoy
<1> QED
  BY <1>7, <1>8, <1>9, <1>10, <1>11, <1>12, <1>13, <1>14 DEF Inv, Rest

\* A process that ends keeps the invariant when it leaves no Envoy to later ones
\* and, if it ends by itself, none that is alive.
LEMMA EndInv ==
    ASSUME TypeOK, Inv, run = "Running", run' \in {"Exited", "Killed"}, Forget,
           UNCHANGED <<fetched, tmp, proc, suite>>,
           \A e \in Envoys : /\ envoy'[e].admin = envoy[e].admin
                             /\ envoy'[e].state = "None" <=> envoy[e].state = "None",
           NoSurvivors'
    PROVE  Inv'
<1>1. /\ suite \in [Tests -> Servers] /\ proc \in 1 .. MaxProcesses
      /\ files \subseteq [name : Nat \X Nat, of : Envoys]
  BY DEF TypeOK, DiskType, ProcessType
<1>2. /\ lazy' = "Unset" /\ counter' = 0 /\ pids' = {} /\ server' = Unborn /\ pc' = Idle
      /\ UNCHANGED <<binary, partial, files, dirs>>
      /\ \A t \in Tests : pc'[t] = "Idle"
      /\ \A s \in Servers : server'[s].state = "Unborn"
  BY DEF Forget, fetched, tmp, Idle, Unborn
<1>3. Fetching' /\ Memory'
  BY <1>2 DEF Inv, Fetching, WholeBinary, Memory, FetchPoints
<1>4. Life'
  BY <1>1, <1>2 DEF Life, State, Before, FetchPoints
<1>5. Sharing'
  BY <1>2 DEF Inv, Rest, Sharing, Deciding, Before, FetchPoints
<1>6. Naming' /\ OwnEnvoy'
  BY <1>2 DEF Naming, Staged, OwnEnvoy
<1>7. Spawning'
  BY DEF Inv, Rest, Spawning
<1>8. Files'
  <2>1. \A f \in files : f.of \in Envoys
    BY <1>1
  <2> QED
    BY <1>2, <2>1 DEF Inv, Rest, Files, unique_tmp
<1>9. Usage'
  BY <1>2, HarnessAssumption DEF Usage, Using, Before, FetchPoints
<1> QED
  BY <1>3, <1>4, <1>5, <1>6, <1>7, <1>8, <1>9 DEF Inv, Rest

\* Exit kills whatever this process has spawned, for all of it is registered.
LEMMA ExitInv ==
    ASSUME TypeOK, Inv, Exit
    PROVE  Inv'
<1>1. envoy \in [Envoys -> [state : EnvoyStates, admin : Nat]] /\ proc \in 1 .. MaxProcesses
  BY DEF TypeOK, ProcessType
<1>2. \A e \in Envoys : /\ envoy'[e].admin = envoy[e].admin
                        /\ envoy'[e].state = "None" <=> envoy[e].state = "None"
                        /\ e \in pids => envoy'[e].state \notin Alive
                        /\ envoy[e].state = "None" => envoy'[e].state = "None"
  BY <1>1 DEF Exit, Alive
<1>3. NoSurvivors'
  <2>1. ASSUME NEW s \in Servers PROVE envoy'[<<proc, s>>].state \notin Alive
    <3>1. <<proc, s>> \in Envoys
      BY <1>1 DEF Envoys
    <3>2. Envoy(s).state # "None" => Registered(s)
      BY DEF Exit, Inv, Rest, Spawning, Spawned
    <3> QED
      BY <1>2, <3>1, <3>2 DEF Envoy, Registered, Alive
  <2> QED
    BY <2>1 DEF Exit, NoSurvivors
<1> QED
  BY <1>2, <1>3, EndInv DEF Exit

\* A kill leaves Envoys as they are.
LEMMA KillInv ==
    ASSUME TypeOK, Inv, Kill
    PROVE  Inv'
  BY EndInv DEF Kill, NoSurvivors

\* The next process begins with no Envoy of its own.
LEMMA RestartInv ==
    ASSUME TypeOK, Inv, Restart
    PROVE  Inv'
<1>1. /\ suite \in [Tests -> Servers] /\ proc \in 1 .. MaxProcesses /\ proc' = proc + 1
      /\ proc' \in 1 .. MaxProcesses
      /\ run # "Running" /\ run' = "Running"
      /\ UNCHANGED <<binary, partial, files, dirs, envoy, suite, lazy, counter, pids, server, pc>>
  BY HarnessAssumption DEF TypeOK, ProcessType, Restart, fetched, tmp, program
<1>2. /\ \A t \in Tests : pc[t] = "Idle"
      /\ \A s \in Servers : server[s].state = "Unborn"
  BY <1>1 DEF Inv, Rest, Memory, Idle, Unborn
<1>3. Fetching' /\ Memory' /\ NoSurvivors'
  BY <1>1 DEF Inv, Fetching, WholeBinary, Memory, NoSurvivors
<1>4. Life' /\ Sharing'
  BY <1>1 DEF Inv, Rest, Life, Sharing, State
<1>5. Naming' /\ Files'
  BY <1>1 DEF Inv, Rest, Naming, Staged, Files, unique_tmp
<1>6. Spawning'
  <2>1. (\A e \in Envoys : e[1] > proc => envoy[e].state = "None")'
    BY <1>1 DEF Inv, Rest, Spawning, Envoys
  <2>2. ASSUME NEW s \in Servers PROVE Envoy(s)'.state = "None"
    <3>1. <<proc', s>> \in Envoys /\ <<proc', s>>[1] > proc
      BY <1>1 DEF Envoys
    <3> QED
      BY <1>1, <3>1 DEF Inv, Rest, Spawning, Envoy
  <2> QED
    BY <1>1, <1>2, <2>1, <2>2 DEF Spawning, Spawned
<1>7. Usage' /\ OwnEnvoy'
  BY <1>1, <1>2, HarnessAssumption DEF Usage, Using, Before, FetchPoints, OwnEnvoy
<1> QED
  BY <1>3, <1>4, <1>5, <1>6, <1>7 DEF Inv, Rest

\* Envoys keep the invariant: one that nobody told to stop comes up, hangs or crashes,
\* and writes its address under the name that it was given.
LEMMA EnvoyInv ==
    ASSUME TypeOK, Inv, NEW e \in Envoys, Boot(e) \/ Listen(e) \/ Hang(e) \/ Crash(e) \/ Terminate(e)
    PROVE  Inv'
<1>1. /\ suite \in [Tests -> Servers] /\ proc \in 1 .. MaxProcesses
      /\ envoy \in [Envoys -> [state : EnvoyStates, admin : Nat]]
      /\ files \subseteq [name : Nat \X Nat, of : Envoys]
  BY DEF TypeOK, DiskType, ProcessType
<1>2. /\ UNCHANGED <<binary, partial, dirs, proc, suite, run, lazy, counter, pids, server, pc>>
      /\ envoy[e].state \in Alive /\ envoy'[e].state # "None" /\ envoy'[e].admin = envoy[e].admin
      /\ envoy[e].state \in Untold => envoy'[e].state \in Untold
      /\ \A g \in Envoys : g # e => envoy'[g] = envoy[g]
  BY <1>1 DEF Boot, Listen, Hang, Crash, Terminate, Becomes, fetched, program, Alive, Untold
<1>3. \A s \in Servers : /\ Envoy(s)'.admin = Envoy(s).admin
                         /\ Envoy(s)'.state = "None" <=> Envoy(s).state = "None"
                         /\ Envoy(s).state \in Untold => Envoy(s)'.state \in Untold
                         /\ Envoy(s).state \notin Alive => Envoy(s)' = Envoy(s)
                         /\ Registered(s)' = Registered(s) /\ HasDir(s)' = HasDir(s)
  <2>1. \A s \in Servers : <<proc, s>> \in Envoys
    BY <1>1 DEF Envoys
  <2>2. \A s \in Servers : Envoy(s)' = envoy'[<<proc, s>>]
    BY <1>2 DEF Envoy
  <2>3. \A s \in Servers : Registered(s)' = Registered(s) /\ HasDir(s)' = HasDir(s)
    BY <1>2 DEF Registered, HasDir, unique_tmp
  <2> QED
    BY <1>2, <2>1, <2>2, <2>3 DEF Envoy, Alive
<1>4. Fetching' /\ Memory' /\ Life' /\ Sharing' /\ Naming' /\ OwnEnvoy'
  BY <1>2 DEF Inv, Rest, Fetching, WholeBinary, Memory, Life, State, Sharing, Naming, Staged,
     OwnEnvoy
<1>5. Spawning'
  <2>1. (\A g \in Envoys : g[1] > proc => envoy[g].state = "None")'
    BY <1>2 DEF Inv, Rest, Spawning, Alive
  <2>2. run = "Running" => Spawned'
    BY <1>2, <1>3 DEF Inv, Rest, Spawning, Spawned
  <2>3. run = "Running" => \A t \in Tests : pc[t] \in Before => Envoy(suite[t])'.state = "None"
    BY <1>1, <1>2, <1>3 DEF Inv, Rest, Spawning
  <2> QED
    BY <1>2, <2>1, <2>2, <2>3 DEF Spawning
<1>6. Files'
  <2>1. ASSUME NEW f \in files
        PROVE  /\ envoy'[f.of].state # "None"
               /\ f.name = unique_tmp(f.of[1], envoy'[f.of].admin)
    <3>1. f.of \in Envoys
      BY <1>1
    <3>2. envoy[f.of].state # "None" /\ f.name = unique_tmp(f.of[1], envoy[f.of].admin)
      BY DEF Inv, Rest, Files
    <3> QED
      BY <1>2, <3>1, <3>2
  <2>2. ASSUME NEW f \in files'
        PROVE  f \in files \/ f = [name |-> unique_tmp(e[1], envoy[e].admin), of |-> e]
    BY <2>2 DEF Boot, Listen, Hang, Crash, Terminate
  <2>3. ASSUME NEW f \in files'
        PROVE  /\ envoy'[f.of].state # "None"
               /\ f.name = unique_tmp(f.of[1], envoy'[f.of].admin)
    BY <1>2, <2>1, <2>2, <2>3
  <2> QED
    BY <2>3 DEF Files, unique_tmp
<1>7. Usage'
  <2>1. \A s \in Servers : Kept(s) => Kept(s)'
    BY <1>3 DEF Kept
  <2>2. \A t \in Tests : suite[t] \in Servers
    BY <1>1
  <2> QED
    BY <1>2, <1>3, <2>1, <2>2, HarnessAssumption DEF Inv, Rest, Usage
<1>8. NoSurvivors'
  BY <1>2, <1>3 DEF Inv, Rest, NoSurvivors, Envoy
<1> QED
  BY <1>4, <1>5, <1>6, <1>7, <1>8 DEF Inv, Rest

\* The steps before the spawn and the requests keep the invariant: whoever is at a
\* point of the fetch holds the lock, and the file gets its name as the last step.
LEMMA QuietSteps ==
    ASSUME TypeOK, Inv, NEW t \in Tests,
           \/ Begin(t) \/ StageFails(t) \/ envoy_binary(t) \/ Fetch(t) \/ FetchFails(t) \/ Write(t)
           \/ Chmod(t) \/ Rename(t) \/ Exited(t) \/ TimesOut(t) \/ Request(t)
    PROVE  Inv'
<1>1. /\ suite[t] \in Servers /\ Ended(t) \in ServerStates /\ After(t) \in Points
      /\ server \in [Servers -> [state : ServerStates, dir : Nat, address : Nat \X Servers]]
  BY DEF TypeOK, ProcessType, MemoryType, Ended, ServerStates, After, Points
<1>2. server' = server => \A s \in Servers : /\ server'[s].dir = server[s].dir
                                             /\ server'[s].address = server[s].address
                                             /\ server'[s] = server[s]
  OBVIOUS
<1>3. CASE Begin(t)
  <2>1. Quiet(t)
    BY <1>1, <1>3, StepType, SetType DEF Begin, Quiet, Move, State, tmp, Points, ServerStates
  <2>2. Fetching'
    BY <1>3, StepType, FetchElsewhere DEF Begin, Inv, Points, FetchPoints, fetched
  <2> QED
    BY <2>1, <2>2, QuietInv DEF Inv
<1>9. CASE StageFails(t)
  <2>1. Quiet(t)
    BY <1>1, <1>9, StepType, SetType
    DEF StageFails, Quiet, Move, State, Ended, tmp, Points, Before
  <2>2. Fetching'
    BY <1>9, StepType, FetchElsewhere DEF StageFails, Inv, Points, FetchPoints, fetched
  <2> QED
    BY <2>1, <2>2, QuietInv DEF Inv
<1>4. CASE envoy_binary(t)
  <2>1. Quiet(t)
    BY <1>1, <1>4, StepType, SetType
    DEF envoy_binary, Quiet, Move, State, Ended, tmp, Points, Before, FetchPoints
  <2>2. Fetching'
    BY <1>4, StepType
    DEF envoy_binary, Inv, Fetching, WholeBinary, Points, FetchPoints, fetched
  <2> QED
    BY <2>1, <2>2, QuietInv DEF Inv
<1>5. CASE Fetch(t) \/ Write(t) \/ Chmod(t) \/ Rename(t)
  <2>1. Quiet(t)
    BY <1>1, <1>5, StepType
    DEF Fetch, Write, Chmod, Rename, Quiet, Move, State, tmp, program, Points, Before,
        FetchPoints
  <2>2. Fetching'
    BY <1>5, StepType
    DEF Fetch, Write, Chmod, Rename, Inv, Fetching, WholeBinary, Points, FetchPoints, program
  <2> QED
    BY <2>1, <2>2, QuietInv DEF Inv
<1>6. CASE FetchFails(t)
  <2>1. PICK point \in FetchPoints : Step(t, point, "Done")
    BY <1>6 DEF FetchFails, FetchPoints
  <2>2. Quiet(t)
    BY <1>1, <1>6, <2>1, StepType, SetType
    DEF FetchFails, Quiet, Move, State, Ended, tmp, Points, Before
  <2>3. Fetching'
    BY <1>6, <2>1, StepType
    DEF FetchFails, Inv, Fetching, WholeBinary, Points, FetchPoints, fetched
  <2> QED
    BY <2>2, <2>3, QuietInv DEF Inv
<1>7. CASE Exited(t) \/ TimesOut(t)
  <2>1. Quiet(t)
    BY <1>1, <1>7, StepType DEF Exited, TimesOut, Quiet, Move, State, tmp, program, Points
  <2>2. Fetching'
    BY <1>7, StepType, FetchElsewhere
    DEF Exited, TimesOut, Inv, Points, FetchPoints, fetched, program
  <2> QED
    BY <2>1, <2>2, QuietInv DEF Inv
<1>8. CASE Request(t)
  <2>1. Quiet(t)
    BY <1>1, <1>8, StepType DEF Request, Quiet, Move, State, tmp, Points
  <2>2. Fetching'
    BY <1>1, <1>8, StepType, FetchElsewhere
    DEF Request, Inv, Points, FetchPoints, After, fetched
  <2> QED
    BY <2>1, <2>2, QuietInv DEF Inv
<1> QED
  BY <1>3, <1>4, <1>5, <1>6, <1>7, <1>8, <1>9

\* A spawn that fails keeps the invariant.
LEMMA SpawnFails ==
    ASSUME TypeOK, Inv, NEW t \in Tests, Step(t, "Spawn", "Done"), Set(t, Ended(t)),
           UNCHANGED <<fetched, tmp, envoy, lazy, counter, pids>>
    PROVE  Inv'
<1>1. suite[t] \in Servers /\ Ended(t) \in ServerStates
  BY DEF TypeOK, ProcessType, Ended, ServerStates
<1>2. Quiet(t)
  BY <1>1, StepType, SetType DEF Quiet, Move, State, Ended, tmp, Points, Before
<1>3. Fetching'
  BY StepType, FetchElsewhere DEF Inv, Points, FetchPoints, fetched
<1> QED
  BY <1>2, <1>3, QuietInv DEF Inv

\* The invariant holds in every initial state ...
LEMMA InvInit ==
    ASSUME Init
    PROVE  Inv
<1>1. /\ \A t \in Tests : pc[t] = "Idle" /\ suite[t] \in Servers /\ State(t) = "Unborn"
      /\ \A s \in Servers : server[s].state = "Unborn"
      /\ \A t, u \in Tests : t # u /\ suite[t] = suite[u] => suite[t] \in Statics
  BY HarnessAssumption DEF Init, Idle, Unborn, State
<1>2. \A e \in Envoys : envoy[e].state = "None"
  BY DEF Init, NotSpawned
<1>3. Fetching /\ Memory /\ Life /\ Sharing
  BY <1>1
  DEF Init, Fetching, WholeBinary, Memory, Life, Sharing, Deciding, Before, FetchPoints
<1>4. Naming /\ Files /\ OwnEnvoy /\ NoSurvivors
  BY <1>1 DEF Init, Naming, Staged, Files, OwnEnvoy, NoSurvivors
<1>5. Spawning
  <2>1. ASSUME NEW s \in Servers PROVE Envoy(s).state = "None"
    <3>1. <<proc, s>> \in Envoys
      BY HarnessAssumption DEF Init, Envoys
    <3> QED
      BY <1>2, <3>1 DEF Envoy
  <2> QED
    BY <1>1, <1>2, <2>1 DEF Spawning, Spawned
<1>6. Usage
  BY <1>1, HarnessAssumption DEF Usage, Using, Before, FetchPoints
<1> QED
  BY <1>3, <1>4, <1>5, <1>6 DEF Inv, Rest

\* ... and every step keeps it.
LEMMA InvStep ==
    ASSUME TypeOK, Inv, [Next]_vars
    PROVE  Inv'
<1>1. ASSUME NEW t \in Tests, TestStep(t) PROVE Inv'
  <2>1. CASE Spawn(t)
    <3>1. CASE Step(t, "Spawn", "Await") /\ UNCHANGED server
      BY <2>1, <3>1, SpawnInv, StepType DEF Spawn, Points
    <3>2. CASE Step(t, "Spawn", "Done") /\ Set(t, Ended(t)) /\ UNCHANGED <<envoy, pids>>
      BY <2>1, <3>2, SpawnFails DEF Spawn
    <3> QED
      BY <2>1, <3>1, <3>2 DEF Spawn
  <2> QED
    BY <1>1, <2>1, StageInv, ReadyInv, DropInv, WaitInv, QuietSteps DEF TestStep
<1>2. CASE UNCHANGED vars
  BY <1>2
  DEF vars, fetched, tmp, program, Inv, Rest, Fetching, WholeBinary, Memory, Life, State, Sharing,
      Naming, Staged, Spawning, Spawned, Envoy, Registered, Files, Usage, Kept, HasDir, OwnEnvoy,
      NoSurvivors, unique_tmp
<1> QED
  BY <1>1, <1>2, ExitInv, KillInv, RestartInv, EnvoyInv DEF Next

-----------------------------------------------------------------------------
(* The theorems. *)

\* The invariant holds throughout.
THEOREM Invariance == Spec => []Inv
<1>1. Init => Inv
  BY InvInit
<1>2. TypeOK /\ Inv /\ [Next]_vars => Inv'
  BY InvStep
<1> QED
  BY <1>1, <1>2, TypeCorrect, PTL DEF Spec

\* What envoy_binary hands out is whole and executable, wherever earlier processes
\* were killed and however often the fetch has failed.
THEOREM SpawnsWholeBinary == Spec => []WholeBinary
<1>1. Inv => WholeBinary
  BY DEF Inv, Fetching
<1> QED
  BY <1>1, Invariance, PTL

\* kill_spawned leaves no Envoy of a process that exits, for any suite of tests.
THEOREM LeavesNoSurvivors == Spec => []NoSurvivors
<1>1. Inv => NoSurvivors
  BY DEF Inv, Rest
<1> QED
  BY <1>1, Invariance, PTL

\* The address that await_ready finds is that of the server's own Envoy, for any
\* number of servers and of processes that were killed before.
THEOREM TalksToOwnEnvoy == Spec => []OwnEnvoy
<1>1. Inv => OwnEnvoy
  BY DEF Inv, Rest
<1> QED
  BY <1>1, Invariance, PTL

\* A test's Envoy is not stopped, nor its module directory removed, by any test of
\* any suite that uses statics as HarnessAssumption says.
THEOREM LeavesUsedServers == Spec => []InUseUntouched
<1>1. Inv => InUseUntouched
  BY DEF Inv, Rest, Usage, Using, Kept, HasDir, Envoy, Untold, InUseUntouched, Own
<1> QED
  BY <1>1, Invariance, PTL
=============================================================================
