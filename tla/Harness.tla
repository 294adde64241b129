------------------------------ MODULE Harness -------------------------------
(***************************************************************************)
(* The integration test harness: crates/envoy-files-itest/src/lib.rs and   *)
(* envoy.rs.                                                               *)
(*                                                                         *)
(* A test process runs its tests in threads of their own.  Each test uses  *)
(* a server: one that it owns and drops, or one in a static that the first *)
(* test to need it starts and nobody drops.  The first server to start     *)
(* fetches Envoy into a directory that outlives the process.  A process    *)
(* may be killed at any step; another follows.  Envoys are external: they  *)
(* come up or not, crash, hang, and outlive a process that is killed.      *)
(***************************************************************************)
EXTENDS Integers, FiniteSets

CONSTANTS
    Tests,
    Servers,
    Suites,        \* test binaries: the server that each test uses
    Statics,       \* servers held in a static
    Forced,        \* servers that are stopped with SIGKILL
    Attempts,      \* attempts of a request (3 in the code)
    MaxProcesses,  \* bound: test processes, one after the other
    MaxFaults      \* bound: Envoys that crash or hang

ASSUME HarnessAssumption ==
    /\ Suites \subseteq [Tests -> Servers]
    /\ Statics \subseteq Servers /\ Forced \subseteq Servers
    /\ \A suite \in Suites, t, u \in Tests :
          (t # u /\ suite[t] = suite[u]) => suite[t] \in Statics
    /\ Attempts \in Nat \ {0}
    /\ MaxProcesses \in Nat \ {0} /\ MaxFaults \in Nat

VARIABLES
    binary,    \* on disk: the cached Envoy
    partial,   \* on disk: .envoy.partial
    files,     \* on disk: admin address files
    dirs,      \* on disk: module directories
    envoy,     \* all Envoys ever spawned, by process and server
    faults,    \* Envoys that crashed or hung
    proc,      \* the current test process
    suite,     \* the test binary
    run,       \* "Running", "Exited" by itself, or "Killed"
    lazy,      \* BINARY, the LazyLock of envoy_binary
    counter,   \* COUNTER of unique_tmp
    pids,      \* SPAWNED_PIDS
    server,    \* state, module directory and address of each EnvoyServer
    pc,        \* where each test is
    attempts   \* attempts of each test's request

fetched == <<binary, partial>>
tmp == <<files, dirs>>
program == <<lazy, counter, pids, server, attempts>>
vars == <<fetched, tmp, envoy, faults, proc, suite, run, program, pc>>

Envoys == (1 .. MaxProcesses) \X Servers
Images == {"Absent", "Half", "Whole", "Executable"}
Alive == {"Starting", "Admin", "Listening", "Hung", "Terminating"}

NotSpawned == [state |-> "None", admin |-> 0]

Unborn == [s \in Servers |-> [state |-> "Unborn", dir |-> 0, address |-> <<0, s>>]]
Idle == [t \in Tests |-> "Idle"]

Init ==
    /\ binary = "Absent" /\ partial = "Absent" /\ files = {} /\ dirs = {}
    /\ envoy = [e \in Envoys |-> NotSpawned]
    /\ faults = 0
    /\ proc = 1 /\ suite \in Suites /\ run = "Running"
    /\ lazy = "Unset" /\ counter = 0 /\ pids = {}
    /\ server = Unborn /\ pc = Idle /\ attempts = [t \in Tests |-> 0]

Own(t) == <<proc, suite[t]>>

\* A test's thread goes from one point to another.
Step(t, from, to) ==
    /\ run = "Running" /\ pc[t] = from
    /\ pc' = [pc EXCEPT ![t] = to]
    /\ UNCHANGED <<faults, proc, suite, run>>

State(t) == server[suite[t]].state
Set(t, state) == server' = [server EXCEPT ![suite[t]].state = state]

\* What a server that a panic or a drop has ended leaves to other tests.
Ended(t) == IF suite[t] \in Statics THEN "Poisoned" ELSE "Dropped"

-----------------------------------------------------------------------------
(* start and fetch_envoy. *)

\* A test gets hold of its server; while another starts it, the test waits.
Begin(t) ==
    /\ \/ State(t) = "Unborn" /\ Step(t, "Idle", "Stage") /\ Set(t, "Starting")
       \/ State(t) = "Up" /\ Step(t, "Idle", "Request") /\ UNCHANGED server
       \/ State(t) = "Poisoned" /\ Step(t, "Idle", "Done") /\ UNCHANGED server
    /\ UNCHANGED <<fetched, tmp, envoy, lazy, counter, pids, attempts>>

\* Mutant: names are made of the process id only.
unique_tmp_by_process(pid, n) == <<pid, 0>>

\* unique_tmp: a name that no other call of this process gets.
unique_tmp(pid, n) == <<pid, n>>

\* The module is staged in a directory of its own.
Stage(t) ==
    /\ Step(t, "Stage", "Binary")
    /\ server' = [server EXCEPT ![suite[t]].dir = counter]
    /\ counter' = counter + 2
    /\ dirs' = dirs \cup {unique_tmp(proc, counter)}
    /\ UNCHANGED <<fetched, files, envoy, lazy, pids, attempts>>

\* Or the module cannot be staged; what there is of the directory stays.
StageFails(t) ==
    /\ Step(t, "Binary", "Done")
    /\ Set(t, Ended(t))
    /\ UNCHANGED <<fetched, tmp, envoy, lazy, counter, pids, attempts>>

\* envoy_binary: the first caller fetches, others wait for it.
envoy_binary(t) ==
    /\ \/ /\ Step(t, "Binary", "Spawn")
          /\ lazy = "Set" \/ (lazy = "Unset" /\ binary # "Absent")
          /\ lazy' = "Set"
          /\ UNCHANGED server
       \/ /\ Step(t, "Binary", "Fetch")
          /\ lazy = "Unset" /\ binary = "Absent"
          /\ lazy' = "Fetching"
          /\ UNCHANGED server
       \/ /\ Step(t, "Binary", "Done")
          /\ lazy = "Poisoned"
          /\ Set(t, Ended(t))
          /\ UNCHANGED lazy
    /\ UNCHANGED <<fetched, tmp, envoy, counter, pids, attempts>>

\* The download and the wheel are read into memory; fs::write opens the file.
Fetch(t) ==
    /\ Step(t, "Fetch", "Write")
    /\ partial' = "Half"
    /\ UNCHANGED <<binary, tmp, envoy, program>>

\* fs::write ends.
Write(t) ==
    /\ Step(t, "Write", "Chmod")
    /\ partial' = "Whole"
    /\ UNCHANGED <<binary, tmp, envoy, program>>

\* Mutant: the file gets its name first and its permissions afterwards.
ChmodAfterRename(t) ==
    /\ Step(t, "Chmod", "Rename")
    /\ binary' = partial /\ partial' = "Executable"
    /\ UNCHANGED <<tmp, envoy, program>>

Chmod(t) ==
    /\ Step(t, "Chmod", "Rename")
    /\ partial' = "Executable"
    /\ UNCHANGED <<binary, tmp, envoy, program>>

Rename(t) ==
    /\ Step(t, "Rename", "Spawn")
    /\ binary' = partial /\ partial' = "Absent"
    /\ lazy' = "Set"
    /\ UNCHANGED <<tmp, envoy, counter, pids, server, attempts>>

\* Any step of the fetch may fail, and poisons the lock.
FetchFails(t) ==
    /\ \E point \in {"Fetch", "Write", "Chmod", "Rename"} : Step(t, point, "Done")
    /\ lazy' = "Poisoned"
    /\ Set(t, Ended(t))
    /\ UNCHANGED <<fetched, tmp, envoy, counter, pids, attempts>>

\* Mutant: only a server that will be dropped is registered.
register_for_cleanup_owned(e) == IF e[2] \in Statics THEN pids ELSE pids \cup {e}

\* register_for_cleanup.
register_for_cleanup(e) == pids \cup {e}

\* Envoy is spawned and registered, or cannot be spawned.
Spawn(t) ==
    /\ \/ /\ Step(t, "Spawn", "Await")
          /\ envoy' = [envoy EXCEPT ![Own(t)] =
                          [state |-> "Starting", admin |-> server[suite[t]].dir + 1]]
          /\ pids' = register_for_cleanup(Own(t))
          /\ UNCHANGED server
       \/ Step(t, "Spawn", "Done") /\ Set(t, Ended(t)) /\ UNCHANGED <<envoy, pids>>
    /\ UNCHANGED <<fetched, tmp, lazy, counter, attempts>>

-----------------------------------------------------------------------------
(* await_ready, request and drop. *)

\* discover_port: the admin interface answers, and the listener has its port.
discover_port(e) == envoy[e].state = "Listening"

\* await_ready finds the admin address in the server's file, and the port.
Ready(t) ==
    /\ Step(t, "Await", "Request")
    /\ \E f \in files :
          /\ f.name = unique_tmp(proc, server[suite[t]].dir + 1)
          /\ discover_port(f.of)
          /\ server' = [server EXCEPT ![suite[t]].state = "Up", ![suite[t]].address = f.of]
          /\ files' = files \ {f}
    /\ UNCHANGED <<fetched, dirs, envoy, lazy, counter, pids, attempts>>

\* await_ready panics because Envoy has exited, and the server is dropped.
Exited(t) ==
    /\ Step(t, "Await", "Drop")
    /\ envoy[Own(t)].state = "Crashed"
    /\ UNCHANGED <<fetched, tmp, envoy, program>>

\* Mutant: the loop has no deadline.
NeverTimesOut(t) == FALSE

\* await_ready panics because its deadline has passed, and the server is dropped.
TimesOut(t) == Step(t, "Await", "Drop") /\ UNCHANGED <<fetched, tmp, envoy, program>>

\* Mutant: who is done with a server drops it.
AfterDrops(t) == "Drop"

\* The end of a test, passed or failed, drops the server that it owns.
After(t) == IF suite[t] \in Statics THEN "Done" ELSE "Drop"

LastAttempt(t) == attempts[t] + 1 = Attempts

\* request: the end of one attempt, which Envoy answers or a transport error ends;
\* the last error makes the test fail.  The agent has no timeout: an attempt at an
\* Envoy that hangs need not end (see Waiting).
Request(t) ==
    /\ \/ /\ Step(t, "Request", After(t))
          /\ discover_port(server[suite[t]].address) \/ LastAttempt(t)
          /\ attempts' = [attempts EXCEPT ![t] = 0]
       \/ /\ Step(t, "Request", "Request")
          /\ ~LastAttempt(t)
          /\ attempts' = [attempts EXCEPT ![t] = @ + 1]
    /\ UNCHANGED <<fetched, tmp, envoy, lazy, counter, pids, server>>

\* Drop signals the process ...
Drop(t) ==
    /\ Step(t, "Drop", "Wait")
    /\ envoy' = [envoy EXCEPT ![Own(t)].state =
                    IF @ \notin Alive THEN @
                    ELSE IF suite[t] \in Forced THEN "Dead" ELSE "Terminating"]
    /\ UNCHANGED <<fetched, tmp, program>>

\* ... waits for it and removes its directory.
Wait(t) ==
    /\ Step(t, "Wait", "Done")
    /\ envoy[Own(t)].state \notin Alive
    /\ dirs' = dirs \ {unique_tmp(proc, server[suite[t]].dir)}
    /\ Set(t, Ended(t))
    /\ UNCHANGED <<fetched, files, envoy, lazy, counter, pids, attempts>>

-----------------------------------------------------------------------------
(* Processes. *)

\* The memory of a process ends with it.
Forget ==
    /\ lazy' = "Unset" /\ counter' = 0 /\ pids' = {}
    /\ server' = Unborn /\ pc' = Idle /\ attempts' = [t \in Tests |-> 0]

\* main returns when all tests have; kill_spawned runs at exit.
Exit ==
    /\ run = "Running" /\ \A t \in Tests : pc[t] = "Done"
    /\ run' = "Exited" /\ Forget
    /\ envoy' = [e \in Envoys |-> IF e \in pids /\ envoy[e].state \in Alive
                                  THEN [envoy[e] EXCEPT !.state = "Dead"] ELSE envoy[e]]
    /\ UNCHANGED <<fetched, tmp, faults, proc, suite>>

\* The test process is killed (external).
Kill ==
    /\ run = "Running" /\ run' = "Killed" /\ Forget
    /\ UNCHANGED <<fetched, tmp, envoy, faults, proc, suite>>

\* The next test process, of the same binary.
Restart ==
    /\ run # "Running" /\ proc < MaxProcesses
    /\ proc' = proc + 1 /\ run' = "Running"
    /\ UNCHANGED <<fetched, tmp, envoy, faults, suite, program, pc>>

Becomes(e, from, to) ==
    /\ envoy[e].state \in from
    /\ envoy' = [envoy EXCEPT ![e].state = to]
    /\ UNCHANGED <<fetched, dirs, proc, suite, run, program, pc>>

\* Envoy (external): writes its admin address, ...
Boot(e) ==
    LET name == unique_tmp(e[1], envoy[e].admin) IN
    /\ Becomes(e, {"Starting"}, "Admin")
    /\ files' = {f \in files : f.name # name} \cup {[name |-> name, of |-> e]}
    /\ UNCHANGED faults

\* ... opens its listener, ...
Listen(e) == Becomes(e, {"Admin"}, "Listening") /\ UNCHANGED <<files, faults>>

\* ... hangs, for as long as it lives: it takes connections and does not answer, ...
Hang(e) ==
    /\ faults < MaxFaults /\ faults' = faults + 1
    /\ Becomes(e, {"Admin", "Listening", "Terminating"}, "Hung")
    /\ UNCHANGED files

\* ... ends by itself ...
Crash(e) ==
    /\ faults < MaxFaults /\ faults' = faults + 1
    /\ Becomes(e, Alive, "Crashed")
    /\ UNCHANGED files

\* ... or because it was told to.
Terminate(e) == Becomes(e, {"Terminating"}, "Dead") /\ UNCHANGED <<files, faults>>

TestStep(t) ==
    \/ Begin(t) \/ Stage(t) \/ StageFails(t) \/ envoy_binary(t) \/ Fetch(t) \/ FetchFails(t)
    \/ Write(t) \/ Chmod(t) \/ Rename(t) \/ Spawn(t) \/ Ready(t) \/ Exited(t) \/ TimesOut(t)
    \/ Request(t) \/ Drop(t) \/ Wait(t)

Next ==
    \/ \E t \in Tests : TestStep(t)
    \/ Exit \/ Kill \/ Restart
    \/ \E e \in Envoys : Boot(e) \/ Listen(e) \/ Hang(e) \/ Crash(e) \/ Terminate(e)

\* A test is in a call that has no timeout and need not return: a download, an HTTP
\* call to an Envoy that hangs, or the wait for its exit.
Waiting(t) ==
    \/ pc[t] = "Fetch"
    \/ pc[t] \in {"Await", "Request", "Wait"} /\ envoy[Own(t)].state = "Hung"

\* The threads of the test process and the Envoys that it tells to terminate are
\* scheduled: one of them takes a step as long as one can.  Nothing is assumed of an
\* Envoy that starts or hangs, nor of calls that need not return.
Fairness ==
    WF_vars(\/ \E t \in Tests : ~Waiting(t) /\ TestStep(t)
            \/ Exit
            \/ \E e \in Envoys : Terminate(e))

Spec == Init /\ [][Next]_vars /\ Fairness

-----------------------------------------------------------------------------
(* Properties. *)

\* What is spawned is a whole, executable Envoy, also when an earlier process
\* was killed, or failed, anywhere in fetch_envoy.
WholeBinary == lazy = "Set" => binary = "Executable"

\* No Envoy outlives a process that exits by itself: not one in a static, not
\* one that never came up, not one whose test failed.
NoSurvivors ==
    run = "Exited" => \A s \in Servers : envoy[<<proc, s>>].state \notin Alive

\* A test talks to the Envoy of its own server, whichever others were started at
\* the same time or are left over from a process that was killed.
OwnEnvoy == \A s \in Servers : server[s].state = "Up" => server[s].address = <<proc, s>>

\* The harness never stops an Envoy that a test is using, nor takes its module
\* directory away; it may only have crashed.
InUseUntouched ==
    run = "Running" =>
        \A t \in Tests : pc[t] \in {"Await", "Request"} =>
            /\ envoy[Own(t)].state \notin {"Terminating", "Dead"}
            /\ unique_tmp(proc, server[suite[t]].dir) \in dirs

\* Every test process ends, or waits in a call without a timeout for an Envoy that
\* hangs or for a download.  All that Envoys do short of that, not coming up, crashing
\* and resetting connections, is met by deadlines and retries.
ProcessEnds == []<>(run # "Running" \/ \E t \in Tests : Waiting(t))
=============================================================================
