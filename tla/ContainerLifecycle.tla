-------------------------- MODULE ContainerLifecycle --------------------------
(***************************************************************************)
(* The container commands of the runcell CLI                               *)
(* (src/crate/cli/src/container_cmd.rs) against the host they act on: the  *)
(* process table, the per-container state record, bundle directory,        *)
(* extracted rootfs and cgroup directories.                                 *)
(*                                                                         *)
(* Each command is its own CLI invocation; one runs at a time (a user's    *)
(* shell), but the host does not stop while it runs: processes exit and    *)
(* unrelated processes are started, taking freed PIDs.  delete and exec    *)
(* look a PID up and act on it later, so those commands take two steps.    *)
(* LinuxContainer, load_container_state, is_process_running and the image  *)
(* store are not in this source tree; they are modelled from the spec.     *)
(***************************************************************************)
EXTENDS Naturals

CONSTANTS
  Ids,       \* container ids
  Pids,      \* PIDs of the host (model values)
  MaxClock,  \* bound on process start times (the clock of the host)
  Foreign,   \* TRUE: processes other than containers take PIDs
  Faults     \* the failures this run lets happen

\* start: LinuxContainer::new or run_container fails; rmbundle, rmstate,
\* rmimage: a removal of delete fails.
FaultKinds == {"start", "rmbundle", "rmstate", "rmimage"}

ASSUME LifecycleAssumption ==
  /\ MaxClock \in Nat
  /\ Foreign \in BOOLEAN
  /\ Faults \subseteq FaultKinds
  /\ 0 \notin Pids

VARIABLES
  proc,    \* proc[p]: the process at PID p: its owner, its start time and
           \* whether a SIGKILL is pending on it (it has not exited yet)
  clock,   \* start time the next process gets
  state,   \* state[i]: the persisted state record of container i
  bundle,  \* bundle[i]: <BUNDLE_BASE>/<i> with its config.json exists
  rootfs,  \* rootfs[i]: the image store holds an extracted rootfs for i
  cgroup,  \* cgroup[i]: cgroup directories of container i exist
  cli      \* the CLI command in progress

vars == <<proc, clock, state, bundle, rootfs, cgroup, cli>>

NoOwner == "none"
Other == "other"
Owners == Ids \cup {Other, NoOwner}
Free == [owner |-> NoOwner, start |-> 0, killed |-> FALSE]

\* Container ids are distinct from the two other owners of a PID.
ASSUME OwnersAssumption == Ids \cap {Other, NoOwner} = {}

\* A missing state.json; a present one records the init PID and its start.
Absent == [present |-> FALSE, pid |-> 0, start |-> 0]
States == {Absent} \cup [present: {TRUE}, pid: Pids, start: 1..MaxClock]

Idle == [cmd |-> "idle", id |-> NoOwner, step |-> "none", pid |-> 0]
Clis == {Idle} \cup [cmd: {"delete"}, id: Ids, step: {"kill", "cleanup"},
                     pid: Pids \cup {0}]
                \cup [cmd: {"exec"}, id: Ids, step: {"enter"}, pid: Pids]

Procs == [owner: Owners, start: 0..MaxClock, killed: BOOLEAN]

TypeOK ==
  /\ proc \in [Pids -> Procs]
  /\ clock \in 0..MaxClock
  /\ state \in [Ids -> States]
  /\ bundle \in [Ids -> BOOLEAN]
  /\ rootfs \in [Ids -> BOOLEAN]
  /\ cgroup \in [Ids -> BOOLEAN]
  /\ cli \in Clis

Init ==
  /\ proc = [p \in Pids |-> Free]
  /\ clock = 0
  /\ state = [i \in Ids |-> Absent]
  /\ bundle = [i \in Ids |-> FALSE]
  /\ rootfs = [i \in Ids |-> FALSE]
  /\ cgroup = [i \in Ids |-> FALSE]
  /\ cli = Idle

\* is_process_running(pid): kill(pid, 0) succeeds, whoever holds the PID.
is_process_running(p) == p \in Pids /\ proc[p].owner # NoOwner

-----------------------------------------------------------------------------
(* The host.                                                               *)

\* A process exits (the workload ends, it is killed from outside, or a
\* SIGKILL sent to it takes effect, however long after it was sent).
ProcessExit(p) ==
  /\ proc[p].owner # NoOwner
  /\ proc' = [proc EXCEPT ![p] = Free]
  /\ UNCHANGED <<clock, state, bundle, rootfs, cgroup, cli>>

\* A process that is no container's takes a free PID.
ForeignSpawn(p) ==
  /\ Foreign
  /\ proc[p].owner = NoOwner /\ clock < MaxClock
  /\ proc' = [proc EXCEPT ![p] = [owner |-> Other, start |-> clock + 1,
                                       killed |-> FALSE]]
  /\ clock' = clock + 1
  /\ UNCHANGED <<state, bundle, rootfs, cgroup, cli>>

-----------------------------------------------------------------------------
(* The commands.                                                           *)

\* create_container (lines 83-111): create_dir_all on the bundle and save
\* config.json; an existing bundle is overwritten, nothing is checked.
CreateContainer(i) ==
  /\ cli = Idle
  /\ bundle' = [bundle EXCEPT ![i] = TRUE]
  /\ UNCHANGED <<proc, clock, state, rootfs, cgroup, cli>>

\* run_container (lines 114-209): pull and extract the image, write the
\* bundle, then LinuxContainer::new and run_container.  A failed pull
\* changes nothing (no action); a failure after it returns through `?`
\* with the rootfs and bundle left in place.  LinuxContainer::new refuses an id that has a
\* state record (spec: create twice fails); a failed start removes its own
\* cgroup, state and child (spec: the coordinator's cleanup path).  A
\* successful start has an init process at a free PID, its cgroup, and a
\* state record with the PID and its start time.
RunStartFails(i) ==
  /\ cli = Idle
  /\ "start" \in Faults \/ state[i].present
  /\ rootfs' = [rootfs EXCEPT ![i] = TRUE]
  /\ bundle' = [bundle EXCEPT ![i] = TRUE]
  /\ UNCHANGED <<proc, clock, state, cgroup, cli>>

RunStarts(i) ==
  /\ cli = Idle /\ ~state[i].present /\ clock < MaxClock
  /\ \E p \in Pids :
       /\ proc[p].owner = NoOwner
       /\ proc' = [proc EXCEPT ![p] = [owner |-> i, start |-> clock + 1,
                                        killed |-> FALSE]]
       /\ state' = [state EXCEPT ![i] = [present |-> TRUE, pid |-> p,
                                           start |-> clock + 1]]
  /\ clock' = clock + 1
  /\ rootfs' = [rootfs EXCEPT ![i] = TRUE]
  /\ bundle' = [bundle EXCEPT ![i] = TRUE]
  /\ cgroup' = [cgroup EXCEPT ![i] = TRUE]
  /\ UNCHANGED cli

RunContainer(i) == RunStartFails(i) \/ RunStarts(i)

\* delete_container, lines 231-262: load state.json; if the init PID is
\* positive and a process answers on it, go and SIGKILL it; otherwise go
\* straight to the cleanup.
\* Mutant: the liveness test is inverted.
DeleteLoadInverted(i) ==
  /\ cli = Idle
  /\ cli' = IF state[i].present /\ ~is_process_running(state[i].pid)
              THEN [cmd |-> "delete", id |-> i, step |-> "kill",
                    pid |-> state[i].pid]
              ELSE [cmd |-> "delete", id |-> i, step |-> "cleanup", pid |-> 0]
  /\ UNCHANGED <<proc, clock, state, bundle, rootfs, cgroup>>

DeleteLoad(i) ==
  /\ cli = Idle
  /\ cli' = IF state[i].present /\ is_process_running(state[i].pid)
              THEN [cmd |-> "delete", id |-> i, step |-> "kill",
                    pid |-> state[i].pid]
              ELSE [cmd |-> "delete", id |-> i, step |-> "cleanup", pid |-> 0]
  /\ UNCHANGED <<proc, clock, state, bundle, rootfs, cgroup>>

\* Lines 238-251: SIGKILL whatever holds the PID now (ESRCH if nothing
\* does, logged and ignored), then the 100 ms sleep, whose end nothing
\* checks: the process dies when the signal takes effect (ProcessExit),
\* before or after delete goes on.
DeleteKill ==
  /\ cli.cmd = "delete" /\ cli.step = "kill"
  /\ proc' = IF proc[cli.pid].owner = NoOwner THEN proc
             ELSE [proc EXCEPT ![cli.pid].killed = TRUE]
  /\ cli' = [cli EXCEPT !.step = "cleanup"]
  /\ UNCHANGED <<clock, state, bundle, rootfs, cgroup>>

\* Lines 264-283: remove the bundle, then the state directory, then the
\* rootfs (cleanup_image); the first removal that fails ends the command.
\* The cgroup directories are not touched.
DeleteCleanup ==
  /\ cli.cmd = "delete" /\ cli.step = "cleanup"
  /\ LET i == cli.id IN
       \/ /\ "rmbundle" \in Faults /\ bundle[i]
          /\ UNCHANGED <<bundle, state, rootfs>>
       \/ /\ "rmstate" \in Faults /\ state[i].present
          /\ bundle' = [bundle EXCEPT ![i] = FALSE]
          /\ UNCHANGED <<state, rootfs>>
       \/ /\ "rmimage" \in Faults
          /\ bundle' = [bundle EXCEPT ![i] = FALSE]
          /\ state' = [state EXCEPT ![i] = Absent]
          /\ UNCHANGED rootfs
       \/ /\ bundle' = [bundle EXCEPT ![i] = FALSE]
          /\ state' = [state EXCEPT ![i] = Absent]
          /\ rootfs' = [rootfs EXCEPT ![i] = FALSE]
  /\ cli' = Idle
  /\ UNCHANGED <<proc, clock, cgroup>>

\* exec_in_container, lines 430-444: load state.json (an error if it is
\* missing) and refuse unless a process answers on the init PID.
ExecLoad(i) ==
  /\ cli = Idle
  /\ IF state[i].present /\ is_process_running(state[i].pid)
       THEN cli' = [cmd |-> "exec", id |-> i, step |-> "enter",
                    pid |-> state[i].pid]
       ELSE UNCHANGED cli
  /\ UNCHANGED <<proc, clock, state, bundle, rootfs, cgroup>>

\* Lines 446-481: nsenter --target=<pid> joins the namespaces of whatever
\* holds the PID now (it fails if nothing does) and runs the command.
ExecEnter ==
  /\ cli.cmd = "exec"
  /\ cli' = Idle
  /\ UNCHANGED <<proc, clock, state, bundle, rootfs, cgroup>>

\* list_containers (lines 315-373): a container is shown Running when a
\* process answers on its recorded PID.
ListStatus(i) ==
  IF state[i].present /\ is_process_running(state[i].pid)
    THEN "Running" ELSE "Stopped"

Next ==
  \/ \E p \in Pids : ProcessExit(p) \/ ForeignSpawn(p)
  \/ \E i \in Ids : \/ CreateContainer(i) \/ RunContainer(i)
                    \/ DeleteLoad(i) \/ ExecLoad(i)
  \/ DeleteKill \/ DeleteCleanup \/ ExecEnter

Spec == Init /\ [][Next]_vars

-----------------------------------------------------------------------------
(* Properties                                                              *)

\* The process at a PID is container i's init process as recorded.
OwnInit(i, p) ==
  proc[p].owner = i /\ proc[p].start = state[i].start

\* A container's process outlives its state record only once delete has
\* sent it SIGKILL: every container process no SIGKILL is pending on is
\* the init that state.json records, so list, exec and delete can still
\* find it.  (delete does not wait for the death, which the spec allows:
\* "if still alive, it returns success anyway".)
OrphansKilled ==
  \A p \in Pids : proc[p].owner \in Ids /\ ~proc[p].killed =>
                    LET i == proc[p].owner IN
                      state[i].present /\ state[i].pid = p
                      /\ state[i].start = proc[p].start

\* The process a command acts on through the recorded PID is the
\* container's own init process, or nobody.
TargetsOwn ==
  /\ proc[cli.pid].owner \in {cli.id, NoOwner}
  /\ proc[cli.pid].owner = cli.id => proc[cli.pid].start = state[cli.id].start

\* delete SIGKILLs, and exec enters the namespaces of, only the container's
\* own init process: the two commands that act on the PID of state.json
\* after checking it (spec: the init PID designates a live process only
\* with the recorded start time).
ActsOnOwnInit ==
  [][\/ cli.cmd = "delete" /\ cli.step = "kill" /\ DeleteKill
     \/ cli.cmd = "exec" /\ ExecEnter
     => TargetsOwn]_vars

\* list shows a container Running only while its own init process runs
\* (spec: a different start time means Stopped).
ListAccurate ==
  \A i \in Ids : ListStatus(i) = "Running" => OwnInit(i, state[i].pid)

\* A container's cgroup directories exist only while it has a state record
\* (spec: delete calls destroy() on the cgroup manager).
CgroupsReleased ==
  \A i \in Ids : cgroup[i] => state[i].present

\* A failed start leaves no bundle behind for an id that had none (spec:
\* after any failed start no bundle files of that id remain).
CleanupAfterFailedStart ==
  [][\A i \in Ids : RunStartFails(i) /\ ~bundle[i] => ~bundle'[i]]_vars

=============================================================================
