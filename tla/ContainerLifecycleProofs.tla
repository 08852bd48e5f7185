------------------------ MODULE ContainerLifecycleProofs ------------------------
(***************************************************************************)
(* Proofs about the CLI container commands (module ContainerLifecycle),   *)
(* for every set of ids, PIDs, clock bound and faults.                     *)
(*                                                                         *)
(* OrphansKilled is not inductive by itself: a delete is two steps, the  *)
(* host acts between them, and its cleanup removes the state record on the *)
(* strength of what its first step saw.  The strengthening records what    *)
(* delete knows between its steps: while it is about to kill, the PID it   *)
(* holds is the one state.json records; once it is about to clean up,     *)
(* every process of the container has a SIGKILL pending.  Nothing can     *)
(* start one in between, because run needs the CLI to be idle.            *)
(***************************************************************************)
EXTENDS ContainerLifecycle, TLAPS

\* delete, about to kill, holds the PID the state record names.
KillTarget ==
  cli.cmd = "delete" /\ cli.step = "kill" =>
    state[cli.id].present /\ cli.pid = state[cli.id].pid

\* delete, about to remove the state record, leaves behind no process of
\* the container that it has not sent SIGKILL.
CleanupClear ==
  cli.cmd = "delete" /\ cli.step = "cleanup" =>
    \A p \in Pids : proc[p].owner = cli.id => proc[p].killed

IInv == TypeOK /\ OrphansKilled /\ KillTarget /\ CleanupClear

-----------------------------------------------------------------------------
(* Type correctness.                                                       *)

\* The values the actions write are of their types.
LEMMA FreeType == Free \in Procs
BY LifecycleAssumption DEF Free, Owners, Procs

LEMMA IdleType == Idle \in Clis
BY DEF Idle, Clis

\* A present state record names a PID of the host.
LEMMA PresentPid ==
  ASSUME NEW r \in States, r.present
  PROVE  r.pid \in Pids /\ r.start \in 1..MaxClock
<1>1. r # Absent
  BY DEF Absent
<1>2. r \in [present: {TRUE}, pid: Pids, start: 1..MaxClock]
  BY <1>1 DEF States
<1>3. QED
  BY <1>2

LEMMA InitType == Init => TypeOK
BY LifecycleAssumption, FreeType, IdleType DEF Init, TypeOK, Absent, States

LEMMA TypeStep == TypeOK /\ [Next]_vars => TypeOK'
<1> SUFFICES ASSUME TypeOK, [Next]_vars PROVE TypeOK'
  OBVIOUS
<1> USE LifecycleAssumption
<1>1. ASSUME NEW p \in Pids, ProcessExit(p) PROVE TypeOK'
  <2>1. proc' \in [Pids -> Procs]
    BY <1>1, FreeType DEF ProcessExit, TypeOK
  <2>2. QED
    BY <1>1, <2>1 DEF ProcessExit, TypeOK
<1>2. ASSUME NEW p \in Pids, ForeignSpawn(p) PROVE TypeOK'
  <2>1. clock + 1 \in 0..MaxClock /\ clock + 1 \in 1..MaxClock
    BY <1>2 DEF ForeignSpawn, TypeOK
  <2>2. proc' \in [Pids -> Procs]
    BY <1>2, <2>1 DEF ForeignSpawn, TypeOK, Owners, Procs
  <2>3. QED
    BY <1>2, <2>1, <2>2 DEF ForeignSpawn, TypeOK
<1>3. ASSUME NEW i \in Ids, CreateContainer(i) PROVE TypeOK'
  BY <1>3 DEF CreateContainer, TypeOK
<1>4. ASSUME NEW i \in Ids, RunStartFails(i) PROVE TypeOK'
  BY <1>4 DEF RunStartFails, TypeOK
<1>5. ASSUME NEW i \in Ids, RunStarts(i) PROVE TypeOK'
  <2>1. clock + 1 \in 0..MaxClock /\ clock + 1 \in 1..MaxClock
    BY <1>5 DEF RunStarts, TypeOK
  <2>2. PICK p \in Pids :
          /\ proc' = [proc EXCEPT ![p] = [owner |-> i, start |-> clock + 1,
                                          killed |-> FALSE]]
          /\ state' = [state EXCEPT ![i] = [present |-> TRUE, pid |-> p,
                                              start |-> clock + 1]]
    BY <1>5 DEF RunStarts
  <2>3. proc' \in [Pids -> Procs]
    BY <2>1, <2>2 DEF TypeOK, Owners, Procs
  <2>4. state' \in [Ids -> States]
    BY <2>1, <2>2 DEF TypeOK, States
  <2>5. QED
    BY <1>5, <2>1, <2>3, <2>4 DEF RunStarts, TypeOK
<1>6. ASSUME NEW i \in Ids, DeleteLoad(i) PROVE TypeOK'
  <2>1. state[i] \in States
    BY DEF TypeOK
  <2>2. cli' \in Clis
    <3>1. CASE state[i].present /\ is_process_running(state[i].pid)
      <4>1. state[i].pid \in Pids
        BY <3>1, <2>1, PresentPid
      <4>2. QED
        BY <1>6, <3>1, <4>1 DEF DeleteLoad, Clis
    <3>2. CASE ~(state[i].present /\ is_process_running(state[i].pid))
      BY <1>6, <3>2 DEF DeleteLoad, Clis
    <3>3. QED
      BY <3>1, <3>2
  <2>3. QED
    BY <1>6, <2>2 DEF DeleteLoad, TypeOK
<1>7. ASSUME NEW i \in Ids, ExecLoad(i) PROVE TypeOK'
  <2>1. state[i] \in States
    BY DEF TypeOK
  <2>2. cli' \in Clis
    <3>1. CASE state[i].present /\ is_process_running(state[i].pid)
      <4>1. state[i].pid \in Pids
        BY <3>1, <2>1, PresentPid
      <4>2. QED
        BY <1>7, <3>1, <4>1 DEF ExecLoad, Clis
    <3>2. CASE ~(state[i].present /\ is_process_running(state[i].pid))
      BY <1>7, <3>2 DEF ExecLoad, TypeOK
    <3>3. QED
      BY <3>1, <3>2
  <2>3. QED
    BY <1>7, <2>2 DEF ExecLoad, TypeOK
<1>8. CASE DeleteKill
  <2>1. cli \in [cmd: {"delete"}, id: Ids, step: {"kill", "cleanup"},
                  pid: Pids \cup {0}]
    BY <1>8 DEF DeleteKill, TypeOK, Clis, Idle
  <2>2. cli' \in Clis
    BY <1>8, <2>1 DEF DeleteKill, Clis
  <2>3. proc' \in [Pids -> Procs]
    BY <1>8, <2>1 DEF DeleteKill, TypeOK, Procs
  <2>4. QED
    BY <1>8, <2>2, <2>3 DEF DeleteKill, TypeOK
<1>9. CASE DeleteCleanup
  <2>1. cli.id \in Ids
    BY <1>9 DEF DeleteCleanup, TypeOK, Clis, Idle
  <2>2. Absent \in States
    BY DEF Absent, States
  <2>3. /\ state' \in {state, [state EXCEPT ![cli.id] = Absent]}
        /\ bundle' \in {bundle, [bundle EXCEPT ![cli.id] = FALSE]}
        /\ rootfs' \in {rootfs, [rootfs EXCEPT ![cli.id] = FALSE]}
        /\ cli' = Idle
        /\ UNCHANGED <<proc, clock, cgroup>>
    BY <1>9 DEF DeleteCleanup
  <2>4. state' \in [Ids -> States]
    BY <2>1, <2>2, <2>3 DEF TypeOK
  <2>5. bundle' \in [Ids -> BOOLEAN] /\ rootfs' \in [Ids -> BOOLEAN]
    BY <2>1, <2>3 DEF TypeOK
  <2>6. QED
    BY <2>3, <2>4, <2>5, IdleType DEF TypeOK
<1>10. CASE ExecEnter
  <2>1. cli' \in Clis
    BY <1>10, IdleType DEF ExecEnter
  <2>2. QED
    BY <1>10, <2>1 DEF ExecEnter, TypeOK
<1>11. CASE UNCHANGED vars
  BY <1>11 DEF vars, TypeOK
<1>12. QED
  BY <1>1, <1>2, <1>3, <1>4, <1>5, <1>6, <1>7, <1>8, <1>9, <1>10, <1>11
     DEF Next, RunContainer

\* Every reachable state of the CLI and the host is well typed.
THEOREM LifecycleTypeCorrect == Spec => []TypeOK
BY InitType, TypeStep, PTL DEF Spec

-----------------------------------------------------------------------------
(* The inductive invariant.                                                *)

\* What the CLI record of a command in progress holds.
LEMMA CliFacts ==
  ASSUME TypeOK
  PROVE  /\ cli.cmd = "delete" => cli.id \in Ids /\ cli.pid \in Pids \cup {0}
         /\ cli.cmd \in {"idle", "delete", "exec"}
<1>1. cli \in Clis
  BY DEF TypeOK
<1>2. QED
  BY <1>1 DEF Clis, Idle

\* A PID freed or taken by a foreign process belongs to no container.
LEMMA NotIds == NoOwner \notin Ids /\ Other \notin Ids
BY OwnersAssumption


LEMMA IInvStep == IInv /\ [Next]_vars => IInv'
<1> SUFFICES ASSUME IInv, [Next]_vars PROVE IInv'
  OBVIOUS
<1> USE NotIds
<1>0. TypeOK'
  BY TypeStep DEF IInv
<1>1. ASSUME NEW p \in Pids, ProcessExit(p)
      PROVE  OrphansKilled' /\ KillTarget' /\ CleanupClear'
  <2>1. \A q \in Pids : proc'[q] = IF q = p THEN Free ELSE proc[q]
    BY <1>1 DEF ProcessExit, IInv, TypeOK
  <2>2. OrphansKilled'
    BY <1>1, <2>1 DEF ProcessExit, IInv, OrphansKilled, Free
  <2>3. KillTarget'
    BY <1>1 DEF ProcessExit, IInv, KillTarget
  <2>4. CleanupClear'
    BY <1>1, <2>1, CliFacts DEF ProcessExit, IInv, CleanupClear, Free
  <2>5. QED
    BY <2>2, <2>3, <2>4
<1>2. ASSUME NEW p \in Pids, ForeignSpawn(p)
      PROVE  OrphansKilled' /\ KillTarget' /\ CleanupClear'
  <2>1. \A q \in Pids : proc'[q] = IF q = p THEN [owner |-> Other, start |-> clock + 1,
                                                  killed |-> FALSE]
                                             ELSE proc[q]
    BY <1>2 DEF ForeignSpawn, IInv, TypeOK
  <2>2. OrphansKilled'
    BY <1>2, <2>1 DEF ForeignSpawn, IInv, OrphansKilled
  <2>3. KillTarget'
    BY <1>2 DEF ForeignSpawn, IInv, KillTarget
  <2>4. CleanupClear'
    BY <1>2, <2>1, CliFacts DEF ForeignSpawn, IInv, CleanupClear
  <2>5. QED
    BY <2>2, <2>3, <2>4
<1>3. ASSUME NEW i \in Ids, CreateContainer(i) \/ RunStartFails(i)
      PROVE  OrphansKilled' /\ KillTarget' /\ CleanupClear'
  <2>1. UNCHANGED <<proc, state, cli>>
    BY <1>3 DEF CreateContainer, RunStartFails
  <2>2. QED
    BY <2>1 DEF IInv, OrphansKilled, KillTarget, CleanupClear
<1>4. ASSUME NEW i \in Ids, RunStarts(i)
      PROVE  OrphansKilled' /\ KillTarget' /\ CleanupClear'
  <2>1. PICK p \in Pids :
          /\ proc[p].owner = NoOwner
          /\ proc' = [proc EXCEPT ![p] = [owner |-> i, start |-> clock + 1,
                                          killed |-> FALSE]]
          /\ state' = [state EXCEPT ![i] = [present |-> TRUE, pid |-> p,
                                              start |-> clock + 1]]
    BY <1>4 DEF RunStarts
  \* Every earlier process of i was sent SIGKILL: i has no state record.
  <2>2. \A q \in Pids : proc[q].owner = i => proc[q].killed
    BY <1>4 DEF RunStarts, IInv, OrphansKilled
  <2>3. OrphansKilled'
    <3> SUFFICES ASSUME NEW q \in Pids, proc'[q].owner \in Ids, ~proc'[q].killed
                 PROVE  LET j == proc'[q].owner IN
                          state'[j].present /\ state'[j].pid = q
                          /\ state'[j].start = proc'[q].start
      BY DEF OrphansKilled
    <3>1. CASE q = p
      BY <2>1, <3>1 DEF IInv, TypeOK
    <3>2. CASE q # p
      <4>1. proc'[q] = proc[q]
        BY <2>1, <3>2 DEF IInv, TypeOK
      <4>2. proc[q].owner # i
        BY <2>2, <4>1
      <4>3. state'[proc[q].owner] = state[proc[q].owner]
        BY <2>1, <4>1, <4>2 DEF IInv, TypeOK
      <4>4. QED
        BY <4>1, <4>3 DEF IInv, OrphansKilled
    <3>3. QED
      BY <3>1, <3>2
  <2>4. cli' = Idle
    BY <1>4 DEF RunStarts
  <2>5. QED
    BY <2>3, <2>4 DEF KillTarget, CleanupClear, Idle
<1>5. ASSUME NEW i \in Ids, DeleteLoad(i)
      PROVE  OrphansKilled' /\ KillTarget' /\ CleanupClear'
  <2>1. UNCHANGED <<proc, state>>
    BY <1>5 DEF DeleteLoad
  <2>2. OrphansKilled'
    BY <2>1 DEF IInv, OrphansKilled
  <2>3. CASE state[i].present /\ is_process_running(state[i].pid)
    <3>1. cli' = [cmd |-> "delete", id |-> i, step |-> "kill", pid |-> state[i].pid]
      BY <1>5, <2>3 DEF DeleteLoad
    <3>2. QED
      BY <2>1, <2>2, <2>3, <3>1 DEF KillTarget, CleanupClear
  <2>4. CASE ~(state[i].present /\ is_process_running(state[i].pid))
    <3>1. cli' = [cmd |-> "delete", id |-> i, step |-> "cleanup", pid |-> 0]
      BY <1>5, <2>4 DEF DeleteLoad
    <3>2. ASSUME NEW q \in Pids, proc[q].owner = i, ~proc[q].killed PROVE FALSE
      <4>1. state[i].present /\ state[i].pid = q
        BY <3>2 DEF IInv, OrphansKilled
      <4>2. is_process_running(q)
        BY <3>2 DEF is_process_running
      <4>3. QED
        BY <2>4, <4>1, <4>2
    <3>3. QED
      BY <2>1, <2>2, <3>1, <3>2 DEF KillTarget, CleanupClear
  <2>5. QED
    BY <2>3, <2>4
<1>6. ASSUME NEW i \in Ids, ExecLoad(i)
      PROVE  OrphansKilled' /\ KillTarget' /\ CleanupClear'
  <2>1. UNCHANGED <<proc, state>> /\ cli'.cmd \in {"exec", "idle"}
    BY <1>6 DEF ExecLoad, Idle
  <2>2. QED
    BY <2>1 DEF IInv, OrphansKilled, KillTarget, CleanupClear
<1>7. CASE DeleteKill
  <2>1. cli.cmd = "delete" /\ cli.step = "kill"
    BY <1>7 DEF DeleteKill
  <2>2. /\ state[cli.id].present /\ cli.pid = state[cli.id].pid /\ cli.id \in Ids
        /\ cli.pid \in Pids
    BY <2>1, CliFacts, PresentPid DEF IInv, KillTarget, TypeOK
  \* SIGKILL marks the process at the PID, whoever it is; it is not gone.
  <2>3. \A q \in Pids : proc'[q] = IF q = cli.pid /\ proc[q].owner # NoOwner
                                     THEN [proc[q] EXCEPT !.killed = TRUE]
                                     ELSE proc[q]
    BY <1>7, <2>2 DEF DeleteKill, IInv, TypeOK
  <2>4. \A q \in Pids : proc'[q].owner = proc[q].owner
    BY <2>3 DEF IInv, TypeOK, Procs
  <2>5. OrphansKilled'
    <3> SUFFICES ASSUME NEW q \in Pids, proc'[q].owner \in Ids, ~proc'[q].killed
                 PROVE  LET j == proc'[q].owner IN
                          state[j].present /\ state[j].pid = q
                          /\ state[j].start = proc'[q].start
      BY <1>7 DEF OrphansKilled, DeleteKill
    <3>1. proc'[q] = proc[q]
      BY <2>3, <2>4 DEF IInv, TypeOK, Procs
    <3>2. QED
      BY <3>1 DEF IInv, OrphansKilled
  <2>6. KillTarget'
    BY <1>7 DEF DeleteKill, KillTarget
  <2>7. CleanupClear'
    <3> SUFFICES ASSUME NEW q \in Pids, proc'[q].owner = cli.id PROVE proc'[q].killed
      BY <1>7 DEF DeleteKill, CleanupClear
    <3>1. CASE q = cli.pid
      BY <2>2, <2>3, <2>4, <3>1 DEF IInv, TypeOK, Procs
    <3>2. CASE q # cli.pid
      <4>1. proc'[q] = proc[q]
        BY <2>3, <3>2
      <4>2. ~proc[q].killed => state[cli.id].pid = q
        BY <2>2, <4>1 DEF IInv, OrphansKilled
      <4>3. QED
        BY <2>2, <3>2, <4>1, <4>2
    <3>3. QED
      BY <3>1, <3>2
  <2>8. QED
    BY <1>0, <2>5, <2>6, <2>7 DEF IInv
<1>8. CASE DeleteCleanup
  <2>1. cli.cmd = "delete" /\ cli.step = "cleanup" /\ cli.id \in Ids
    BY <1>8, CliFacts DEF DeleteCleanup, IInv
  <2>2. /\ state' \in {state, [state EXCEPT ![cli.id] = Absent]}
        /\ cli' = Idle
        /\ UNCHANGED proc
    BY <1>8 DEF DeleteCleanup
  <2>3. OrphansKilled'
    <3> SUFFICES ASSUME NEW q \in Pids, proc'[q].owner \in Ids, ~proc'[q].killed
                 PROVE  LET j == proc'[q].owner IN
                          state'[j].present /\ state'[j].pid = q
                          /\ state'[j].start = proc'[q].start
      BY DEF OrphansKilled
    <3>1. proc[q].owner # cli.id
      BY <2>1, <2>2 DEF IInv, CleanupClear
    <3>2. state'[proc[q].owner] = state[proc[q].owner]
      BY <2>2, <3>1 DEF IInv, TypeOK
    <3>3. QED
      BY <2>2, <3>2 DEF IInv, OrphansKilled
  <2>4. QED
    BY <1>0, <2>2, <2>3 DEF IInv, KillTarget, CleanupClear, Idle
<1>9. CASE ExecEnter
  <2>1. UNCHANGED <<proc, state>> /\ cli' = Idle
    BY <1>9 DEF ExecEnter
  <2>2. QED
    BY <1>0, <2>1 DEF IInv, OrphansKilled, KillTarget, CleanupClear, Idle
<1>10. CASE UNCHANGED vars
  BY <1>0, <1>10 DEF vars, IInv, OrphansKilled, KillTarget, CleanupClear
<1>11. QED
  BY <1>0, <1>1, <1>2, <1>3, <1>4, <1>5, <1>6, <1>7, <1>8, <1>9, <1>10
     DEF Next, RunContainer, IInv

\* The strengthened invariant holds in every reachable state, for every
\* set of ids and PIDs, clock bound and set of faults.
THEOREM LifecycleInvariant == Spec => []IInv
<1>1. Init => IInv
  BY InitType, NotIds DEF Init, IInv, OrphansKilled, KillTarget, CleanupClear,
                          Free, Idle
<1>2. QED
  BY <1>1, IInvStep, PTL DEF Spec

\* A container's process outlives its state record only once delete has
\* sent it SIGKILL (the property the lifecycle run checks): delete checks
\* the recorded init is alive, signals it before it removes state.json,
\* and nothing starts a process of the container between its two steps;
\* the process itself may still be running when delete returns.
THEOREM OrphansKilledHolds == Spec => []OrphansKilled
BY LifecycleInvariant, PTL DEF IInv

=============================================================================
