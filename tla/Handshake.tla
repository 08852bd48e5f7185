----------------------------- MODULE Handshake ------------------------------
(***************************************************************************)
(* The bootstrap handshake of a container start: join_namespaces, run by  *)
(* the parent (src/crate/celler/src/container/namespace.rs), against the   *)
(* child that init_child runs on the other end of the two sync pipes.      *)
(*                                                                         *)
(* The parent is one async task; every write_async and read_async is a     *)
(* suspension point and is an action of its own.  The child is a separate  *)
(* OS process, modelled from the child contract of the spec (its code is   *)
(* not in this source tree).  Pipes are FIFO sequences of message tags;    *)
(* payloads are left out because the parent never looks at them.           *)
(***************************************************************************)
EXTENDS Namespaces, Naturals, Sequences

CONSTANTS
  Faults,         \* the failures this run lets happen
  UserNsEntries   \* the forms the "user" namespace entry of the spec may take

\* crash: the child dies between two steps; report: the child fails a step
\* and writes FAILURE; idmap: a uid_map or gid_map write fails; cgroup: apply
\* or set fails; hook: a prestart hook fails.
FaultKinds == {"crash", "report", "idmap", "cgroup", "hook"}

ASSUME FaultsAssumption == Faults \subseteq FaultKinds
ASSUME UserNsAssumption == UserNsEntries \subseteq NsEntries /\ UserNsEntries # {}

VARIABLES
  cfg,       \* the container configuration this start is for (fixed)
  ppc,       \* where join_namespaces is
  cpc,       \* where the child is
  toChild,   \* parent -> child pipe (pipe_w)
  toParent,  \* child -> parent pipe (pipe_r)
  done,      \* setup steps the parent has completed: id maps, cgroup apply/set
  hooksRan,  \* the prestart hooks have run to completion
  calive,    \* the child process is alive (cpc is where it is, or died)
  cUserns    \* the child has created a new user namespace

vars == <<cfg, ppc, cpc, calive, toChild, toParent, done, hooksRan, cUserns>>

Tags == {"DATA", "SUCCESS", "FAILURE"}

Configs == [linux: BOOLEAN, systemd: BOOLEAN, init: BOOLEAN,
            user: UserNsEntries, res: BOOLEAN, hooks: BOOLEAN]

ParentPcs == {"SendSpec", "AwaitSpecAck", "SendProcess", "AwaitProcessAck",
              "SendState", "AwaitStateAck", "SendCgroup", "AwaitUserns",
              "Configure", "AwaitHookReady", "RunHooks", "AwaitExecReady",
              "Done", "Failed", "Panicked"}

ChildPcs == {"ReadSpec", "ReadProcess", "ReadState", "ReadCgroup", "SetupNs",
             "AwaitContinue", "AwaitHooksDone", "Exec"}

\* The parent-side setup between "user namespace ready" and "continue", in
\* the order the code issues it.
SetupSteps == {"uid_map", "gid_map", "apply", "set"}
Rank == [uid_map |-> 1, gid_map |-> 2, apply |-> 3, set |-> 4]

\* The steps this configuration calls for (namespace.rs 371, 384, 389).
Planned == {s \in SetupSteps :
              CASE s \in {"uid_map", "gid_map"} -> is_userns_enabled(cfg.user)
                [] s = "apply" -> cfg.res
                [] s = "set"   -> cfg.init /\ cfg.res}

\* The steps that may fail in this run.
Fallible == {s \in SetupSteps :
               IF s \in {"uid_map", "gid_map"} THEN "idmap" \in Faults
                                               ELSE "cgroup" \in Faults}

TypeOK ==
  /\ cfg \in Configs
  /\ ppc \in ParentPcs
  /\ cpc \in ChildPcs
  /\ calive \in BOOLEAN
  /\ toChild \in Seq(Tags)
  /\ toParent \in Seq(Tags)
  /\ done \subseteq SetupSteps
  /\ hooksRan \in BOOLEAN
  /\ cUserns \in BOOLEAN

Init ==
  /\ cfg \in Configs
  /\ ppc = "SendSpec"
  /\ cpc = "ReadSpec"
  /\ calive = TRUE
  /\ toChild = <<>>
  /\ toParent = <<>>
  /\ done = {}
  /\ hooksRan = FALSE
  /\ cUserns = FALSE

-----------------------------------------------------------------------------
(***************************************************************************)
(* The pipe primitives.  A write to a pipe whose reader has exited fails   *)
(* with EPIPE; a read returns the next frame, fails on a FAILURE frame,    *)
(* and fails with EOF once the writer has exited and the pipe is drained.  *)
(* Either error ends join_namespaces through `?`.                          *)
(***************************************************************************)
write_async(tag, next) ==
  IF ~calive
    THEN ppc' = "Failed" /\ UNCHANGED toChild
    ELSE ppc' = next /\ toChild' = Append(toChild, tag)

\* Mutant: EOF on the pipe is not noticed; the read waits for ever.
read_async_no_eof(next) ==
  /\ toParent # <<>>
  /\ toParent' = Tail(toParent)
  /\ ppc' = IF Head(toParent) = "FAILURE" THEN "Failed" ELSE next

read_async(next) ==
  \/ /\ toParent # <<>>
     /\ toParent' = Tail(toParent)
     /\ ppc' = IF Head(toParent) = "FAILURE" THEN "Failed" ELSE next
  \/ /\ toParent = <<>>
     /\ ~calive
     /\ ppc' = "Failed"
     /\ UNCHANGED toParent

-----------------------------------------------------------------------------
(* The parent: join_namespaces, one action per suspension point.           *)

PUnchanged == UNCHANGED <<cfg, cpc, calive, done, hooksRan, cUserns>>

\* Lines 326-337: no linux section is an error before anything is sent;
\* otherwise the serialized spec goes out as DATA.
SendSpec ==
  /\ ppc = "SendSpec"
  /\ IF cfg.linux
       THEN write_async("DATA", "AwaitSpecAck")
       ELSE ppc' = "Failed" /\ UNCHANGED toChild
  /\ UNCHANGED toParent
  /\ PUnchanged

\* Lines 339-340, 347-348, 355-356: wait for the child's ack of a DATA frame.
AwaitSpecAck ==
  /\ ppc = "AwaitSpecAck" /\ read_async("SendProcess")
  /\ UNCHANGED toChild /\ PUnchanged

SendProcess ==
  /\ ppc = "SendProcess" /\ write_async("DATA", "AwaitProcessAck")
  /\ UNCHANGED toParent /\ PUnchanged

AwaitProcessAck ==
  /\ ppc = "AwaitProcessAck" /\ read_async("SendState")
  /\ UNCHANGED toChild /\ PUnchanged

SendState ==
  /\ ppc = "SendState" /\ write_async("DATA", "AwaitStateAck")
  /\ UNCHANGED toParent /\ PUnchanged

\* Mutant: the ack of the state is never read.
AwaitStateAckSkipped ==
  /\ ppc = "AwaitStateAck" /\ ppc' = "SendCgroup"
  /\ UNCHANGED <<toChild, toParent>> /\ PUnchanged

AwaitStateAck ==
  /\ ppc = "AwaitStateAck" /\ read_async("SendCgroup")
  /\ UNCHANGED toChild /\ PUnchanged

\* Lines 358-364: a systemd cgroup manager hits todo!() and the task
\* panics; otherwise the fs manager is sent, with no ack expected.
SendCgroup ==
  /\ ppc = "SendCgroup"
  /\ IF cfg.systemd
       THEN ppc' = "Panicked" /\ UNCHANGED toChild
       ELSE write_async("DATA", "AwaitUserns")
  /\ UNCHANGED toParent /\ PUnchanged

\* Lines 366-368: the child reports that its user namespace is set up.
AwaitUserns ==
  /\ ppc = "AwaitUserns" /\ read_async("Configure")
  /\ UNCHANGED toChild /\ PUnchanged

\* Lines 370-397: write_mappings for uid then gid (if user namespace
\* creation is enabled), cm.apply(pid) (if resources), cm.set (if init and
\* resources), then "continue".  Any of the steps may fail; the ones before
\* it have taken effect.
\* Mutant: apply is guarded by !p.init, like set's guard inverted.
ConfigureApplyNonInit ==
  /\ ppc = "Configure"
  /\ \/ \E f \in Planned \cap Fallible :
          /\ done' = {s \in Planned : Rank[s] < Rank[f]}
          /\ ppc' = "Failed"
          /\ UNCHANGED toChild
     \/ /\ done' = {s \in Planned : s # "apply" \/ ~cfg.init}
        /\ write_async("SUCCESS", IF cfg.init THEN "AwaitHookReady"
                                              ELSE "AwaitExecReady")
  /\ UNCHANGED <<cfg, cpc, calive, toParent, hooksRan, cUserns>>

\* Mutant: the init process goes straight to the hooks, without reading
\* the child's "ready for hooks".
ConfigureNoHookWait ==
  /\ ppc = "Configure"
  /\ \/ \E f \in Planned \cap Fallible :
          /\ done' = {s \in Planned : Rank[s] < Rank[f]}
          /\ ppc' = "Failed"
          /\ UNCHANGED toChild
     \/ /\ done' = Planned
        /\ write_async("SUCCESS", IF cfg.init THEN "RunHooks"
                                              ELSE "AwaitExecReady")
  /\ UNCHANGED <<cfg, cpc, calive, toParent, hooksRan, cUserns>>

Configure ==
  /\ ppc = "Configure"
  /\ \/ \E f \in Planned \cap Fallible :
          /\ done' = {s \in Planned : Rank[s] < Rank[f]}
          /\ ppc' = "Failed"
          /\ UNCHANGED toChild
     \/ /\ done' = Planned
        /\ write_async("SUCCESS", IF cfg.init THEN "AwaitHookReady"
                                              ELSE "AwaitExecReady")
  /\ UNCHANGED <<cfg, cpc, calive, toParent, hooksRan, cUserns>>

\* Lines 400-402: the init process waits for the child to be ready for hooks.
\* Mutant: the hook-ready read is dropped.
AwaitHookReadySkipped ==
  /\ ppc = "AwaitHookReady" /\ ppc' = "RunHooks"
  /\ UNCHANGED <<toChild, toParent>> /\ PUnchanged

AwaitHookReady ==
  /\ ppc = "AwaitHookReady" /\ read_async("RunHooks")
  /\ UNCHANGED toChild /\ PUnchanged

\* Lines 404-422: the prestart hooks run in the parent's namespaces (when
\* the spec has hooks); then the child is told they are complete.
RunHooks ==
  /\ ppc = "RunHooks"
  /\ \/ /\ cfg.hooks /\ "hook" \in Faults
        /\ ppc' = "Failed"
        /\ UNCHANGED <<toChild, hooksRan>>
     \/ /\ hooksRan' = cfg.hooks
        /\ write_async("SUCCESS", "AwaitExecReady")
  /\ UNCHANGED <<cfg, cpc, calive, toParent, done, cUserns>>

\* Lines 425-429: the child is about to exec the workload.
AwaitExecReady ==
  /\ ppc = "AwaitExecReady" /\ read_async("Done")
  /\ UNCHANGED toChild /\ PUnchanged

Parent ==
  \/ SendSpec \/ AwaitSpecAck \/ SendProcess \/ AwaitProcessAck
  \/ SendState \/ AwaitStateAck \/ SendCgroup \/ AwaitUserns
  \/ Configure \/ AwaitHookReady \/ RunHooks \/ AwaitExecReady

-----------------------------------------------------------------------------
(* The child, from the spec's child contract (section 4.F).                *)

CUnchanged == UNCHANGED <<cfg, ppc, done, hooksRan>>

\* What the child reads next in each of its waiting states; it fails on
\* any other frame.
Expect == [ReadSpec |-> "DATA", ReadProcess |-> "DATA", ReadState |-> "DATA",
           ReadCgroup |-> "DATA", AwaitContinue |-> "SUCCESS",
           AwaitHooksDone |-> "SUCCESS"]

Receiving == DOMAIN Expect

CanRead == calive /\ cpc \in Receiving /\ toChild # <<>> /\ Head(toChild) = Expect[cpc]

\* Messages 1-3 are read and acked with SUCCESS.
ChildRecvConfig ==
  /\ cpc \in {"ReadSpec", "ReadProcess", "ReadState"} /\ CanRead
  /\ toChild' = Tail(toChild)
  /\ toParent' = Append(toParent, "SUCCESS")
  /\ cpc' = CASE cpc = "ReadSpec"    -> "ReadProcess"
              [] cpc = "ReadProcess" -> "ReadState"
              [] cpc = "ReadState"   -> "ReadCgroup"
  /\ UNCHANGED <<calive, cUserns>> /\ CUnchanged

\* Message 4 (the cgroup manager) is read and not acked.
ChildRecvCgroup ==
  /\ cpc = "ReadCgroup" /\ CanRead
  /\ toChild' = Tail(toChild)
  /\ cpc' = "SetupNs"
  /\ UNCHANGED <<calive, toParent, cUserns>> /\ CUnchanged

\* unshare/setns per the plan, then "user namespace ready".
ChildSetupNs ==
  /\ cpc = "SetupNs" /\ calive
  /\ cUserns' = ChildCreatesNew(cfg.user)
  /\ toParent' = Append(toParent, "SUCCESS")
  /\ cpc' = "AwaitContinue"
  /\ UNCHANGED <<calive, toChild>> /\ CUnchanged

\* "continue": finish the namespace-dependent setup; the init process then
\* asks for the prestart hooks, any other process reports ready and execs.
ChildRecvContinue ==
  /\ cpc = "AwaitContinue" /\ CanRead
  /\ toChild' = Tail(toChild)
  /\ toParent' = Append(toParent, "SUCCESS")
  /\ cpc' = IF cfg.init THEN "AwaitHooksDone" ELSE "Exec"
  /\ UNCHANGED <<calive, cUserns>> /\ CUnchanged

\* "hooks complete": report ready to exec, then execve.
ChildRecvHooksDone ==
  /\ cpc = "AwaitHooksDone" /\ CanRead
  /\ toChild' = Tail(toChild)
  /\ toParent' = Append(toParent, "SUCCESS")
  /\ cpc' = "Exec"
  /\ UNCHANGED <<calive, cUserns>> /\ CUnchanged

\* A step of the child fails: it reports FAILURE and exits.
ChildFail ==
  /\ "report" \in Faults
  /\ calive /\ cpc # "Exec"
  /\ toParent' = Append(toParent, "FAILURE")
  /\ calive' = FALSE
  /\ UNCHANGED <<cpc, toChild, cUserns>> /\ CUnchanged

\* The child dies without a word (killed, OOM), or the workload exits.
ChildExit ==
  /\ calive
  /\ cpc = "Exec" \/ "crash" \in Faults
  /\ calive' = FALSE
  /\ UNCHANGED <<cpc, toChild, toParent, cUserns>> /\ CUnchanged

Child ==
  \/ ChildRecvConfig \/ ChildRecvCgroup \/ ChildSetupNs \/ ChildRecvContinue
  \/ ChildRecvHooksDone \/ ChildFail \/ ChildExit

Next == Parent \/ Child

\* The child's protocol steps (not its failures, nor the workload's exit).
ChildSteps ==
  \/ ChildRecvConfig \/ ChildRecvCgroup \/ ChildSetupNs \/ ChildRecvContinue
  \/ ChildRecvHooksDone

\* The parent task is polled whenever its pipe is ready; the child is a
\* process the kernel schedules.  Nothing forces a failure or an exit.
Fairness == WF_vars(Parent) /\ WF_vars(ChildSteps)

Spec == Init /\ [][Next]_vars /\ Fairness

-----------------------------------------------------------------------------
(* Properties                                                              *)

\* The uid/gid maps are written only once the child has created its new user
\* namespace (write_mappings against /proc/<pid>/uid_map fails, or maps the
\* wrong namespace, if it runs before the child's "user namespace ready").
IdMapsInUserns == done \cap {"uid_map", "gid_map"} # {} => cUserns

\* Once the child is past "continue", every setup step the configuration
\* calls for has been done by the parent, in code order: the child never
\* runs namespace-dependent setup before its id maps and cgroup are in place.
SetupBeforeContinue ==
  /\ cpc \in {"AwaitHooksDone", "Exec"} => Planned \subseteq done
  /\ "set" \in done => "apply" \in done

\* A child that created a new user namespace has its uid and gid maps by the
\* time it is told to continue (spec 8: map writes happen strictly between
\* "user namespace ready" and "continue" whenever user: CreateNew is set).
NewUsernsMapped ==
  cUserns /\ cpc \in {"AwaitHooksDone", "Exec"}
    => {"uid_map", "gid_map"} \subseteq done

\* The child never reads a frame it does not expect: the parent's writes and
\* its count of reads stay in step with the child's contract.
InStep ==
  /\ Len(toChild) <= 1
  /\ toChild # <<>> /\ cpc \in Receiving => Head(toChild) = Expect[cpc]

\* The init process never execs its workload before the prestart hooks have
\* completed, and join_namespaces returns Ok only once the child is exec'ing.
HooksBeforeExec ==
  /\ cpc = "Exec" /\ cfg.init /\ cfg.hooks => hooksRan
  /\ ppc = "Done" => cpc = "Exec"

\* The prestart hooks run only while the child waits for them (it has
\* finished its post-continue setup and asked for them) or has died.
HooksWhileChildWaits ==
  [][~hooksRan /\ hooksRan' => cpc = "AwaitHooksDone"]_vars

\* Every start ends: join_namespaces returns (or the task panics).
Terminates == <>(ppc \in {"Done", "Failed", "Panicked"})

-----------------------------------------------------------------------------
(* The handshake as an implementation of the start protocol.               *)

\* How the start stands, from where join_namespaces is.
ParentPhase ==
  CASE ppc = "Done"     -> "ok"
    [] ppc = "Failed"   -> "err"
    [] ppc = "Panicked" -> "panicked"
    [] OTHER            -> "running"

\* The child's phase, from where it is in its contract.
ChildPhase ==
  CASE cpc = "AwaitContinue"  -> "nsready"
    [] cpc = "AwaitHooksDone" -> "continued"
    [] cpc = "Exec"           -> "exec"
    [] OTHER                  -> "boot"

Start == INSTANCE StartProtocol
           WITH parent <- ParentPhase, child <- ChildPhase,
                alive <- calive, userns <- cUserns

\* join_namespaces and the child implement the start protocol of the spec:
\* every frame exchanged over the pipes is a step of it or invisible to
\* it, setup happens between "user namespace ready" and "continue" and is
\* complete when the child continues, hooks run while the init child
\* waits, Ok is returned only once the child execs, and every start ends.
ImplementsStart == Start!ASpec

=============================================================================
