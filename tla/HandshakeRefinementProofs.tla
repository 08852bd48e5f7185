----------------------- MODULE HandshakeRefinementProofs -----------------------
(***************************************************************************)
(* The safety part of the refinement of StartProtocol by Handshake: the    *)
(* initial states of the handshake are initial states of the protocol      *)
(* under the mapping of Handshake (ParentPhase, ChildPhase), and every     *)
(* step of the handshake is a step of the protocol or leaves its state     *)
(* alone.  The fairness part of ImplementsStart is checked by TLC only.    *)
(*                                                                         *)
(* The step proof rests on the protocol invariant IInv of HandshakeProofs: *)
(* the parent configures while the child waits for "continue" (Sync), so  *)
(* a setup step is a step of Setup; "continue" reaches the child only     *)
(* after the parent has done the whole plan (DoneInv), so it is a step of *)
(* Continue; and the hooks run once, only for the init process (HooksInv). *)
(* The plan the parent follows (Planned) is the plan the protocol requires *)
(* only when no user namespace entry has an empty path: for Some("") the  *)
(* child creates a namespace that is_userns_enabled does not see.          *)
(***************************************************************************)
EXTENDS HandshakeProofs

\* The hypothesis under which the refinement holds (see the header).
NoEmptyUserns == "empty" \notin UserNsEntries

-----------------------------------------------------------------------------
(* The plan.                                                               *)

\* The steps the parent plans are the steps the protocol requires.
LEMMA PlannedRequired ==
  ASSUME NoEmptyUserns, cfg \in Configs
  PROVE  Planned = Start!Required(cfg)
<1>1. is_userns_enabled(cfg.user) = Start!ChildCreatesNew(cfg.user)
  BY UserNsAssumption DEF NoEmptyUserns, Configs, NsEntries,
     is_userns_enabled, Start!ChildCreatesNew
<1>2. DOMAIN Start!Step = SetupSteps
  BY DEF Start!Step, SetupSteps
<1>3. QED
  BY <1>1, <1>2 DEF Planned, Start!Required

\* The spec's step numbers order the setup steps as Rank does.
LEMMA StepRank ==
  ASSUME NEW s \in SetupSteps, NEW t \in SetupSteps,
         Start!Step[t] < Start!Step[s]
  PROVE  Rank[t] < Rank[s]
BY DEF SetupSteps, Start!Step, Rank

\* All of the plan, and the part of it before a failed step, are setups
\* done in the spec's order.
LEMMA PrefixInOrder ==
  ASSUME NoEmptyUserns, cfg \in Configs, NEW f \in SetupSteps
  PROVE  /\ Start!InOrder(Planned, cfg)
         /\ Start!InOrder({s \in Planned : Rank[s] < Rank[f]}, cfg)
<1>1. Planned = Start!Required(cfg)
  BY PlannedRequired
<1>2. Planned \subseteq SetupSteps
  BY DEF Planned
<1>3. Start!InOrder(Planned, cfg)
  BY <1>1 DEF Start!InOrder
<1>4. Start!InOrder({s \in Planned : Rank[s] < Rank[f]}, cfg)
  <2>1. ASSUME NEW s \in Planned, NEW t \in Planned, Rank[s] < Rank[f],
               Start!Step[t] < Start!Step[s]
        PROVE  Rank[t] < Rank[f]
    <3>1. Rank[t] < Rank[s]
      BY <1>2, <2>1, StepRank
    <3>2. QED
      BY <1>2, <2>1, <3>1 DEF Rank, SetupSteps
  <2>2. QED
    BY <1>1, <2>1 DEF Start!InOrder
<1>5. QED
  BY <1>3, <1>4

-----------------------------------------------------------------------------
(* Steps invisible to the protocol, and steps that only end the start.     *)

\* A step that moves the parent between running places, or to Failed, and
\* leaves the rest of the protocol's state alone, is a failure or a stutter.
LEMMA ParentQuiet ==
  ASSUME ParentPhase = "running",
         cfg' = cfg, cpc' = cpc, calive' = calive, done' = done,
         hooksRan' = hooksRan, cUserns' = cUserns,
         ppc' \in ParentPcs \ {"Done", "Panicked"}
  PROVE  [Start!ANext]_Start!avars
<1>1. ChildPhase' = ChildPhase
  BY DEF ChildPhase
<1>2. CASE ppc' = "Failed"
  <2>1. ParentPhase' = "err"
    BY <1>2 DEF ParentPhase
  <2>2. QED
    BY <1>1, <2>1 DEF Start!ANext, Start!Fail
<1>3. CASE ppc' # "Failed"
  <2>1. ParentPhase' = "running"
    BY <1>3 DEF ParentPhase
  <2>2. QED
    BY <1>1, <2>1 DEF Start!avars
<1>4. QED
  BY <1>2, <1>3

\* A step of the child that stays in a phase and leaves the rest alone.
LEMMA ChildQuiet ==
  ASSUME ChildPhase' = ChildPhase,
         cfg' = cfg, ppc' = ppc, calive' = calive, done' = done,
         hooksRan' = hooksRan, cUserns' = cUserns
  PROVE  [Start!ANext]_Start!avars
<1>1. ParentPhase' = ParentPhase
  BY DEF ParentPhase
<1>2. QED
  BY <1>1 DEF Start!avars

\* The parent is running wherever it is neither done nor has ended.
LEMMA Running ==
  ASSUME ppc \in ParentPcs \ {"Done", "Failed", "Panicked"}
  PROVE  ParentPhase = "running"
BY DEF ParentPhase, ParentPcs

\* A read of the sync pipe moves the parent to the place it names or to
\* Failed; so does a write.
LEMMA PipeNext ==
  ASSUME NEW next
  PROVE  /\ read_async(next) => ppc' \in {next, "Failed"}
         /\ write_async("DATA", next) => ppc' \in {next, "Failed"}
         /\ write_async("SUCCESS", next) => ppc' \in {next, "Failed"}
BY DEF read_async, write_async


\* Only the init process waits for "hooks complete".
LEMMA AwaitHooksInit ==
  ASSUME TypeOK, Sync
  PROVE  cpc = "AwaitHooksDone" => cfg.init
BY DEF TypeOK, Sync, SyncRow, SyncFailed, SyncGone, SyncStuck, Row,
       CommonRow, InitRow, ExecRow, Stuck, Terminal

-----------------------------------------------------------------------------
(* Every step of the handshake is a step of the start protocol.            *)

\* The steps of the parent that only pass frames: each moves the parent to
\* its next place or ends the start with an error.
LEMMA ParentPipeStep ==
  ASSUME IInv,
         SendSpec \/ AwaitSpecAck \/ SendProcess \/ AwaitProcessAck
         \/ SendState \/ AwaitStateAck \/ AwaitUserns \/ AwaitHookReady
  PROVE  [Start!ANext]_Start!avars
<1>1. CASE SendSpec
  <2>1. ParentPhase = "running"
    BY <1>1, Running DEF SendSpec, ParentPcs
  <2>2. ppc' \in ParentPcs \ {"Done", "Panicked"}
    BY <1>1 DEF SendSpec, write_async, ParentPcs
  <2>3. QED
    BY <1>1, <2>1, <2>2, ParentQuiet DEF SendSpec, PUnchanged
<1>2. CASE AwaitSpecAck
  <2>1. ParentPhase = "running"
    BY <1>2, Running DEF AwaitSpecAck, ParentPcs
  <2>2. ppc' \in ParentPcs \ {"Done", "Panicked"}
    BY <1>2 DEF AwaitSpecAck, read_async, ParentPcs
  <2>3. QED
    BY <1>2, <2>1, <2>2, ParentQuiet DEF AwaitSpecAck, PUnchanged
<1>3. CASE SendProcess
  <2>1. ParentPhase = "running"
    BY <1>3, Running DEF SendProcess, ParentPcs
  <2>2. ppc' \in ParentPcs \ {"Done", "Panicked"}
    BY <1>3 DEF SendProcess, write_async, ParentPcs
  <2>3. QED
    BY <1>3, <2>1, <2>2, ParentQuiet DEF SendProcess, PUnchanged
<1>4. CASE AwaitProcessAck
  <2>1. ParentPhase = "running"
    BY <1>4, Running DEF AwaitProcessAck, ParentPcs
  <2>2. ppc' \in ParentPcs \ {"Done", "Panicked"}
    BY <1>4 DEF AwaitProcessAck, read_async, ParentPcs
  <2>3. QED
    BY <1>4, <2>1, <2>2, ParentQuiet DEF AwaitProcessAck, PUnchanged
<1>5. CASE SendState
  <2>1. ParentPhase = "running"
    BY <1>5, Running DEF SendState, ParentPcs
  <2>2. ppc' \in ParentPcs \ {"Done", "Panicked"}
    BY <1>5 DEF SendState, write_async, ParentPcs
  <2>3. QED
    BY <1>5, <2>1, <2>2, ParentQuiet DEF SendState, PUnchanged
<1>6. CASE AwaitStateAck
  <2>1. ParentPhase = "running"
    BY <1>6, Running DEF AwaitStateAck, ParentPcs
  <2>2. ppc' \in ParentPcs \ {"Done", "Panicked"}
    BY <1>6 DEF AwaitStateAck, read_async, ParentPcs
  <2>3. QED
    BY <1>6, <2>1, <2>2, ParentQuiet DEF AwaitStateAck, PUnchanged
<1>7. CASE AwaitUserns
  <2>1. ParentPhase = "running"
    BY <1>7, Running DEF AwaitUserns, ParentPcs
  <2>2. ppc' \in ParentPcs \ {"Done", "Panicked"}
    BY <1>7 DEF AwaitUserns, read_async, ParentPcs
  <2>3. QED
    BY <1>7, <2>1, <2>2, ParentQuiet DEF AwaitUserns, PUnchanged
<1>8. CASE AwaitHookReady
  <2>1. ParentPhase = "running"
    BY <1>8, Running DEF AwaitHookReady, ParentPcs
  <2>2. ppc' \in ParentPcs \ {"Done", "Panicked"}
    BY <1>8 DEF AwaitHookReady, read_async, ParentPcs
  <2>3. QED
    BY <1>8, <2>1, <2>2, ParentQuiet DEF AwaitHookReady, PUnchanged
<1>9. QED
  BY <1>1, <1>2, <1>3, <1>4, <1>5, <1>6, <1>7, <1>8


\* The cgroup manager: a systemd one panics the task (the Panic of the
\* protocol), any other is sent to the child.
LEMMA SendCgroupStep ==
  ASSUME IInv, SendCgroup
  PROVE  [Start!ANext]_Start!avars
<1>1. ParentPhase = "running"
  BY Running DEF SendCgroup, ParentPcs
<1>2. CASE cfg.systemd
  <2>1. ParentPhase' = "panicked"
    BY <1>2 DEF SendCgroup, ParentPhase
  <2>2. ChildPhase' = ChildPhase
    BY DEF SendCgroup, PUnchanged, ChildPhase
  <2>3. QED
    BY <1>1, <1>2, <2>1, <2>2 DEF SendCgroup, PUnchanged, Start!ANext, Start!Panic
<1>3. CASE ~cfg.systemd
  <2>1. ppc' \in ParentPcs \ {"Done", "Panicked"}
    BY <1>3 DEF SendCgroup, write_async, ParentPcs
  <2>2. QED
    BY <1>1, <2>1, ParentQuiet DEF SendCgroup, PUnchanged
<1>4. QED
  BY <1>2, <1>3

\* The id maps and the cgroup setup: the child waits for "continue", so
\* what the parent does is one Setup of the protocol, in the spec's order,
\* and ends the start with an error if a step of it fails.
LEMMA ConfigureStep ==
  ASSUME NoEmptyUserns, IInv, Configure
  PROVE  [Start!ANext]_Start!avars
<1>0. TypeOK /\ cfg \in Configs
  BY DEF IInv, TypeOK
<1>1. ParentPhase = "running"
  BY Running DEF Configure, ParentPcs
<1>2. ChildPhase = "nsready" /\ ChildPhase' = "nsready"
  <2>1. cpc = "AwaitContinue"
    BY <1>0, SyncFacts DEF IInv, Configure
  <2>2. QED
    BY <2>1 DEF Configure, ChildPhase
<1>3. done = {}
  BY DEF IInv, DoneInv, Configure, PreConfigure
<1>4. UNCHANGED <<cfg, calive, hooksRan, cUserns>>
  BY DEF Configure
<1>5. CASE \E f \in Planned \cap Fallible :
              /\ done' = {s \in Planned : Rank[s] < Rank[f]}
              /\ ppc' = "Failed"
  <2>1. PICK f \in Planned \cap Fallible :
              /\ done' = {s \in Planned : Rank[s] < Rank[f]}
              /\ ppc' = "Failed"
    BY <1>5
  <2>2. ParentPhase' = "err"
    BY <2>1 DEF ParentPhase
  <2>3. Start!InOrder(done', cfg)
    BY <1>0, <2>1, PrefixInOrder DEF Fallible
  <2>4. CASE done' = {}
    BY <1>1, <1>2, <1>3, <1>4, <2>2, <2>4 DEF Start!ANext, Start!Fail
  <2>5. CASE done' # {}
    BY <1>1, <1>2, <1>3, <1>4, <2>2, <2>3, <2>5 DEF Start!ANext, Start!Setup
  <2>6. QED
    BY <2>4, <2>5
<1>6. CASE /\ done' = Planned
           /\ write_async("SUCCESS", IF cfg.init THEN "AwaitHookReady"
                                                 ELSE "AwaitExecReady")
  <2>1. ppc' \in {"AwaitHookReady", "AwaitExecReady", "Failed"}
    BY <1>6 DEF write_async
  <2>2. Start!InOrder(done', cfg) /\ done' = Start!Required(cfg)
    BY <1>0, <1>6, PrefixInOrder, PlannedRequired DEF SetupSteps
  <2>3. CASE Planned = {}
    <3>1. ppc' \in ParentPcs \ {"Done", "Panicked"}
      BY <2>1 DEF ParentPcs
    <3>2. QED
      BY <1>1, <1>3, <1>6, <2>3, <3>1, ParentQuiet DEF Configure
  <2>4. CASE Planned # {} /\ ppc' = "Failed"
    <3>1. ParentPhase' = "err"
      BY <2>4 DEF ParentPhase
    <3>2. QED
      BY <1>1, <1>2, <1>3, <1>4, <1>6, <2>2, <2>4, <3>1
      DEF Start!ANext, Start!Setup
  <2>5. CASE Planned # {} /\ ppc' # "Failed"
    <3>1. ParentPhase' = "running"
      BY <2>1, <2>5 DEF ParentPhase
    <3>2. QED
      BY <1>1, <1>2, <1>3, <1>4, <1>6, <2>2, <2>5, <3>1
      DEF Start!ANext, Start!Setup
  <2>6. QED
    BY <2>3, <2>4, <2>5
<1>7. QED
  BY <1>5, <1>6 DEF Configure

\* The prestart hooks: they run once, while the init child waits.
LEMMA RunHooksStep ==
  ASSUME IInv, RunHooks
  PROVE  [Start!ANext]_Start!avars
<1>0. TypeOK
  BY DEF IInv
<1>1. ParentPhase = "running"
  BY Running DEF RunHooks, ParentPcs
<1>2. ChildPhase = "continued" /\ ChildPhase' = "continued"
  <2>1. cpc = "AwaitHooksDone"
    BY <1>0, SyncFacts DEF IInv, RunHooks
  <2>2. QED
    BY <2>1 DEF RunHooks, ChildPhase
<1>3. ~hooksRan
  BY DEF IInv, HooksInv, RunHooks
<1>4. UNCHANGED <<cfg, calive, done, cUserns>>
  BY DEF RunHooks
<1>5. CASE cfg.hooks /\ "hook" \in Faults /\ ppc' = "Failed"
           /\ UNCHANGED hooksRan
  <2>1. ParentPhase' = "err"
    BY <1>5 DEF ParentPhase
  <2>2. QED
    BY <1>1, <1>2, <1>4, <1>5, <2>1 DEF Start!ANext, Start!Fail
<1>6. CASE hooksRan' = cfg.hooks /\ write_async("SUCCESS", "AwaitExecReady")
  <2>1. ppc' \in {"AwaitExecReady", "Failed"}
    BY <1>6 DEF write_async
  <2>2. ParentPhase' \in {"running", "err"}
    BY <2>1 DEF ParentPhase
  <2>3. CASE cfg.hooks
    BY <1>1, <1>2, <1>3, <1>4, <1>6, <2>2, <2>3 DEF Start!ANext, Start!Hooks
  <2>4. CASE ~cfg.hooks
    <3>1. hooksRan' = hooksRan /\ cpc' = cpc
      <4>1. cfg.hooks \in BOOLEAN /\ hooksRan \in BOOLEAN
        BY <1>0 DEF TypeOK, Configs
      <4>2. hooksRan' = hooksRan
        BY <1>3, <1>6, <2>4, <4>1, Zenon
      <4>3. QED
        BY <4>2 DEF RunHooks
    <3>2. ppc' \in ParentPcs \ {"Done", "Panicked"}
      BY <2>1 DEF ParentPcs
    <3>3. QED
      BY <1>1, <1>4, <3>1, <3>2, ParentQuiet
  <2>5. QED
    BY <2>3, <2>4
<1>7. QED
  BY <1>5, <1>6 DEF RunHooks

\* The last read: Ok is returned when the child has reported that it
\* execs, which it does only once it is past "continue" (and the hooks).
LEMMA AwaitExecReadyStep ==
  ASSUME IInv, IInv', AwaitExecReady
  PROVE  [Start!ANext]_Start!avars
<1>1. ParentPhase = "running"
  BY Running DEF AwaitExecReady, ParentPcs
<1>2. ppc' \in {"Done", "Failed"}
  BY PipeNext DEF AwaitExecReady
<1>3. CASE ppc' = "Done"
  <2>1. cpc' = "Exec"
    BY <1>3 DEF IInv, Sync, SyncRow, SyncFailed, SyncGone, SyncStuck, Row,
       CommonRow, InitRow, ExecRow, Terminal
  <2>2. ChildPhase = "exec"
    BY <2>1 DEF AwaitExecReady, PUnchanged, ChildPhase
  <2>3. ParentPhase' = "ok"
    BY <1>3 DEF ParentPhase
  <2>4. ChildPhase' = ChildPhase
    BY DEF AwaitExecReady, PUnchanged, ChildPhase
  <2>5. QED
    BY <1>1, <2>2, <2>3, <2>4 DEF AwaitExecReady, PUnchanged,
       Start!ANext, Start!Return
<1>4. CASE ppc' = "Failed"
  BY <1>1, <1>4, ParentQuiet DEF AwaitExecReady, PUnchanged, ParentPcs
<1>5. QED
  BY <1>2, <1>3, <1>4


\* The steps of the child: reading the configuration is invisible to the
\* protocol, setting up the namespaces is NsReady, "continue" and "hooks
\* complete" are Continue and HooksComplete, and failing or exiting is Die.
LEMMA ChildStep ==
  ASSUME NoEmptyUserns, IInv, Child
  PROVE  [Start!ANext]_Start!avars
<1>0. TypeOK /\ cfg \in Configs
  BY DEF IInv, TypeOK
<1>1. CASE ChildRecvConfig
  <2>1. ChildPhase' = ChildPhase
    BY <1>1 DEF ChildRecvConfig, ChildPhase
  <2>2. QED
    BY <1>1, <2>1, ChildQuiet DEF ChildRecvConfig, CUnchanged
<1>2. CASE ChildRecvCgroup
  <2>1. ChildPhase' = ChildPhase
    BY <1>2 DEF ChildRecvCgroup, ChildPhase
  <2>2. QED
    BY <1>2, <2>1, ChildQuiet DEF ChildRecvCgroup, CUnchanged
<1>3. CASE ChildSetupNs
  <2>1. ChildPhase = "boot" /\ ChildPhase' = "nsready"
    BY <1>3 DEF ChildSetupNs, ChildPhase
  <2>2. ParentPhase' = ParentPhase
    BY <1>3 DEF ChildSetupNs, CUnchanged, ParentPhase
  <2>3. cUserns' = Start!ChildCreatesNew(cfg.user)
    BY <1>3 DEF ChildSetupNs, ChildCreatesNew, Start!ChildCreatesNew
  <2>4. QED
    BY <1>3, <2>1, <2>2, <2>3 DEF ChildSetupNs, CUnchanged,
       Start!ANext, Start!NsReady
<1>4. CASE ChildRecvContinue
  <2>1. ppc \in PostConfigure
    BY <1>0, <1>4, SyncFacts DEF IInv, ChildRecvContinue, CanRead, Expect, S
  <2>2. Start!Required(cfg) \subseteq done
    BY <1>0, <2>1, PlannedRequired DEF IInv, DoneInv
  <2>3. ChildPhase = "nsready"
        /\ ChildPhase' = IF cfg.init THEN "continued" ELSE "exec"
    BY <1>4 DEF ChildRecvContinue, ChildPhase
  <2>4. ParentPhase' = ParentPhase
    BY <1>4 DEF ChildRecvContinue, CUnchanged, ParentPhase
  <2>5. QED
    BY <1>4, <2>2, <2>3, <2>4 DEF ChildRecvContinue, CUnchanged, CanRead,
       Start!ANext, Start!Continue
<1>5. CASE ChildRecvHooksDone
  <2>1. ppc \in {"AwaitExecReady", "Done"} /\ cfg.init
    BY <1>0, <1>5, SyncFacts, AwaitHooksInit
    DEF IInv, ChildRecvHooksDone, CanRead, Expect, S
  <2>2. hooksRan = cfg.hooks
    BY <2>1 DEF IInv, HooksInv
  <2>3. hooksRan \/ ~cfg.hooks
    BY <1>0, <2>2 DEF Configs
  <2>4. ChildPhase = "continued" /\ ChildPhase' = "exec"
    BY <1>5 DEF ChildRecvHooksDone, ChildPhase
  <2>5. ParentPhase' = ParentPhase
    BY <1>5 DEF ChildRecvHooksDone, CUnchanged, ParentPhase
  <2>6. QED
    BY <1>5, <2>3, <2>4, <2>5 DEF ChildRecvHooksDone, CUnchanged, CanRead,
       Start!ANext, Start!HooksComplete
<1>6. CASE ChildFail \/ ChildExit
  <2>1. ParentPhase' = ParentPhase /\ ChildPhase' = ChildPhase
    BY <1>6 DEF ChildFail, ChildExit, CUnchanged, ParentPhase, ChildPhase
  <2>2. QED
    BY <1>6, <2>1 DEF ChildFail, ChildExit, CUnchanged, Start!ANext, Start!Die
<1>7. QED
  BY <1>1, <1>2, <1>3, <1>4, <1>5, <1>6 DEF Child

\* Every step of the handshake, between two states of the protocol
\* invariant, is a step of the start protocol or a stutter of it.
LEMMA StepRefines ==
  ASSUME NoEmptyUserns, IInv, IInv', [Next]_vars
  PROVE  [Start!ANext]_Start!avars
<1>1. CASE SendSpec \/ AwaitSpecAck \/ SendProcess \/ AwaitProcessAck
           \/ SendState \/ AwaitStateAck \/ AwaitUserns \/ AwaitHookReady
  BY <1>1, ParentPipeStep
<1>2. CASE SendCgroup
  BY <1>2, SendCgroupStep
<1>3. CASE Configure
  BY <1>3, ConfigureStep
<1>4. CASE RunHooks
  BY <1>4, RunHooksStep
<1>5. CASE AwaitExecReady
  BY <1>5, AwaitExecReadyStep
<1>6. CASE Child
  BY <1>6, ChildStep
<1>7. CASE UNCHANGED vars
  <2>1. ParentPhase' = ParentPhase /\ ChildPhase' = ChildPhase
    BY <1>7 DEF vars, ParentPhase, ChildPhase
  <2>2. QED
    BY <1>7, <2>1 DEF vars, Start!avars
<1>8. QED
  BY <1>1, <1>2, <1>3, <1>4, <1>5, <1>6, <1>7 DEF Next, Parent

\* An initial state of the handshake is an initial state of the protocol.
LEMMA InitRefines == Init => Start!AInit
BY DEF Init, Start!AInit, Configs, Start!Configs, ParentPhase, ChildPhase

\* join_namespaces and the child (namespace.rs 314-430 and the child
\* contract) implement the safety part of the start protocol: setup happens
\* between "user namespace ready" and "continue" in the spec's order and is
\* complete when the child continues, the hooks run once while the init
\* child waits, and Ok is returned only once the child execs; provided no
\* user namespace entry has an empty path (see NewUsernsMappedHolds).
THEOREM RefinesStart ==
  NoEmptyUserns => (Spec => Start!AInit /\ [][Start!ANext]_Start!avars)
<1> SUFFICES ASSUME NoEmptyUserns
             PROVE  Spec => Start!AInit /\ [][Start!ANext]_Start!avars
  OBVIOUS
<1>1. IInv /\ IInv' /\ [Next]_vars => [Start!ANext]_Start!avars
  BY StepRefines
<1>2. QED
  BY <1>1, InitRefines, Invariant, PTL DEF Spec

====
