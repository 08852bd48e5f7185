---------------------------- MODULE StartProtocol ----------------------------
(***************************************************************************)
(* What a container start promises (spec section 4.F), with the pipes and *)
(* the frames left out: the child moves through its phases, the parent    *)
(* sets up the child's id maps and cgroups between "user namespace ready" *)
(* and "continue", runs the prestart hooks while an init child waits for  *)
(* them, and returns Ok only once the child execs; any step may instead   *)
(* end the start with an error.  Module Handshake implements it.          *)
(***************************************************************************)
EXTENDS Namespaces, Naturals

CONSTANT UserNsEntries  \* the forms the "user" namespace entry may take

VARIABLES
  cfg,       \* the configuration of the start
  parent,    \* "running", or how the start ended: "ok", "err", "panicked"
  child,     \* "boot", "nsready", "continued" (init only), "exec"
  alive,     \* the child process is alive
  done,      \* the setup steps performed on the child
  hooksRan,  \* the prestart hooks have run
  userns     \* the child created a new user namespace

avars == <<cfg, parent, child, alive, done, hooksRan, userns>>

Configs == [linux: BOOLEAN, systemd: BOOLEAN, init: BOOLEAN,
            user: UserNsEntries, res: BOOLEAN, hooks: BOOLEAN]

\* Steps 6-8 of the spec and the step each is: the id maps when the plan
\* creates a user namespace, apply when there are resources, set when
\* there are resources and the process is init.
Step == [uid_map |-> 6, gid_map |-> 6, apply |-> 7, set |-> 8]

Required(c) ==
  {s \in DOMAIN Step :
     CASE s \in {"uid_map", "gid_map"} -> ChildCreatesNew(c.user)
       [] s = "apply" -> c.res
       [] s = "set"   -> c.res /\ c.init}

\* What a setup may leave done: the required steps up to some step, in the
\* spec's order (the order of the two id maps is not fixed).
InOrder(d, c) ==
  d \subseteq Required(c) /\
  \A s \in d, t \in Required(c) : Step[t] < Step[s] => t \in d

AInit ==
  /\ cfg \in Configs
  /\ parent = "running"
  /\ child = "boot"
  /\ alive = TRUE
  /\ done = {}
  /\ hooksRan = FALSE
  /\ userns = FALSE

\* Step 5: the child unshares or joins per the plan and is ready.
NsReady ==
  /\ alive /\ child = "boot"
  /\ child' = "nsready"
  /\ userns' = ChildCreatesNew(cfg.user)
  /\ UNCHANGED <<cfg, parent, alive, done, hooksRan>>

\* Steps 6-8, performed once, in order; a failed step ends the start.
Setup ==
  /\ parent = "running" /\ child = "nsready" /\ done = {}
  /\ done' # {}
  /\ InOrder(done', cfg)
  /\ \/ parent' = "err"
     \/ done' = Required(cfg) /\ parent' = "running"
  /\ UNCHANGED <<cfg, child, alive, hooksRan, userns>>

\* Step 9: "continue" reaches a child whose setup is complete.
Continue ==
  /\ alive /\ child = "nsready"
  /\ Required(cfg) \subseteq done
  /\ child' = IF cfg.init THEN "continued" ELSE "exec"
  /\ UNCHANGED <<cfg, parent, alive, done, hooksRan, userns>>

\* Step 10: the prestart hooks run while the init child waits.
Hooks ==
  /\ parent = "running" /\ child = "continued" /\ cfg.hooks /\ ~hooksRan
  /\ hooksRan' = TRUE
  /\ parent' \in {"running", "err"}
  /\ UNCHANGED <<cfg, child, alive, done, userns>>

\* "hooks complete": the init child goes on to exec.
HooksComplete ==
  /\ alive /\ child = "continued"
  /\ hooksRan \/ ~cfg.hooks
  /\ child' = "exec"
  /\ UNCHANGED <<cfg, parent, alive, done, hooksRan, userns>>

\* Step 11: the start returns Ok once the child execs.
Return ==
  /\ parent = "running" /\ child = "exec"
  /\ parent' = "ok"
  /\ UNCHANGED <<cfg, child, alive, done, hooksRan, userns>>

\* Any step fails; a systemd cgroup manager panics the task.
Fail ==
  /\ parent = "running"
  /\ parent' = "err"
  /\ UNCHANGED <<cfg, child, alive, done, hooksRan, userns>>

Panic ==
  /\ parent = "running" /\ cfg.systemd
  /\ parent' = "panicked"
  /\ UNCHANGED <<cfg, child, alive, done, hooksRan, userns>>

\* The child dies, or its workload exits.
Die ==
  /\ alive
  /\ alive' = FALSE
  /\ UNCHANGED <<cfg, parent, child, done, hooksRan, userns>>

ANext ==
  \/ NsReady \/ Setup \/ Continue \/ Hooks \/ HooksComplete
  \/ Return \/ Fail \/ Panic \/ Die

\* Every start ends: the parent can always give up, and does.
ASpec == AInit /\ [][ANext]_avars /\ WF_avars(Return \/ Fail \/ Panic)

=============================================================================
