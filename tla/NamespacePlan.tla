---------------------------- MODULE NamespacePlan ----------------------------
(***************************************************************************)
(* The namespace spec resolver of namespace.rs over a whole OCI            *)
(* linux.namespaces array: the sandbox rewrite (update_namespaces) and the *)
(* two queries the parent asks of the array before it starts the child     *)
(* (get_pid_namespace, is_userns_enabled), checked against the namespace   *)
(* plan the spec defines (section 3, "Namespace plan").                    *)
(*                                                                         *)
(* A path is abstracted to what the code and the spec tell apart: None     *)
(* ("unset"), Some("") ("empty"), a path given in the bundle ("host"), and *)
(* /proc/<pid>/ns/<kind> as written by update_namespaces ("proc").         *)
(***************************************************************************)
EXTENDS Naturals, FiniteSets

CONSTANTS
  Kinds   \* the namespace kinds the arrays of this run use

AllKinds == {"user", "ipc", "pid", "net", "mnt", "uts", "cgroup"}

ASSUME KindsAssumption == Kinds \subseteq AllKinds

Paths == {"unset", "empty", "host", "proc"}
Entries == [typ: Kinds, path: Paths]

\* The arrays a bundle can carry: at most one entry per kind.
Arrays ==
  UNION {{a \in [1..n -> [typ: Kinds, path: Paths \ {"proc"}]] :
            \A j, k \in 1..n : j # k => a[j].typ # a[k].typ}
         : n \in 0..Cardinality(Kinds)}

\* get_pid_namespace's result; err: it returned an error.
PidNsResults == [enabled: BOOLEAN, fd: BOOLEAN, err: BOOLEAN]
NoPidNs == [enabled |-> FALSE, fd |-> FALSE, err |-> FALSE]

VARIABLES
  ns,       \* the linux.namespaces array of the spec
  sandbox,  \* update_namespaces has rewritten it
  phase,    \* "loaded" until the parent has resolved it
  pidns,    \* what get_pid_namespace returned
  userns    \* what is_userns_enabled returned

vars == <<ns, sandbox, phase, pidns, userns>>

TypeOK ==
  /\ ns \in UNION {[1..n -> Entries] : n \in 0..Cardinality(Kinds)}
  /\ sandbox \in BOOLEAN
  /\ phase \in {"loaded", "resolved"}
  /\ pidns \in PidNsResults
  /\ userns \in BOOLEAN

-----------------------------------------------------------------------------
(* The code.                                                               *)

\* Mutant: only a None path is rewritten (is_none instead of is_none_or
\* empty).
update_namespaces_none_only(a) ==
  [k \in DOMAIN a |-> IF a[k].path = "unset"
                        THEN [a[k] EXCEPT !.path = "proc"] ELSE a[k]]

\* update_namespaces (lines 69-97): every entry of a kind TYPETONAME knows
\* (all of them) whose path is None or empty gets /proc/<pid>/ns/<kind>.
update_namespaces(a) ==
  [k \in DOMAIN a |-> IF a[k].path \in {"unset", "empty"}
                        THEN [a[k] EXCEPT !.path = "proc"] ELSE a[k]]

\* get_pid_namespace (lines 121-151): the first "pid" entry decides.  No
\* path: a new PID namespace.  Some path: it is opened read-only, and
\* open("") fails with ENOENT, which `?` returns.
get_pid_namespace(a) ==
  LET pids == {k \in DOMAIN a : a[k].typ = "pid"}
  IN  IF pids = {} THEN NoPidNs
      ELSE LET e == a[CHOOSE k \in pids : \A j \in pids : k <= j]
           IN  CASE e.path = "unset" -> [NoPidNs EXCEPT !.enabled = TRUE]
                 [] e.path = "empty" -> [NoPidNs EXCEPT !.err = TRUE]
                 [] OTHER -> [NoPidNs EXCEPT !.enabled = TRUE, !.fd = TRUE]

\* is_userns_enabled (lines 168-175): some "user" entry has path None.
is_userns_enabled(a) ==
  \E k \in DOMAIN a : a[k].typ = "user" /\ a[k].path = "unset"

Init ==
  /\ ns \in Arrays
  /\ sandbox = FALSE
  /\ phase = "loaded"
  /\ pidns = NoPidNs
  /\ userns = FALSE

\* The sandbox scenario: the array is rewritten to join process P.
UpdateNamespaces ==
  /\ phase = "loaded" /\ ~sandbox
  /\ ns' = update_namespaces(ns)
  /\ sandbox' = TRUE
  /\ UNCHANGED <<phase, pidns, userns>>

\* The parent asks both queries of the array it will start the child with.
Resolve ==
  /\ phase = "loaded"
  /\ pidns' = get_pid_namespace(ns)
  /\ userns' = is_userns_enabled(ns)
  /\ phase' = "resolved"
  /\ UNCHANGED <<ns, sandbox>>

Next == UpdateNamespaces \/ Resolve

Spec == Init /\ [][Next]_vars

-----------------------------------------------------------------------------
(* The spec's plan, the reference the queries are checked against.        *)

\* Each kind: CreateNew for an entry with an empty or absent path, Join for
\* one with a path, Skip for a kind missing from the array.
Plan(a) ==
  [t \in AllKinds |->
     IF \E k \in DOMAIN a : a[k].typ = t
       THEN LET e == a[CHOOSE k \in DOMAIN a : a[k].typ = t]
            IN  IF e.path \in {"unset", "empty"} THEN "CreateNew" ELSE "Join"
       ELSE "Skip"]

\* The PID-namespace disposition the plan calls for.
PlannedPidNs(a) ==
  CASE Plan(a)["pid"] = "Skip"      -> NoPidNs
    [] Plan(a)["pid"] = "CreateNew" -> [NoPidNs EXCEPT !.enabled = TRUE]
    [] Plan(a)["pid"] = "Join"      -> [NoPidNs EXCEPT !.enabled = TRUE,
                                                       !.fd = TRUE]

-----------------------------------------------------------------------------
(* Properties                                                              *)

\* In the sandbox scenario, the rewritten array resolves as the spec's plan
\* says: both the PID disposition and the user-namespace query agree with it
\* (update_namespaces must leave no entry the queries read differently).
SandboxResolvesAsPlanned ==
  phase = "resolved" /\ sandbox =>
    /\ pidns = PlannedPidNs(ns)
    /\ userns = (Plan(ns)["user"] = "CreateNew")

\* get_pid_namespace answers what the plan says for every array (spec 4.B:
\* an empty path is CreateNew, so no descriptor and no error).
PidNsAsPlanned ==
  phase = "resolved" => pidns = PlannedPidNs(ns)

=============================================================================
