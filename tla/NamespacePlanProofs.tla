-------------------------- MODULE NamespacePlanProofs --------------------------
(***************************************************************************)
(* Proofs about the namespace resolver (module NamespacePlan), for every   *)
(* set of namespace kinds.                                                 *)
(*                                                                         *)
(* SandboxResolvesAsPlanned is not inductive: it speaks of the answers the *)
(* parent got, and those are right only because of two facts about the    *)
(* array they were computed from.  update_namespaces leaves no entry with  *)
(* an absent or empty path, so every kind in the array is joined; and an   *)
(* array has at most one entry per kind, so the "first pid entry" of       *)
(* get_pid_namespace is the entry the plan reads.  The answers, once       *)
(* computed, are those of the array, which nothing changes afterwards.     *)
(***************************************************************************)
EXTENDS NamespacePlan, TLAPS

\* An array has at most one entry of each kind.
OnePerKind(a) ==
  \A j, k \in DOMAIN a : j # k => a[j].typ # a[k].typ

\* Every entry names a path to join: none is absent or empty.
AllJoined(a) ==
  \A k \in DOMAIN a : a[k].path \in {"host", "proc"}

IInv ==
  /\ TypeOK
  /\ OnePerKind(ns)
  /\ sandbox => AllJoined(ns)
  /\ phase = "resolved" =>
       pidns = get_pid_namespace(ns) /\ userns = is_userns_enabled(ns)

-----------------------------------------------------------------------------
(* The operators.                                                          *)

\* update_namespaces keeps the array's indices and kinds, and leaves every
\* entry with a path to join.
LEMMA UpdateShape ==
  ASSUME NEW D, NEW a \in [D -> Entries]
  PROVE  /\ update_namespaces(a) \in [D -> Entries]
         /\ \A k \in D : update_namespaces(a)[k].typ = a[k].typ
         /\ AllJoined(update_namespaces(a))
BY DEF update_namespaces, AllJoined, Entries, Paths

\* Over an array with one entry per kind and nothing left to create,
\* get_pid_namespace joins the PID namespace the plan joins, and no user
\* namespace is created.
LEMMA JoinedQueries ==
  ASSUME NEW n \in Nat, NEW a \in [1..n -> Entries],
         OnePerKind(a), AllJoined(a)
  PROVE  /\ get_pid_namespace(a) = PlannedPidNs(a)
         /\ is_userns_enabled(a) <=> (Plan(a)["user"] = "CreateNew")
<1> DEFINE pids == {k \in DOMAIN a : a[k].typ = "pid"}
<1>0. get_pid_namespace(a) = PlannedPidNs(a)
  <2>1. CASE pids = {}
    <3>1. get_pid_namespace(a) = NoPidNs
      BY <2>1 DEF get_pid_namespace
    <3>2. Plan(a)["pid"] = "Skip"
      BY <2>1 DEF Plan, AllKinds
    <3>3. QED
      BY <3>1, <3>2 DEF PlannedPidNs
  <2>2. CASE pids # {}
    <3>1. PICK k0 \in DOMAIN a : a[k0].typ = "pid"
      BY <2>2
    <3>2. pids = {k0}
      BY <3>1 DEF OnePerKind
    <3>3. (CHOOSE k \in pids : \A j \in pids : k <= j) = k0
      BY <3>2
    <3>4. (CHOOSE k \in DOMAIN a : a[k].typ = "pid") = k0
      BY <3>1, <3>2
    <3>5. a[k0].path \in {"host", "proc"}
      BY DEF AllJoined
    <3>6. get_pid_namespace(a) = [NoPidNs EXCEPT !.enabled = TRUE, !.fd = TRUE]
      BY <2>2, <3>3, <3>5 DEF get_pid_namespace
    <3>7. Plan(a)["pid"] = "Join"
      BY <3>1, <3>4, <3>5 DEF Plan, AllKinds
    <3>8. QED
      BY <3>6, <3>7 DEF PlannedPidNs
  <2>3. QED
    BY <2>1, <2>2
<1>3. ~is_userns_enabled(a)
  BY DEF is_userns_enabled, AllJoined
<1>4. Plan(a)["user"] # "CreateNew"
  <2>1. CASE \E k \in DOMAIN a : a[k].typ = "user"
    <3>1. (CHOOSE k \in DOMAIN a : a[k].typ = "user") \in DOMAIN a
      BY <2>1
    <3>2. QED
      BY <2>1, <3>1 DEF Plan, AllKinds, AllJoined
  <2>2. CASE ~\E k \in DOMAIN a : a[k].typ = "user"
    BY <2>2 DEF Plan, AllKinds
  <2>3. QED
    BY <2>1, <2>2
<1>5. QED
  BY <1>0, <1>3, <1>4

\* get_pid_namespace returns one of its three dispositions.
LEMMA PidNsType ==
  ASSUME NEW a
  PROVE  get_pid_namespace(a) \in PidNsResults
BY DEF get_pid_namespace, PidNsResults, NoPidNs

-----------------------------------------------------------------------------
(* The invariant.                                                          *)

LEMMA InitIInv == Init => IInv
<1> SUFFICES ASSUME Init PROVE IInv
  OBVIOUS
<1>1. PICK n \in 0..Cardinality(Kinds) :
        /\ ns \in [1..n -> [typ: Kinds, path: Paths \ {"proc"}]]
        /\ \A j, k \in 1..n : j # k => ns[j].typ # ns[k].typ
  BY DEF Init, Arrays
<1>2. ns \in [1..n -> Entries]
  BY <1>1 DEF Entries
<1>3. TypeOK
  BY <1>1, <1>2 DEF Init, TypeOK, NoPidNs, PidNsResults
<1>4. OnePerKind(ns)
  BY <1>1 DEF OnePerKind
<1>5. QED
  BY <1>3, <1>4 DEF Init, IInv

LEMMA IInvStep == IInv /\ [Next]_vars => IInv'
<1> SUFFICES ASSUME IInv, [Next]_vars PROVE IInv'
  OBVIOUS
<1>0. PICK n \in 0..Cardinality(Kinds) : ns \in [1..n -> Entries]
  BY DEF IInv, TypeOK
<1>1. CASE UpdateNamespaces
  <2>1. /\ ns' \in [1..n -> Entries]
        /\ \A k \in 1..n : ns'[k].typ = ns[k].typ
        /\ AllJoined(ns')
    BY <1>0, <1>1, UpdateShape DEF UpdateNamespaces
  <2>2. TypeOK'
    BY <1>1, <2>1 DEF UpdateNamespaces, IInv, TypeOK
  <2>3. OnePerKind(ns')
    BY <1>0, <2>1 DEF IInv, OnePerKind
  <2>4. QED
    BY <1>1, <2>1, <2>2, <2>3 DEF UpdateNamespaces, IInv
<1>2. CASE Resolve
  <2>1. TypeOK'
    <3>1. pidns' \in PidNsResults
      BY <1>2, PidNsType DEF Resolve
    <3>2. userns' \in BOOLEAN
      BY <1>2 DEF Resolve, is_userns_enabled
    <3>3. QED
      BY <1>2, <3>1, <3>2 DEF Resolve, IInv, TypeOK
  <2>2. QED
    BY <1>2, <2>1 DEF Resolve, IInv, OnePerKind, AllJoined
<1>3. CASE UNCHANGED vars
  BY <1>3 DEF vars, IInv, TypeOK, OnePerKind, AllJoined
<1>4. QED
  BY <1>1, <1>2, <1>3 DEF Next

\* The answers the parent gets about a rewritten array are those of the
\* spec's plan, for every set of kinds and every array a bundle can carry
\* (update_namespaces, get_pid_namespace, is_userns_enabled).
THEOREM SandboxResolvesAsPlannedHolds == Spec => []SandboxResolvesAsPlanned
<1>1. IInv => SandboxResolvesAsPlanned
  <2> SUFFICES ASSUME IInv, phase = "resolved", sandbox
               PROVE  /\ pidns = PlannedPidNs(ns)
                      /\ userns = (Plan(ns)["user"] = "CreateNew")
    BY DEF SandboxResolvesAsPlanned
  <2>1. PICK n \in 0..Cardinality(Kinds) : ns \in [1..n -> Entries]
    BY DEF IInv, TypeOK
  <2>2. /\ get_pid_namespace(ns) = PlannedPidNs(ns)
        /\ is_userns_enabled(ns) <=> (Plan(ns)["user"] = "CreateNew")
    BY <2>1, JoinedQueries DEF IInv
  <2>3. userns \in BOOLEAN
    BY DEF IInv, TypeOK
  <2>4. QED
    BY <2>2, <2>3 DEF IInv
<1>2. QED
  BY <1>1, InitIInv, IInvStep, PTL DEF Spec

====
