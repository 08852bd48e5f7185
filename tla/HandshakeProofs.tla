--------------------------- MODULE HandshakeProofs ---------------------------
(***************************************************************************)
(* Proofs about the bootstrap handshake (module Handshake), for every set  *)
(* of faults and every form of the user namespace entry.                   *)
(*                                                                         *)
(* The heart of it is Sync, the protocol table: for each place the parent  *)
(* can be, where the child can be and what the two pipes can hold.  The    *)
(* parent of join_namespaces counts frames and never looks at them, so     *)
(* everything it does relies on this table: the frame it reads after the   *)
(* cgroup manager is the child's "user namespace ready", the frame it reads *)
(* after "continue" is "ready for hooks", and so on.                        *)
(***************************************************************************)
EXTENDS Handshake, SequenceTheorems, TLAPS

D == "DATA"
S == "SUCCESS"
F == "FAILURE"

\* The protocol table: Row(i, p, c, tc, tp) says that, for a start whose
\* process is the init process iff i, the parent may be at p while the
\* child is at c, the parent -> child pipe holds tc and the
\* child -> parent pipe holds tp, both sides running.  Up to "continue":
CommonRow(p, c, tc, tp) ==
  \/ p = "SendSpec"        /\ c = "ReadSpec"        /\ tc = <<>>  /\ tp = <<>>
  \/ p = "AwaitSpecAck"    /\ c = "ReadSpec"        /\ tc = <<D>> /\ tp = <<>>
  \/ p = "AwaitSpecAck"    /\ c = "ReadProcess"     /\ tc = <<>>  /\ tp = <<S>>
  \/ p = "SendProcess"     /\ c = "ReadProcess"     /\ tc = <<>>  /\ tp = <<>>
  \/ p = "AwaitProcessAck" /\ c = "ReadProcess"     /\ tc = <<D>> /\ tp = <<>>
  \/ p = "AwaitProcessAck" /\ c = "ReadState"       /\ tc = <<>>  /\ tp = <<S>>
  \/ p = "SendState"       /\ c = "ReadState"       /\ tc = <<>>  /\ tp = <<>>
  \/ p = "AwaitStateAck"   /\ c = "ReadState"       /\ tc = <<D>> /\ tp = <<>>
  \/ p = "AwaitStateAck"   /\ c = "ReadCgroup"      /\ tc = <<>>  /\ tp = <<S>>
  \/ p = "SendCgroup"      /\ c = "ReadCgroup"      /\ tc = <<>>  /\ tp = <<>>
  \/ p = "AwaitUserns"     /\ c = "ReadCgroup"      /\ tc = <<D>> /\ tp = <<>>
  \/ p = "AwaitUserns"     /\ c = "SetupNs"         /\ tc = <<>>  /\ tp = <<>>
  \/ p = "AwaitUserns"     /\ c = "AwaitContinue"   /\ tc = <<>>  /\ tp = <<S>>
  \/ p = "Configure"       /\ c = "AwaitContinue"   /\ tc = <<>>  /\ tp = <<>>

\* After "continue", for the init process (with the hook sub-handshake).
InitRow(p, c, tc, tp) ==
  \/ p = "AwaitHookReady"  /\ c = "AwaitContinue"   /\ tc = <<S>> /\ tp = <<>>
  \/ p = "AwaitHookReady"  /\ c = "AwaitHooksDone"  /\ tc = <<>>  /\ tp = <<S>>
  \/ p = "RunHooks"        /\ c = "AwaitHooksDone"  /\ tc = <<>>  /\ tp = <<>>
  \/ p = "AwaitExecReady"  /\ c = "AwaitHooksDone"  /\ tc = <<S>> /\ tp = <<>>
  \/ p = "AwaitExecReady"  /\ c = "Exec"            /\ tc = <<>>  /\ tp = <<S>>
  \/ p = "Done"            /\ c = "Exec"            /\ tc = <<>>  /\ tp = <<>>

\* After "continue", for any other process.
ExecRow(p, c, tc, tp) ==
  \/ p = "AwaitExecReady"  /\ c = "AwaitContinue"   /\ tc = <<S>> /\ tp = <<>>
  \/ p = "AwaitExecReady"  /\ c = "Exec"            /\ tc = <<>>  /\ tp = <<S>>
  \/ p = "Done"            /\ c = "Exec"            /\ tc = <<>>  /\ tp = <<>>

Row(i, p, c, tc, tp) ==
  \/ CommonRow(p, c, tc, tp)
  \/ i /\ InitRow(p, c, tc, tp)
  \/ ~i /\ ExecRow(p, c, tc, tp)

\* A live child blocked for ever on a read after the parent has given up.
Stuck(i, c, tc, tp) ==
  /\ \/ c \in {"ReadSpec", "ReadCgroup", "AwaitContinue"}
     \/ c = "AwaitHooksDone" /\ i
  /\ tc = <<>> /\ tp = <<>>

Terminal == {"Failed", "Panicked"}

\* Where the two sides can be: in a row of the table; or in one with the
\* child's FAILURE frame behind its last one, the child gone; or the parent
\* has returned an error (or panicked) and the child, gone or blocked, is
\* where a row left it.
SyncRow == Row(cfg.init, ppc, cpc, toChild, toParent)

SyncFailed ==
     /\ ~calive
     /\ \/ toParent = <<F>> /\ Row(cfg.init, ppc, cpc, toChild, <<>>)
        \/ toParent = <<S, F>> /\ Row(cfg.init, ppc, cpc, toChild, <<S>>)

SyncGone ==
     /\ ppc \in Terminal /\ ~calive
     /\ toParent \in {<<>>, <<F>>}
     /\ \E p \in ParentPcs, tp \in {<<>>, <<S>>} :
          Row(cfg.init, p, cpc, toChild, tp)

SyncStuck ==
     /\ ppc \in Terminal /\ calive
     /\ Stuck(cfg.init, cpc, toChild, toParent)

Sync == SyncRow \/ SyncFailed \/ SyncGone \/ SyncStuck

PreSetup == {"ReadSpec", "ReadProcess", "ReadState", "ReadCgroup", "SetupNs"}
PreConfigure == {"SendSpec", "AwaitSpecAck", "SendProcess", "AwaitProcessAck",
                 "SendState", "AwaitStateAck", "SendCgroup", "AwaitUserns",
                 "Configure"}
PostConfigure == {"AwaitHookReady", "RunHooks", "AwaitExecReady", "Done"}

\* The child's user namespace is fixed by its plan once it is past SetupNs.
UsernsInv == cUserns = (cpc \notin PreSetup /\ ChildCreatesNew(cfg.user))

\* done is all of the plan, or the part of it before a failed step.
DonePrefix(d, plan) ==
  \/ d = plan
  \/ \E f \in SetupSteps : d = {s \in plan : Rank[s] < Rank[f]}

\* What the parent has set up, by where it is.
DoneInv ==
  /\ ppc \in PreConfigure => done = {}
  /\ ppc \in PostConfigure => done = Planned
  /\ DonePrefix(done, Planned)
  /\ done # {} => cpc \notin PreSetup
  /\ cpc \in {"AwaitHooksDone", "Exec"} => done = Planned

\* The prestart hooks, by where the two sides are.
HooksInv ==
  /\ ppc \in PreConfigure \cup {"AwaitHookReady", "RunHooks"} => ~hooksRan
  /\ cfg.init /\ ppc \in {"AwaitExecReady", "Done"} => hooksRan = cfg.hooks
  /\ cfg.init /\ cpc = "Exec" => hooksRan = cfg.hooks
  /\ hooksRan => cfg.init /\ cpc \in {"AwaitHooksDone", "Exec"}

-----------------------------------------------------------------------------
(* Type correctness.                                                       *)

\* A read of the sync pipe leaves a sequence of tags behind it and the parent
\* at the place it names or at Failed (read_async: EOF or a FAILURE frame).
LEMMA ReadAsyncType ==
  ASSUME NEW next \in ParentPcs, toParent \in Seq(Tags), read_async(next)
  PROVE  toParent' \in Seq(Tags) /\ ppc' \in ParentPcs
<1>1. CASE toParent # <<>> /\ toParent' = Tail(toParent)
  BY <1>1, HeadTailProperties DEF read_async, ParentPcs
<1>2. CASE toParent = <<>> /\ ~calive /\ ppc' = "Failed" /\ UNCHANGED toParent
  BY <1>2 DEF ParentPcs
<1>3. QED
  BY <1>1, <1>2 DEF read_async

\* A write to the sync pipe appends a tag, or fails with EPIPE.
LEMMA WriteAsyncType ==
  ASSUME NEW tag \in Tags, NEW next \in ParentPcs, toChild \in Seq(Tags),
         write_async(tag, next)
  PROVE  toChild' \in Seq(Tags) /\ ppc' \in ParentPcs
BY AppendProperties DEF write_async, ParentPcs

\* Every step of join_namespaces and of the child keeps each variable in its
\* type: the pipes hold only the three tags, done only names setup steps.
LEMMA TypeStep == TypeOK /\ [Next]_vars => TypeOK'
<1> SUFFICES ASSUME TypeOK, [Next]_vars PROVE TypeOK'
  OBVIOUS
<1> USE DEF TypeOK
<1>1. ASSUME Parent PROVE TypeOK'
  <2>1. CASE SendSpec
    BY <2>1, WriteAsyncType DEF SendSpec, PUnchanged, ParentPcs, Tags
  <2>2. CASE AwaitSpecAck
    BY <2>2, ReadAsyncType DEF AwaitSpecAck, PUnchanged, ParentPcs
  <2>3. CASE SendProcess
    BY <2>3, WriteAsyncType DEF SendProcess, PUnchanged, ParentPcs, Tags
  <2>4. CASE AwaitProcessAck
    BY <2>4, ReadAsyncType DEF AwaitProcessAck, PUnchanged, ParentPcs
  <2>5. CASE SendState
    BY <2>5, WriteAsyncType DEF SendState, PUnchanged, ParentPcs, Tags
  <2>6. CASE AwaitStateAck
    BY <2>6, ReadAsyncType DEF AwaitStateAck, PUnchanged, ParentPcs
  <2>7. CASE SendCgroup
    BY <2>7, WriteAsyncType DEF SendCgroup, PUnchanged, ParentPcs, Tags
  <2>8. CASE AwaitUserns
    BY <2>8, ReadAsyncType DEF AwaitUserns, PUnchanged, ParentPcs
  <2>9. CASE Configure
    <3>1. done' \subseteq SetupSteps /\ UNCHANGED <<cfg, cpc, calive, toParent,
                                                  hooksRan, cUserns>>
      BY <2>9 DEF Configure, Planned
    <3>2. CASE \E f \in Planned \cap Fallible : ppc' = "Failed"
                                               /\ UNCHANGED toChild
      BY <3>1, <3>2 DEF ParentPcs
    <3>3. CASE write_async("SUCCESS", IF cfg.init THEN "AwaitHookReady"
                                                  ELSE "AwaitExecReady")
      BY <3>1, <3>3, WriteAsyncType DEF ParentPcs, Tags
    <3>4. QED
      BY <2>9, <3>2, <3>3 DEF Configure
  <2>10. CASE AwaitHookReady
    BY <2>10, ReadAsyncType DEF AwaitHookReady, PUnchanged, ParentPcs
  <2>11. CASE RunHooks
    <3>1. CASE cfg.hooks /\ "hook" \in Faults /\ ppc' = "Failed"
              /\ UNCHANGED <<toChild, hooksRan>>
      BY <2>11, <3>1 DEF RunHooks, ParentPcs
    <3>2. CASE hooksRan' = cfg.hooks /\ write_async("SUCCESS", "AwaitExecReady")
      <4>1. hooksRan' \in BOOLEAN
        BY <3>2 DEF Configs
      <4>2. QED
        BY <2>11, <3>2, <4>1, WriteAsyncType DEF RunHooks, ParentPcs, Tags
    <3>3. QED
      BY <2>11, <3>1, <3>2 DEF RunHooks
  <2>12. CASE AwaitExecReady
    BY <2>12, ReadAsyncType DEF AwaitExecReady, PUnchanged, ParentPcs
  <2>13. QED
    BY <1>1, <2>1, <2>2, <2>3, <2>4, <2>5, <2>6, <2>7, <2>8, <2>9, <2>10,
       <2>11, <2>12 DEF Parent
<1>2. ASSUME Child PROVE TypeOK'
  <2>1. CASE ChildRecvConfig
    BY <2>1, HeadTailProperties, AppendProperties
      DEF ChildRecvConfig, CanRead, CUnchanged, ChildPcs, Tags
  <2>2. CASE ChildRecvCgroup
    BY <2>2, HeadTailProperties, AppendProperties
      DEF ChildRecvCgroup, CanRead, CUnchanged, ChildPcs, Tags
  <2>3. CASE ChildSetupNs
    BY <2>3, AppendProperties DEF ChildSetupNs, CUnchanged, ChildPcs, Tags,
                                 ChildCreatesNew
  <2>4. CASE ChildRecvContinue
    BY <2>4, HeadTailProperties, AppendProperties
      DEF ChildRecvContinue, CanRead, CUnchanged, ChildPcs, Tags
  <2>5. CASE ChildRecvHooksDone
    <3>1. toChild' \in Seq(Tags)
      BY <2>5, HeadTailProperties DEF ChildRecvHooksDone, CanRead
    <3>2. toParent' \in Seq(Tags)
      BY <2>5, AppendProperties DEF ChildRecvHooksDone, Tags
    <3>3. QED
      BY <2>5, <3>1, <3>2 DEF ChildRecvHooksDone, CUnchanged, ChildPcs
  <2>6. CASE ChildFail
    <3>1. toParent' \in Seq(Tags)
      BY <2>6, AppendProperties DEF ChildFail, Tags
    <3>2. QED
      BY <2>6, <3>1 DEF ChildFail, CUnchanged
  <2>7. CASE ChildExit
    BY <2>7 DEF ChildExit, CUnchanged
  <2>8. QED
    BY <1>2, <2>1, <2>2, <2>3, <2>4, <2>5, <2>6, <2>7 DEF Child
<1>3. CASE UNCHANGED vars
  BY <1>3 DEF vars
<1>4. QED
  BY <1>1, <1>2, <1>3 DEF Next

\* A start begins in the types: both pipes empty, both sides at their first
\* place.
LEMMA InitType == Init => TypeOK
<1>1. <<>> \in Seq(Tags)
  BY EmptySeq
<1>2. QED
  BY <1>1 DEF Init, TypeOK, ParentPcs, ChildPcs

\* Type correctness of the whole handshake: no run of join_namespaces
\* against its child puts anything but a tag in a pipe or leaves the
\* program counters of the two sides.
THEOREM TypeCorrect == Spec => []TypeOK
BY InitType, TypeStep, PTL DEF Spec

-----------------------------------------------------------------------------
(* The protocol invariant.                                                 *)

IInv == TypeOK /\ Sync /\ UsernsInv /\ DoneInv /\ HooksInv

\* A child stuck on a read is where a row of the table left it.
LEMMA StuckRow ==
  ASSUME Stuck(cfg.init, cpc, toChild, toParent)
  PROVE  \E p \in ParentPcs, tp \in {<<>>, <<S>>} :
           Row(cfg.init, p, cpc, toChild, tp)
<1> USE DEF Stuck, Row, CommonRow, InitRow, ParentPcs
<1>1. CASE cpc = "ReadSpec"
  <2>1. Row(cfg.init, "SendSpec", cpc, toChild, <<>>)  BY <1>1
  <2>2. QED  BY <2>1
<1>2. CASE cpc = "ReadCgroup"
  <2>1. Row(cfg.init, "SendCgroup", cpc, toChild, <<>>)  BY <1>2
  <2>2. QED  BY <2>1
<1>3. CASE cpc = "AwaitContinue"
  <2>1. Row(cfg.init, "Configure", cpc, toChild, <<>>)  BY <1>3
  <2>2. QED  BY <2>1
<1>4. CASE cpc = "AwaitHooksDone"
  <2>1. Row(cfg.init, "RunHooks", cpc, toChild, <<>>)  BY <1>4
  <2>2. QED  BY <2>1
<1>5. QED
  BY <1>1, <1>2, <1>3, <1>4

\* A frame written behind a single frame: the pipe holds the two, in order.
LEMMA AppendPair ==
  ASSUME NEW a, NEW b
  PROVE  Append(<<a>>, b) = <<a, b>>
<1> DEFINE T == {a, b}
<1>1. <<a>> \in Seq(T) /\ <<a, b>> \in Seq(T) /\ Len(<<a>>) = 1
  OBVIOUS
<1>2. /\ Append(<<a>>, b) \in Seq(T)
      /\ Len(Append(<<a>>, b)) = 2
      /\ Append(<<a>>, b)[1] = a
      /\ Append(<<a>>, b)[2] = b
  BY <1>1, AppendProperties
<1>3. /\ Len(Append(<<a>>, b)) = Len(<<a, b>>)
      /\ \A i \in 1 .. Len(Append(<<a>>, b)) : Append(<<a>>, b)[i] = <<a, b>>[i]
  BY <1>2
<1>4. QED
  BY <1>1, <1>2, <1>3, SeqEqual, Zenon

\* The shape of a row: the parent is at one of its places short of the end,
\* the parent -> child pipe holds at most one frame and the child -> parent
\* pipe at most one ack.
LEMMA RowShape ==
  ASSUME NEW i \in BOOLEAN, NEW p, NEW c, NEW tc, NEW tp, Row(i, p, c, tc, tp)
  PROVE  /\ p \in ParentPcs \ Terminal
         /\ tc \in {<<>>, <<D>>, <<S>>}
         /\ tp \in {<<>>, <<S>>}
<1>1. CASE CommonRow(p, c, tc, tp)
  BY <1>1 DEF CommonRow, ParentPcs, Terminal
<1>2. CASE i /\ InitRow(p, c, tc, tp)
  BY <1>2 DEF InitRow, ParentPcs, Terminal
<1>3. CASE ~i /\ ExecRow(p, c, tc, tp)
  BY <1>3 DEF ExecRow, ParentPcs, Terminal
<1>4. QED
  BY <1>1, <1>2, <1>3 DEF Row

\* The rows a read of the parent moves between: with the child's ack in its
\* pipe, the parent goes on to its next place.
LEMMA ReadTable ==
  ASSUME NEW i \in BOOLEAN
  PROVE  /\ \A c, tc : Row(i, "AwaitSpecAck", c, tc, <<S>>)
                         => Row(i, "SendProcess", c, tc, <<>>)
         /\ \A c, tc : Row(i, "AwaitProcessAck", c, tc, <<S>>)
                         => Row(i, "SendState", c, tc, <<>>)
         /\ \A c, tc : Row(i, "AwaitStateAck", c, tc, <<S>>)
                         => Row(i, "SendCgroup", c, tc, <<>>)
         /\ \A c, tc : Row(i, "AwaitUserns", c, tc, <<S>>)
                         => Row(i, "Configure", c, tc, <<>>)
         /\ \A c, tc : Row(i, "AwaitHookReady", c, tc, <<S>>)
                         => Row(i, "RunHooks", c, tc, <<>>)
         /\ \A c, tc : Row(i, "AwaitExecReady", c, tc, <<S>>)
                         => Row(i, "Done", c, tc, <<>>)
<1> USE DEF Row, CommonRow, InitRow, ExecRow, S
<1>1. \A c, tc : Row(i, "AwaitSpecAck", c, tc, <<S>>)
                   => Row(i, "SendProcess", c, tc, <<>>)
  OBVIOUS
<1>2. \A c, tc : Row(i, "AwaitProcessAck", c, tc, <<S>>)
                   => Row(i, "SendState", c, tc, <<>>)
  OBVIOUS
<1>3. \A c, tc : Row(i, "AwaitStateAck", c, tc, <<S>>)
                   => Row(i, "SendCgroup", c, tc, <<>>)
  OBVIOUS
<1>4. \A c, tc : Row(i, "AwaitUserns", c, tc, <<S>>)
                   => Row(i, "Configure", c, tc, <<>>)
  OBVIOUS
<1>5. \A c, tc : Row(i, "AwaitHookReady", c, tc, <<S>>)
                   => Row(i, "RunHooks", c, tc, <<>>)
  OBVIOUS
<1>6. \A c, tc : Row(i, "AwaitExecReady", c, tc, <<S>>)
                   => Row(i, "Done", c, tc, <<>>)
  OBVIOUS
<1>7. QED
  BY <1>1, <1>2, <1>3, <1>4, <1>5, <1>6

\* The rows a write of the parent moves between: it writes with both pipes
\* empty, and its frame is what the next row expects in the child's pipe.
WriteRow(i, p, n, t) ==
  \A c, tc, tp : Row(i, p, c, tc, tp)
                   => tc = <<>> /\ tp = <<>> /\ Row(i, n, c, <<t>>, <<>>)

LEMMA WriteTable ==
  ASSUME NEW i \in BOOLEAN
  PROVE  /\ WriteRow(i, "SendSpec", "AwaitSpecAck", D)
         /\ WriteRow(i, "SendProcess", "AwaitProcessAck", D)
         /\ WriteRow(i, "SendState", "AwaitStateAck", D)
         /\ WriteRow(i, "SendCgroup", "AwaitUserns", D)
         /\ WriteRow(i, "Configure",
                     IF i THEN "AwaitHookReady" ELSE "AwaitExecReady", S)
         /\ WriteRow(i, "RunHooks", "AwaitExecReady", S)
<1> USE DEF WriteRow, Row, CommonRow, InitRow, ExecRow, D, S
<1>1. WriteRow(i, "SendSpec", "AwaitSpecAck", D)
  OBVIOUS
<1>2. WriteRow(i, "SendProcess", "AwaitProcessAck", D)
  OBVIOUS
<1>3. WriteRow(i, "SendState", "AwaitStateAck", D)
  OBVIOUS
<1>4. WriteRow(i, "SendCgroup", "AwaitUserns", D)
  OBVIOUS
<1>5. WriteRow(i, "Configure",
               IF i THEN "AwaitHookReady" ELSE "AwaitExecReady", S)
  OBVIOUS
<1>6. WriteRow(i, "RunHooks", "AwaitExecReady", S)
  OBVIOUS
<1>7. QED
  BY <1>1, <1>2, <1>3, <1>4, <1>5, <1>6

\* Where the parent can give up of its own accord (no linux section, the
\* systemd todo!, a failed setup step or hook), the child is blocked on a
\* read of an empty pipe.
LEMMA AbortTable ==
  ASSUME NEW i \in BOOLEAN, NEW c, NEW tc, NEW tp,
         NEW p \in {"SendSpec", "SendCgroup", "Configure", "RunHooks"},
         Row(i, p, c, tc, tp)
  PROVE  Stuck(i, c, tc, tp)
BY DEF Row, CommonRow, InitRow, ExecRow, Stuck

\* The rows a read of the child moves between: the frame it expects takes
\* it to its next place, with its ack (if it sends one) in the parent's pipe.
ChildRow(i, c, e, c2, ack) ==
  \A p, tp : Row(i, p, c, <<e>>, tp) => tp = <<>> /\ Row(i, p, c2, <<>>, ack)

LEMMA ChildTable ==
  ASSUME NEW i \in BOOLEAN
  PROVE  /\ ChildRow(i, "ReadSpec", D, "ReadProcess", <<S>>)
         /\ ChildRow(i, "ReadProcess", D, "ReadState", <<S>>)
         /\ ChildRow(i, "ReadState", D, "ReadCgroup", <<S>>)
         /\ ChildRow(i, "ReadCgroup", D, "SetupNs", <<>>)
         /\ ChildRow(i, "AwaitContinue", S,
                     IF i THEN "AwaitHooksDone" ELSE "Exec", <<S>>)
         /\ ChildRow(i, "AwaitHooksDone", S, "Exec", <<S>>)
<1> USE DEF ChildRow, Row, CommonRow, InitRow, ExecRow, D, S
<1>1. ChildRow(i, "ReadSpec", D, "ReadProcess", <<S>>)
  OBVIOUS
<1>2. ChildRow(i, "ReadProcess", D, "ReadState", <<S>>)
  OBVIOUS
<1>3. ChildRow(i, "ReadState", D, "ReadCgroup", <<S>>)
  OBVIOUS
<1>4. ChildRow(i, "ReadCgroup", D, "SetupNs", <<>>)
  OBVIOUS
<1>5. ChildRow(i, "AwaitContinue", S,
               IF i THEN "AwaitHooksDone" ELSE "Exec", <<S>>)
  OBVIOUS
<1>6. ChildRow(i, "AwaitHooksDone", S, "Exec", <<S>>)
  OBVIOUS
<1>7. QED
  BY <1>1, <1>2, <1>3, <1>4, <1>5, <1>6

\* The child's namespace setup, the one step it takes without a read.
LEMMA SetupNsTable ==
  ASSUME NEW i \in BOOLEAN, NEW p, NEW tc, NEW tp, Row(i, p, "SetupNs", tc, tp)
  PROVE  tc = <<>> /\ tp = <<>> /\ Row(i, p, "AwaitContinue", <<>>, <<S>>)
BY DEF Row, CommonRow, InitRow, ExecRow

\* The parent has given up and the child is gone, where a row left them.
LEMMA GoneIntro ==
  ASSUME NEW p \in ParentPcs, NEW tp \in {<<>>, <<S>>},
         Row(cfg.init, p, cpc, toChild, tp)',
         ppc' \in Terminal, ~calive', toParent' \in {<<>>, <<F>>}
  PROVE  Sync'
BY DEF Sync, SyncGone

\* A read of the parent (read_async) keeps the table, when the child's ack
\* takes the parent from where it is to where it goes next.
LEMMA ReadStep ==
  ASSUME TypeOK, Sync, NEW n, ppc \notin Terminal, read_async(n),
         cfg' = cfg, cpc' = cpc, calive' = calive, toChild' = toChild,
         \A c, tc : Row(cfg.init, ppc, c, tc, <<S>>)
                      => Row(cfg.init, n, c, tc, <<>>)
  PROVE  Sync'
<1> DEFINE i == cfg.init
<1>0. i \in BOOLEAN /\ ppc \in ParentPcs
  BY DEF TypeOK, Configs
<1>1. CASE SyncRow
  <2>1. toParent \in {<<>>, <<S>>}
    BY <1>0, <1>1, RowShape DEF SyncRow
  <2>2. CASE toParent = <<S>>
    <3>1. toParent' = <<>> /\ ppc' = n
      BY <2>2 DEF read_async, S
    <3>2. Row(i, n, cpc, toChild, <<>>)
      BY <1>1, <2>2 DEF SyncRow
    <3>3. QED
      BY <3>1, <3>2 DEF Sync, SyncRow
  <2>3. CASE toParent = <<>>
    <3>1. ~calive /\ ppc' = "Failed" /\ toParent' = <<>>
      BY <2>3 DEF read_async
    <3>2. Row(cfg'.init, ppc, cpc', toChild', <<>>)
      BY <1>1, <2>3 DEF SyncRow
    <3>3. QED
      BY <1>0, <3>1, <3>2, GoneIntro DEF Terminal
  <2>4. QED
    BY <2>1, <2>2, <2>3
<1>2. CASE SyncFailed
  <2>1. CASE toParent = <<F>> /\ Row(i, ppc, cpc, toChild, <<>>)
    <3>1. ppc' = "Failed" /\ toParent' = <<>>
      BY <2>1 DEF read_async, F
    <3>2. Row(cfg'.init, ppc, cpc', toChild', <<>>) /\ ~calive'
      BY <1>2, <2>1 DEF SyncFailed
    <3>3. QED
      BY <1>0, <3>1, <3>2, GoneIntro DEF Terminal
  <2>2. CASE toParent = <<S, F>> /\ Row(i, ppc, cpc, toChild, <<S>>)
    <3>1. ppc' = n /\ toParent' = <<F>>
      BY <2>2 DEF read_async, S, F
    <3>2. Row(i, n, cpc, toChild, <<>>)
      BY <2>2
    <3>3. QED
      BY <1>2, <3>1, <3>2 DEF Sync, SyncFailed
  <2>3. QED
    BY <1>2, <2>1, <2>2 DEF SyncFailed
<1>3. CASE SyncGone \/ SyncStuck
  BY <1>3 DEF SyncGone, SyncStuck
<1>4. QED
  BY <1>1, <1>2, <1>3 DEF Sync

\* A write of the parent (write_async) keeps the table, when the frame it
\* writes takes the parent to the row WriteRow names.
LEMMA WriteStep ==
  ASSUME TypeOK, Sync, NEW n, NEW t, ppc \notin Terminal, write_async(t, n),
         cfg' = cfg, cpc' = cpc, calive' = calive, toParent' = toParent,
         WriteRow(cfg.init, ppc, n, t)
  PROVE  Sync'
<1> DEFINE i == cfg.init
<1>0. i \in BOOLEAN /\ ppc \in ParentPcs
  BY DEF TypeOK, Configs
<1>1. CASE SyncRow /\ calive
  <2>1. toChild = <<>> /\ toParent = <<>> /\ Row(i, n, cpc, <<t>>, <<>>)
    BY <1>1 DEF SyncRow, WriteRow
  <2>2. ppc' = n /\ toChild' = <<t>>
    BY <1>1, <2>1 DEF write_async
  <2>3. QED
    BY <2>1, <2>2 DEF Sync, SyncRow
<1>2. CASE SyncRow /\ ~calive
  <2>1. toParent = <<>>
    BY <1>2 DEF SyncRow, WriteRow
  <2>2. ppc' = "Failed" /\ toChild' = toChild
    BY <1>2 DEF write_async
  <2>3. Row(cfg'.init, ppc, cpc', toChild', <<>>)
    BY <1>2, <2>1, <2>2 DEF SyncRow
  <2>4. QED
    BY <1>0, <1>2, <2>1, <2>2, <2>3, GoneIntro DEF Terminal
<1>3. CASE SyncFailed
  <2>1. toParent = <<F>> /\ Row(i, ppc, cpc, toChild, <<>>) /\ ~calive
    BY <1>3 DEF SyncFailed, WriteRow
  <2>2. ppc' = "Failed" /\ toChild' = toChild
    BY <2>1 DEF write_async
  <2>3. Row(cfg'.init, ppc, cpc', toChild', <<>>)
    BY <2>1, <2>2
  <2>4. QED
    BY <1>0, <2>1, <2>2, <2>3, GoneIntro DEF Terminal
<1>4. CASE SyncGone \/ SyncStuck
  BY <1>4 DEF SyncGone, SyncStuck
<1>5. QED
  BY <1>1, <1>2, <1>3, <1>4 DEF Sync

\* The parent giving up of its own accord keeps the table: the child is
\* left blocked, or gone.
LEMMA AbortStep ==
  ASSUME TypeOK, Sync,
         ppc \in {"SendSpec", "SendCgroup", "Configure", "RunHooks"},
         ppc' \in Terminal,
         cfg' = cfg, cpc' = cpc, calive' = calive, toChild' = toChild,
         toParent' = toParent
  PROVE  Sync'
<1> DEFINE i == cfg.init
<1>0. i \in BOOLEAN /\ ppc \in ParentPcs
  BY DEF TypeOK, Configs, ParentPcs
<1>1. CASE SyncRow
  <2>1. Stuck(i, cpc, toChild, toParent)
    BY <1>0, <1>1, AbortTable DEF SyncRow
  <2>2. toParent = <<>>
    BY <2>1 DEF Stuck
  <2>3. CASE calive
    BY <2>1, <2>3 DEF Sync, SyncStuck
  <2>4. CASE ~calive
    <3>1. Row(cfg'.init, ppc, cpc', toChild', <<>>)
      BY <1>1, <2>2 DEF SyncRow
    <3>2. QED
      BY <1>0, <2>2, <2>4, <3>1, GoneIntro
  <2>5. QED
    BY <2>3, <2>4
<1>2. CASE SyncFailed
  <2>1. ~Row(i, ppc, cpc, toChild, <<S>>)
    BY <1>0, AbortTable DEF Stuck
  <2>2. toParent = <<F>> /\ Row(cfg'.init, ppc, cpc', toChild', <<>>)
        /\ ~calive
    BY <1>2, <2>1 DEF SyncFailed
  <2>3. QED
    BY <1>0, <2>2, GoneIntro
<1>3. CASE SyncGone \/ SyncStuck
  BY <1>3 DEF SyncGone, SyncStuck, Terminal
<1>4. QED
  BY <1>1, <1>2, <1>3 DEF Sync

\* A read of the child keeps the table, when the frame at the head of its
\* pipe is the one ChildRow names.
LEMMA ChildReadStep ==
  ASSUME TypeOK, Sync, NEW c, NEW e, NEW c2, NEW ack \in {<<>>, <<S>>},
         cpc = c, calive, toChild # <<>>, Head(toChild) = e,
         toChild' = Tail(toChild), cpc' = c2,
         toParent = <<>> => toParent' = ack,
         cfg' = cfg, ppc' = ppc, calive' = calive,
         ChildRow(cfg.init, c, e, c2, ack)
  PROVE  Sync'
<1> DEFINE i == cfg.init
<1>0. i \in BOOLEAN
  BY DEF TypeOK, Configs
<1>1. SyncRow
  <2>1. ~SyncFailed /\ ~SyncGone /\ ~SyncStuck
    BY DEF SyncFailed, SyncGone, SyncStuck, Stuck
  <2>2. QED
    BY <2>1 DEF Sync
<1>2. toChild = <<e>>
  <2>1. toChild \in {<<>>, <<D>>, <<S>>}
    BY <1>0, <1>1, RowShape DEF SyncRow
  <2>2. QED
    BY <2>1
<1>3. toParent = <<>> /\ Row(i, ppc, c2, <<>>, ack)
  BY <1>1, <1>2 DEF SyncRow, ChildRow
<1>4. toChild' = <<>> /\ toParent' = ack
  BY <1>2, <1>3
<1>5. Row(cfg'.init, ppc', cpc', toChild', toParent')
  BY <1>3, <1>4, Zenon
<1>6. QED
  BY <1>5 DEF Sync, SyncRow

\* Every step of either side keeps the two in the protocol table.
LEMMA SyncStep == TypeOK /\ Sync /\ [Next]_vars => Sync'
<1> SUFFICES ASSUME TypeOK, Sync, [Next]_vars PROVE Sync'
  OBVIOUS
<1> DEFINE i == cfg.init
<1>0. i \in BOOLEAN
  BY DEF TypeOK, Configs
<1>1. CASE SendSpec
  <2>1. CASE cfg.linux
    BY <1>0, <1>1, <2>1, WriteTable, WriteStep
    DEF SendSpec, PUnchanged, Terminal, D
  <2>2. CASE ~cfg.linux
    BY <1>1, <2>2, AbortStep DEF SendSpec, PUnchanged, Terminal
  <2>3. QED
    BY <2>1, <2>2
<1>2. CASE AwaitSpecAck
  BY <1>0, <1>2, ReadTable, ReadStep DEF AwaitSpecAck, PUnchanged, Terminal
<1>3. CASE SendProcess
  BY <1>0, <1>3, WriteTable, WriteStep DEF SendProcess, PUnchanged, Terminal, D
<1>4. CASE AwaitProcessAck
  BY <1>0, <1>4, ReadTable, ReadStep
  DEF AwaitProcessAck, PUnchanged, Terminal
<1>5. CASE SendState
  BY <1>0, <1>5, WriteTable, WriteStep DEF SendState, PUnchanged, Terminal, D
<1>6. CASE AwaitStateAck
  BY <1>0, <1>6, ReadTable, ReadStep DEF AwaitStateAck, PUnchanged, Terminal
<1>7. CASE SendCgroup
  <2>1. CASE ~cfg.systemd
    BY <1>0, <1>7, <2>1, WriteTable, WriteStep
    DEF SendCgroup, PUnchanged, Terminal, D
  <2>2. CASE cfg.systemd
    BY <1>7, <2>2, AbortStep DEF SendCgroup, PUnchanged, Terminal
  <2>3. QED
    BY <2>1, <2>2
<1>8. CASE AwaitUserns
  BY <1>0, <1>8, ReadTable, ReadStep DEF AwaitUserns, PUnchanged, Terminal
<1>9. CASE Configure
  <2>1. CASE \E f \in Planned \cap Fallible : ppc' = "Failed"
                                             /\ UNCHANGED toChild
    BY <1>9, <2>1, AbortStep DEF Configure, Terminal
  <2>2. CASE write_async("SUCCESS", IF cfg.init THEN "AwaitHookReady"
                                                ELSE "AwaitExecReady")
    BY <1>0, <1>9, <2>2, WriteTable, WriteStep DEF Configure, Terminal, S
  <2>3. QED
    BY <1>9, <2>1, <2>2 DEF Configure
<1>10. CASE AwaitHookReady
  BY <1>0, <1>10, ReadTable, ReadStep DEF AwaitHookReady, PUnchanged, Terminal
<1>11. CASE RunHooks
  <2>1. CASE ppc' = "Failed" /\ UNCHANGED toChild
    BY <1>11, <2>1, AbortStep DEF RunHooks, Terminal
  <2>2. CASE write_async("SUCCESS", "AwaitExecReady")
    BY <1>0, <1>11, <2>2, WriteTable, WriteStep DEF RunHooks, Terminal, S
  <2>3. QED
    BY <1>11, <2>1, <2>2 DEF RunHooks
<1>12. CASE AwaitExecReady
  BY <1>0, <1>12, ReadTable, ReadStep DEF AwaitExecReady, PUnchanged, Terminal
<1>13. CASE ChildRecvConfig
  <2>1. /\ calive /\ toChild # <<>> /\ Head(toChild) = Expect[cpc]
        /\ toChild' = Tail(toChild) /\ toParent' = Append(toParent, S)
        /\ cfg' = cfg /\ ppc' = ppc /\ calive' = calive
    BY <1>13 DEF ChildRecvConfig, CanRead, CUnchanged, S
  <2>2. toParent = <<>> => toParent' = <<S>>
    BY <2>1
  <2>3. CASE cpc = "ReadSpec"
    <3>1. cpc' = "ReadProcess" /\ Expect[cpc] = D
      BY <1>13, <2>3 DEF ChildRecvConfig, Expect, D
    <3>2. QED
      BY <1>0, <2>1, <2>2, <2>3, <3>1, ChildTable, ChildReadStep
  <2>4. CASE cpc = "ReadProcess"
    <3>1. cpc' = "ReadState" /\ Expect[cpc] = D
      BY <1>13, <2>4 DEF ChildRecvConfig, Expect, D
    <3>2. QED
      BY <1>0, <2>1, <2>2, <2>4, <3>1, ChildTable, ChildReadStep
  <2>5. CASE cpc = "ReadState"
    <3>1. cpc' = "ReadCgroup" /\ Expect[cpc] = D
      BY <1>13, <2>5 DEF ChildRecvConfig, Expect, D
    <3>2. QED
      BY <1>0, <2>1, <2>2, <2>5, <3>1, ChildTable, ChildReadStep
  <2>6. QED
    BY <1>13, <2>3, <2>4, <2>5 DEF ChildRecvConfig
<1>14. CASE ChildRecvCgroup
  <2>1. /\ cpc = "ReadCgroup" /\ cpc' = "SetupNs"
        /\ calive /\ toChild # <<>> /\ Head(toChild) = Expect[cpc]
        /\ toChild' = Tail(toChild) /\ toParent' = toParent
        /\ cfg' = cfg /\ ppc' = ppc /\ calive' = calive
    BY <1>14 DEF ChildRecvCgroup, CanRead, CUnchanged
  <2>2. Expect[cpc] = D
    BY <2>1 DEF Expect, D
  <2>3. QED
    BY <1>0, <2>1, <2>2, ChildTable, ChildReadStep
<1>15. CASE ChildSetupNs
  <2>1. /\ cpc = "SetupNs" /\ calive /\ cpc' = "AwaitContinue"
        /\ toParent' = Append(toParent, S)
        /\ toChild' = toChild /\ cfg' = cfg /\ ppc' = ppc /\ calive' = calive
    BY <1>15 DEF ChildSetupNs, CUnchanged, S
  <2>2. SyncRow
    BY <2>1 DEF Sync, SyncFailed, SyncGone, SyncStuck, Stuck
  <2>3. toChild = <<>> /\ toParent = <<>>
        /\ Row(i, ppc, "AwaitContinue", <<>>, <<S>>)
    BY <1>0, <2>1, <2>2, SetupNsTable DEF SyncRow
  <2>4. toParent' = <<S>>
    BY <2>1, <2>3
  <2>5. QED
    BY <2>1, <2>3, <2>4 DEF Sync, SyncRow
<1>16. CASE ChildRecvContinue
  <2>1. /\ cpc = "AwaitContinue"
        /\ cpc' = IF cfg.init THEN "AwaitHooksDone" ELSE "Exec"
        /\ calive /\ toChild # <<>> /\ Head(toChild) = Expect[cpc]
        /\ toChild' = Tail(toChild) /\ toParent' = Append(toParent, S)
        /\ cfg' = cfg /\ ppc' = ppc /\ calive' = calive
    BY <1>16 DEF ChildRecvContinue, CanRead, CUnchanged, S
  <2>2. Expect[cpc] = S
    BY <2>1 DEF Expect, S
  <2>3. toParent = <<>> => toParent' = <<S>>
    BY <2>1
  <2>4. QED
    BY <1>0, <2>1, <2>2, <2>3, ChildTable, ChildReadStep
<1>17. CASE ChildRecvHooksDone
  <2>1. /\ cpc = "AwaitHooksDone"
        /\ cpc' = "Exec"
        /\ calive /\ toChild # <<>> /\ Head(toChild) = Expect[cpc]
        /\ toChild' = Tail(toChild) /\ toParent' = Append(toParent, S)
        /\ cfg' = cfg /\ ppc' = ppc /\ calive' = calive
    BY <1>17 DEF ChildRecvHooksDone, CanRead, CUnchanged, S
  <2>2. Expect[cpc] = S
    BY <2>1 DEF Expect, S
  <2>3. toParent = <<>> => toParent' = <<S>>
    BY <2>1
  <2>4. QED
    BY <1>0, <2>1, <2>2, <2>3, ChildTable, ChildReadStep
<1>18. CASE ChildFail
  <2>1. /\ calive /\ ~calive' /\ toParent' = Append(toParent, F)
        /\ cpc' = cpc /\ toChild' = toChild /\ cfg' = cfg /\ ppc' = ppc
    BY <1>18 DEF ChildFail, CUnchanged, F
  <2>2. CASE SyncRow
    <3>1. toParent \in {<<>>, <<S>>}
      BY <1>0, <2>2, RowShape DEF SyncRow
    <3>2. CASE toParent = <<>>
      <4>1. toParent' = <<F>>
        BY <2>1, <3>2
      <4>2. QED
        BY <2>1, <2>2, <3>2, <4>1 DEF Sync, SyncFailed, SyncRow
    <3>3. CASE toParent = <<S>>
      <4>1. toParent' = <<S, F>>
        BY <2>1, <3>3, AppendPair
      <4>2. Row(cfg'.init, ppc', cpc', toChild', <<S>>)
        BY <2>1, <2>2, <3>3, Zenon DEF SyncRow
      <4>3. QED
        BY <2>1, <4>1, <4>2 DEF Sync, SyncFailed
    <3>4. QED
      BY <3>1, <3>2, <3>3
  <2>3. CASE SyncStuck
    <3>1. toParent = <<>> /\ ppc \in Terminal
      BY <2>3 DEF SyncStuck, Stuck
    <3>2. PICK p \in ParentPcs, tp \in {<<>>, <<S>>} :
                 Row(i, p, cpc, toChild, tp)
      BY <2>3, StuckRow DEF SyncStuck
    <3>3. toParent' = <<F>> /\ Row(cfg'.init, p, cpc', toChild', tp)
      BY <2>1, <3>1, <3>2
    <3>4. QED
      BY <2>1, <3>1, <3>3, GoneIntro
  <2>4. CASE SyncFailed \/ SyncGone
    BY <2>1, <2>4 DEF SyncFailed, SyncGone
  <2>5. QED
    BY <2>2, <2>3, <2>4 DEF Sync
<1>19. CASE ChildExit
  <2>1. /\ calive /\ ~calive' /\ toParent' = toParent
        /\ cpc' = cpc /\ toChild' = toChild /\ cfg' = cfg /\ ppc' = ppc
    BY <1>19 DEF ChildExit, CUnchanged
  <2>2. CASE SyncRow
    BY <2>1, <2>2 DEF Sync, SyncRow
  <2>3. CASE SyncStuck
    <3>1. toParent = <<>> /\ ppc \in Terminal
      BY <2>3 DEF SyncStuck, Stuck
    <3>2. PICK p \in ParentPcs, tp \in {<<>>, <<S>>} :
                 Row(i, p, cpc, toChild, tp)
      BY <2>3, StuckRow DEF SyncStuck
    <3>3. Row(cfg'.init, p, cpc', toChild', tp)
      BY <2>1, <3>2
    <3>4. QED
      BY <2>1, <3>1, <3>3, GoneIntro
  <2>4. CASE SyncFailed \/ SyncGone
    BY <2>1, <2>4 DEF SyncFailed, SyncGone
  <2>5. QED
    BY <2>2, <2>3, <2>4 DEF Sync
<1>20. CASE UNCHANGED vars
  BY <1>20 DEF vars, Sync, SyncRow, SyncFailed, SyncGone, SyncStuck
<1>21. QED
  BY <1>1, <1>2, <1>3, <1>4, <1>5, <1>6, <1>7, <1>8, <1>9, <1>10, <1>11,
     <1>12, <1>13, <1>14, <1>15, <1>16, <1>17, <1>18, <1>19, <1>20
  DEF Next, Parent, Child

\* What the table says of one side given the other: the parent sets up the
\* child only while the child waits for "continue", runs the hooks only for
\* an init process waiting for them, and a live child finds "continue" or
\* "hooks complete" in its pipe only once the parent has sent it.
LEMMA SyncFacts ==
  ASSUME TypeOK, Sync
  PROVE  /\ ppc = "Configure" => cpc = "AwaitContinue"
         /\ ppc = "RunHooks" => cfg.init /\ cpc = "AwaitHooksDone"
         /\ calive /\ cpc = "AwaitContinue" /\ toChild # <<>> /\ Head(toChild) = S
              => ppc \in PostConfigure
         /\ calive /\ cpc = "AwaitHooksDone" /\ toChild # <<>> /\ Head(toChild) = S
              => ppc \in {"AwaitExecReady", "Done"}
BY DEF TypeOK, Sync, SyncRow, SyncFailed, SyncGone, SyncStuck, Row,
       CommonRow, InitRow, ExecRow, Stuck, Terminal, D, S, F, PostConfigure

\* The configuration of a start never changes, and with it the plan.
LEMMA PlanFixed == [Next]_vars => cfg' = cfg /\ Planned' = Planned
<1>1. [Next]_vars => cfg' = cfg
  BY DEF Next, Parent, Child, vars, PUnchanged, CUnchanged,
     SendSpec, AwaitSpecAck, SendProcess, AwaitProcessAck, SendState, AwaitStateAck, SendCgroup, AwaitUserns, Configure, AwaitHookReady, RunHooks, AwaitExecReady, ChildRecvConfig, ChildRecvCgroup, ChildSetupNs, ChildRecvContinue, ChildRecvHooksDone, ChildFail, ChildExit
<1>2. QED
  BY <1>1 DEF Planned

\* Only the child's namespace setup changes its user namespace, and it
\* leaves PreSetup as it does so.
LEMMA UsernsStep ==
  ASSUME TypeOK, UsernsInv, [Next]_vars
  PROVE  UsernsInv'
<1> USE DEF TypeOK, UsernsInv, PreSetup
<1>1. CASE SendSpec
  BY <1>1 DEF SendSpec, write_async, PUnchanged
<1>2. CASE AwaitSpecAck
  BY <1>2 DEF AwaitSpecAck, read_async, PUnchanged
<1>3. CASE SendProcess
  BY <1>3 DEF SendProcess, write_async, PUnchanged
<1>4. CASE AwaitProcessAck
  BY <1>4 DEF AwaitProcessAck, read_async, PUnchanged
<1>5. CASE SendState
  BY <1>5 DEF SendState, write_async, PUnchanged
<1>6. CASE AwaitStateAck
  BY <1>6 DEF AwaitStateAck, read_async, PUnchanged
<1>7. CASE SendCgroup
  BY <1>7 DEF SendCgroup, write_async, PUnchanged
<1>8. CASE AwaitUserns
  BY <1>8 DEF AwaitUserns, read_async, PUnchanged
<1>9. CASE Configure
  BY <1>9 DEF Configure, write_async
<1>10. CASE AwaitHookReady
  BY <1>10 DEF AwaitHookReady, read_async, PUnchanged
<1>11. CASE RunHooks
  BY <1>11 DEF RunHooks, write_async
<1>12. CASE AwaitExecReady
  BY <1>12 DEF AwaitExecReady, read_async, PUnchanged
<1>13. CASE ChildRecvConfig
  BY <1>13 DEF ChildRecvConfig, CanRead, CUnchanged
<1>14. CASE ChildRecvCgroup
  BY <1>14 DEF ChildRecvCgroup, CanRead, CUnchanged
<1>15. CASE ChildSetupNs
  BY <1>15 DEF ChildSetupNs, CanRead, CUnchanged, ChildCreatesNew
<1>16. CASE ChildRecvContinue
  BY <1>16 DEF ChildRecvContinue, CanRead, CUnchanged
<1>17. CASE ChildRecvHooksDone
  BY <1>17 DEF ChildRecvHooksDone, CanRead, CUnchanged
<1>18. CASE ChildFail
  BY <1>18 DEF ChildFail, CanRead, CUnchanged
<1>19. CASE ChildExit
  BY <1>19 DEF ChildExit, CanRead, CUnchanged
<1>20. CASE UNCHANGED vars
  BY <1>20 DEF vars
<1>21. QED
  BY <1>1, <1>2, <1>3, <1>4, <1>5, <1>6, <1>7, <1>8, <1>9, <1>10, <1>11, <1>12, <1>13, <1>14, <1>15, <1>16, <1>17, <1>18, <1>19, <1>20
     DEF Next, Parent, Child

\* Only Configure does setup steps, with the child waiting for "continue";
\* the child passes "continue" only after the parent has sent it.
LEMMA DoneStep ==
  ASSUME TypeOK, DoneInv, [Next]_vars,
         ppc = "Configure" => cpc = "AwaitContinue",
         ppc = "RunHooks" => cfg.init /\ cpc = "AwaitHooksDone",
         calive /\ cpc = "AwaitContinue" /\ toChild # <<>> /\ Head(toChild) = S
           => ppc \in PostConfigure,
         calive /\ cpc = "AwaitHooksDone" /\ toChild # <<>> /\ Head(toChild) = S
           => ppc \in {"AwaitExecReady", "Done"}
  PROVE  DoneInv'
<1> USE DEF TypeOK, DoneInv, PreSetup, PreConfigure, PostConfigure
<1>0. Planned' = Planned
  BY PlanFixed
<1>1. CASE SendSpec
  BY <1>0, <1>1 DEF SendSpec, write_async, PUnchanged
<1>2. CASE AwaitSpecAck
  BY <1>0, <1>2 DEF AwaitSpecAck, read_async, PUnchanged
<1>3. CASE SendProcess
  BY <1>0, <1>3 DEF SendProcess, write_async, PUnchanged
<1>4. CASE AwaitProcessAck
  BY <1>0, <1>4 DEF AwaitProcessAck, read_async, PUnchanged
<1>5. CASE SendState
  BY <1>0, <1>5 DEF SendState, write_async, PUnchanged
<1>6. CASE AwaitStateAck
  BY <1>0, <1>6 DEF AwaitStateAck, read_async, PUnchanged
<1>7. CASE SendCgroup
  BY <1>0, <1>7 DEF SendCgroup, write_async, PUnchanged
<1>8. CASE AwaitUserns
  BY <1>0, <1>8 DEF AwaitUserns, read_async, PUnchanged
<1>9. CASE Configure
  <2>1. Planned \subseteq SetupSteps
    BY DEF Planned
  <2>2. DonePrefix(done', Planned)
    <3>1. CASE done' = Planned
      BY <3>1 DEF DonePrefix
    <3>2. CASE \E f \in Planned \cap Fallible :
                 done' = {s \in Planned : Rank[s] < Rank[f]}
      BY <3>2, <2>1 DEF DonePrefix
    <3>3. QED
      BY <1>9, <3>1, <3>2 DEF Configure
  <2>3. done' \subseteq Planned
    BY <1>9 DEF Configure
  <2>4. QED
    BY <1>0, <1>9, <2>2, <2>3 DEF Configure, write_async
<1>10. CASE AwaitHookReady
  BY <1>0, <1>10 DEF AwaitHookReady, read_async, PUnchanged
<1>11. CASE RunHooks
  BY <1>0, <1>11 DEF RunHooks, write_async
<1>12. CASE AwaitExecReady
  BY <1>0, <1>12 DEF AwaitExecReady, read_async, PUnchanged
<1>13. CASE ChildRecvConfig
  BY <1>0, <1>13 DEF ChildRecvConfig, CanRead, CUnchanged, Expect, S
<1>14. CASE ChildRecvCgroup
  BY <1>0, <1>14 DEF ChildRecvCgroup, CanRead, CUnchanged, Expect, S
<1>15. CASE ChildSetupNs
  BY <1>0, <1>15 DEF ChildSetupNs, CanRead, CUnchanged, Expect, S
<1>16. CASE ChildRecvContinue
  BY <1>0, <1>16 DEF ChildRecvContinue, CanRead, CUnchanged, Expect, S
<1>17. CASE ChildRecvHooksDone
  BY <1>0, <1>17 DEF ChildRecvHooksDone, CanRead, CUnchanged, Expect, S
<1>18. CASE ChildFail
  BY <1>0, <1>18 DEF ChildFail, CanRead, CUnchanged, Expect, S
<1>19. CASE ChildExit
  BY <1>0, <1>19 DEF ChildExit, CanRead, CUnchanged, Expect, S
<1>20. CASE UNCHANGED vars
  BY <1>0, <1>20 DEF vars
<1>21. QED
  BY <1>1, <1>2, <1>3, <1>4, <1>5, <1>6, <1>7, <1>8, <1>9, <1>10, <1>11, <1>12, <1>13, <1>14, <1>15, <1>16, <1>17, <1>18, <1>19, <1>20
     DEF Next, Parent, Child

\* Only RunHooks runs the hooks, for an init child waiting for them; the
\* child execs only after "hooks complete".
LEMMA HooksStep ==
  ASSUME TypeOK, HooksInv, [Next]_vars,
         ppc = "Configure" => cpc = "AwaitContinue",
         ppc = "RunHooks" => cfg.init /\ cpc = "AwaitHooksDone",
         calive /\ cpc = "AwaitContinue" /\ toChild # <<>> /\ Head(toChild) = S
           => ppc \in PostConfigure,
         calive /\ cpc = "AwaitHooksDone" /\ toChild # <<>> /\ Head(toChild) = S
           => ppc \in {"AwaitExecReady", "Done"}
  PROVE  HooksInv'
<1> USE DEF TypeOK, HooksInv, PreConfigure, PostConfigure
<1>1. CASE SendSpec
  BY <1>1 DEF SendSpec, write_async, PUnchanged
<1>2. CASE AwaitSpecAck
  BY <1>2 DEF AwaitSpecAck, read_async, PUnchanged
<1>3. CASE SendProcess
  BY <1>3 DEF SendProcess, write_async, PUnchanged
<1>4. CASE AwaitProcessAck
  BY <1>4 DEF AwaitProcessAck, read_async, PUnchanged
<1>5. CASE SendState
  BY <1>5 DEF SendState, write_async, PUnchanged
<1>6. CASE AwaitStateAck
  BY <1>6 DEF AwaitStateAck, read_async, PUnchanged
<1>7. CASE SendCgroup
  BY <1>7 DEF SendCgroup, write_async, PUnchanged
<1>8. CASE AwaitUserns
  BY <1>8 DEF AwaitUserns, read_async, PUnchanged
<1>9. CASE Configure
  BY <1>9 DEF Configure, write_async
<1>10. CASE AwaitHookReady
  BY <1>10 DEF AwaitHookReady, read_async, PUnchanged
<1>11. CASE RunHooks
  BY <1>11 DEF RunHooks, write_async
<1>12. CASE AwaitExecReady
  BY <1>12 DEF AwaitExecReady, read_async, PUnchanged
<1>13. CASE ChildRecvConfig
  BY <1>13 DEF ChildRecvConfig, CanRead, CUnchanged, Expect, S
<1>14. CASE ChildRecvCgroup
  BY <1>14 DEF ChildRecvCgroup, CanRead, CUnchanged, Expect, S
<1>15. CASE ChildSetupNs
  BY <1>15 DEF ChildSetupNs, CanRead, CUnchanged, Expect, S
<1>16. CASE ChildRecvContinue
  BY <1>16 DEF ChildRecvContinue, CanRead, CUnchanged, Expect, S
<1>17. CASE ChildRecvHooksDone
  BY <1>17 DEF ChildRecvHooksDone, CanRead, CUnchanged, Expect, S
<1>18. CASE ChildFail
  BY <1>18 DEF ChildFail, CanRead, CUnchanged, Expect, S
<1>19. CASE ChildExit
  BY <1>19 DEF ChildExit, CanRead, CUnchanged, Expect, S
<1>20. CASE UNCHANGED vars
  BY <1>20 DEF vars
<1>21. QED
  BY <1>1, <1>2, <1>3, <1>4, <1>5, <1>6, <1>7, <1>8, <1>9, <1>10, <1>11, <1>12, <1>13, <1>14, <1>15, <1>16, <1>17, <1>18, <1>19, <1>20
     DEF Next, Parent, Child

\* The rest of the invariant is carried along by every step, given the table.
LEMMA IInvStep == IInv /\ [Next]_vars => IInv'
<1> SUFFICES ASSUME IInv, [Next]_vars PROVE IInv'
  OBVIOUS
<1>1. TypeOK'
  BY TypeStep DEF IInv
<1>2. Sync'
  BY SyncStep DEF IInv
<1>3. /\ ppc = "Configure" => cpc = "AwaitContinue"
      /\ ppc = "RunHooks" => cfg.init /\ cpc = "AwaitHooksDone"
      /\ calive /\ cpc = "AwaitContinue" /\ toChild # <<>> /\ Head(toChild) = S
           => ppc \in PostConfigure
      /\ calive /\ cpc = "AwaitHooksDone" /\ toChild # <<>> /\ Head(toChild) = S
           => ppc \in {"AwaitExecReady", "Done"}
  BY SyncFacts DEF IInv
<1>4. UsernsInv'
  BY UsernsStep DEF IInv
<1>5. DoneInv'
  BY <1>3, DoneStep DEF IInv
<1>6. HooksInv'
  BY <1>3, HooksStep DEF IInv
<1>7. QED
  BY <1>1, <1>2, <1>4, <1>5, <1>6 DEF IInv

\* The protocol invariant holds in every state of every run of the
\* handshake, whatever faults the run allows and whatever the user
\* namespace entry is.
THEOREM Invariant == Spec => []IInv
<1>1. Init => IInv
  <2> SUFFICES ASSUME Init PROVE IInv
    OBVIOUS
  <2>1. TypeOK
    BY InitType
  <2>2. Sync
    BY DEF Init, Sync, SyncRow, Row, CommonRow
  <2>3. DonePrefix({}, Planned)
    <3>1. {s \in Planned : Rank[s] < Rank["uid_map"]} = {}
      <4>1. Planned \subseteq SetupSteps
        BY DEF Planned
      <4>2. \A s \in SetupSteps : Rank[s] \in {1, 2, 3, 4}
        BY DEF SetupSteps, Rank
      <4>3. Rank["uid_map"] = 1
        BY DEF Rank
      <4>4. \A s \in Planned : ~(Rank[s] < Rank["uid_map"])
        BY <4>1, <4>2, <4>3
      <4>5. QED
        BY <4>4
    <3>2. QED
      BY <3>1 DEF DonePrefix, SetupSteps
  <2>4. UsernsInv
    BY DEF Init, UsernsInv, PreSetup
  <2>5. DoneInv
    BY <2>3 DEF Init, DoneInv, PreSetup, PreConfigure, PostConfigure
  <2>6. HooksInv
    BY DEF Init, HooksInv
  <2>7. QED
    BY <2>1, <2>2, <2>4, <2>5, <2>6 DEF IInv
<1>2. QED
  BY <1>1, IInvStep, PTL DEF Spec

\* The parts of the plan the parent has done: all of it, or what precedes a
\* failed step, and never more.
LEMMA DoneInPlan ==
  ASSUME DonePrefix(done, Planned)
  PROVE  /\ done \subseteq Planned
         /\ "set" \in done => "apply" \in done
<1>1. CASE done = Planned
  <2>1. "set" \in Planned => "apply" \in Planned
    BY DEF Planned, SetupSteps
  <2>2. QED
    BY <1>1, <2>1
<1>2. CASE \E f \in SetupSteps : done = {s \in Planned : Rank[s] < Rank[f]}
  BY <1>2 DEF SetupSteps, Rank
<1>3. QED
  BY <1>1, <1>2 DEF DonePrefix

\* write_mappings (namespace.rs 371-381) writes /proc/<pid>/uid_map and
\* gid_map only after the child has reported "user namespace ready" with a
\* new user namespace created, for every configuration and fault set.
THEOREM IdMapsInUsernsHolds == Spec => []IdMapsInUserns
<1>1. IInv => IdMapsInUserns
  <2> SUFFICES ASSUME IInv, done \cap {"uid_map", "gid_map"} # {}
               PROVE  cUserns
    BY DEF IdMapsInUserns
  <2>1. done \subseteq Planned
    BY DoneInPlan DEF IInv, DoneInv
  <2>2. is_userns_enabled(cfg.user)
    BY <2>1 DEF Planned
  <2>3. ChildCreatesNew(cfg.user) /\ cpc \notin PreSetup
    BY <2>2 DEF is_userns_enabled, ChildCreatesNew, IInv, DoneInv
  <2>4. QED
    BY <2>3 DEF IInv, UsernsInv
<1>2. QED
  BY <1>1, Invariant, PTL

\* join_namespaces does every setup step the configuration calls for before
\* it writes "continue" (namespace.rs 370-397), and cgroup set only after
\* apply, for every configuration and fault set.
THEOREM SetupBeforeContinueHolds == Spec => []SetupBeforeContinue
<1>1. IInv => SetupBeforeContinue
  BY DoneInPlan DEF IInv, DoneInv, SetupBeforeContinue
<1>2. QED
  BY <1>1, Invariant, PTL

\* Every row of the table has at most the expected frame in flight to the
\* child.
LEMMA RowInStep ==
  ASSUME NEW p, NEW tp, Row(cfg.init, p, cpc, toChild, tp)
  PROVE  InStep
<1>1. /\ toChild \in {<<>>, <<D>>, <<S>>}
      /\ toChild = <<D>> => cpc \in {"ReadSpec", "ReadProcess", "ReadState",
                                     "ReadCgroup"}
      /\ toChild = <<S>> => cpc \in {"AwaitContinue", "AwaitHooksDone"}
  BY DEF Row, CommonRow, InitRow, ExecRow, D, S
<1>2. CASE toChild = <<>>
  BY <1>2 DEF InStep
<1>3. CASE toChild = <<D>>
  <2>1. Len(toChild) = 1 /\ Head(toChild) = "DATA"
    BY <1>3 DEF D
  <2>2. Expect[cpc] = "DATA"
    BY <1>1, <1>3 DEF Expect, D, S
  <2>3. QED
    BY <2>1, <2>2 DEF InStep
<1>4. CASE toChild = <<S>>
  <2>1. Len(toChild) = 1 /\ Head(toChild) = "SUCCESS"
    BY <1>4 DEF S
  <2>2. Expect[cpc] = "SUCCESS"
    BY <1>1, <1>4 DEF Expect, D, S
  <2>3. QED
    BY <2>1, <2>2 DEF InStep
<1>5. QED
  BY <1>1, <1>2, <1>3, <1>4

\* The parent's count of writes and reads keeps it in step with the child:
\* at most one frame is ever in flight to the child, and it is the one the
\* child waits for.
THEOREM InStepHolds == Spec => []InStep
<1>1. IInv => InStep
  <2> SUFFICES ASSUME IInv PROVE InStep
    OBVIOUS
  <2>1. CASE SyncRow
    BY <2>1, RowInStep DEF SyncRow
  <2>2. CASE SyncFailed
    BY <2>2, RowInStep DEF SyncFailed
  <2>3. CASE SyncGone
    BY <2>3, RowInStep DEF SyncGone
  <2>4. CASE SyncStuck
    BY <2>4 DEF SyncStuck, Stuck, InStep
  <2>5. QED
    BY <2>1, <2>2, <2>3, <2>4 DEF IInv, Sync
<1>2. QED
  BY <1>1, Invariant, PTL

\* An init child never execs before the prestart hooks have run (namespace.rs
\* 399-422), and join_namespaces returns Ok only when the child is exec'ing.
THEOREM HooksBeforeExecHolds == Spec => []HooksBeforeExec
<1>1. IInv => HooksBeforeExec
  <2>1. IInv => (ppc = "Done" => cpc = "Exec")
    BY DEF IInv, Sync, SyncRow, SyncFailed, SyncGone, SyncStuck, Row,
       CommonRow, InitRow, ExecRow, Terminal
  <2>2. QED
    BY <2>1 DEF IInv, HooksInv, HooksBeforeExec
<1>2. QED
  BY <1>1, Invariant, PTL

\* The prestart hooks run (RunHooks, namespace.rs 404-422) only while the
\* child is blocked waiting for "hooks complete".
THEOREM HooksWhileChildWaitsHolds == Spec => HooksWhileChildWaits
<1>1. IInv /\ [Next]_vars => [~hooksRan /\ hooksRan' => cpc = "AwaitHooksDone"]_vars
  <2> SUFFICES ASSUME IInv, [Next]_vars, ~hooksRan, hooksRan'
               PROVE  cpc = "AwaitHooksDone"
    BY DEF vars
  <2>1. ppc = "RunHooks"
    BY DEF Next, Parent, Child, vars, PUnchanged, CUnchanged, SendSpec,
       AwaitSpecAck, SendProcess, AwaitProcessAck, SendState, AwaitStateAck,
       SendCgroup, AwaitUserns, Configure, AwaitHookReady, RunHooks,
       AwaitExecReady, ChildRecvConfig, ChildRecvCgroup, ChildSetupNs,
       ChildRecvContinue, ChildRecvHooksDone, ChildFail, ChildExit
  <2>2. QED
    BY <2>1, SyncFacts DEF IInv
<1>2. QED
  BY <1>1, Invariant, PTL DEF Spec, HooksWhileChildWaits

\* A child that created a new user namespace has its uid and gid maps when
\* it passes "continue", provided no user namespace entry has an empty path.
\* The hypothesis cannot be dropped: for Some("") the child creates a new
\* namespace (spec section 3) but is_userns_enabled (namespace.rs 168-175)
\* says no, and no maps are written (run handshake_empty_userns).
THEOREM NewUsernsMappedHolds ==
  "empty" \notin UserNsEntries => (Spec => []NewUsernsMapped)
<1>1. "empty" \notin UserNsEntries /\ IInv => NewUsernsMapped
  <2> SUFFICES ASSUME "empty" \notin UserNsEntries, IInv, cUserns,
                      cpc \in {"AwaitHooksDone", "Exec"}
               PROVE  {"uid_map", "gid_map"} \subseteq done
    BY DEF NewUsernsMapped
  <2>1. cfg.user = "unset"
    BY UserNsAssumption DEF IInv, UsernsInv, ChildCreatesNew, TypeOK, Configs
  <2>2. {"uid_map", "gid_map"} \subseteq Planned
    BY <2>1 DEF Planned, is_userns_enabled, SetupSteps
  <2>3. QED
    BY <2>2 DEF IInv, DoneInv
<1>2. ASSUME "empty" \notin UserNsEntries PROVE Spec => []NewUsernsMapped
  <2>1. IInv => NewUsernsMapped
    BY <1>1, <1>2
  <2>2. QED
    BY <2>1, Invariant, PTL
<1>3. QED
  BY <1>2

=============================================================================
