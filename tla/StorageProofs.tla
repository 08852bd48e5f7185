----------------------------- MODULE StorageProofs -----------------------------
(***************************************************************************)
(* Proofs about the storage crate (module Storage), for every set of       *)
(* requests and faults.                                                    *)
(*                                                                         *)
(* ReadOnlyHonoured is not inductive: whether a held device's mounts are   *)
(* read-only depends on how create_device left them, and create_device    *)
(* starts from a mount point with nothing mounted on it, which is a fact  *)
(* about the idle phase.  From an empty stack, a successful bind_mount    *)
(* leaves one bind mount that its second mount(2) remounted read-only; a  *)
(* successful mount_device or mount_overlay with "ro" leaves one mount    *)
(* made with MS_RDONLY.  Unmount only removes mounts, and cleanup none.    *)
(***************************************************************************)
EXTENDS Storage, TLAPS

\* The block and overlay handlers are not asked for a bind mount: their
\* mount(2) would then bind the source, and a new bind mount ignores
\* MS_RDONLY (the reason bind_mount remounts).
NoBindOnDevices ==
  \A r \in Requests :
    handler(r.driver) \in {"BlockHandler", "OverlayHandler"} =>
      "BIND" \notin parse_mount_flags(r.options)

\* The part of the state the proof needs typed: what is mounted, the
\* phase of the request and the device's path.
MntsOK ==
  /\ req \in Requests
  /\ mnts \in Seq(Mnt)
  /\ phase \in {"idle", "held", "failed", "released"}
  /\ dev \in {"none", "target", "bundle"}

IInv ==
  /\ MntsOK
  /\ phase = "idle" => mnts = <<>>
  /\ ReadOnlyHonoured

MntKinds == {"bind", "block", "overlay"}

-----------------------------------------------------------------------------
(* The mount helpers.                                                      *)

\* The outcomes of one mount(2): a stack of mounts and a Boolean; on Ok the
\* call was allowed and the stack is the kernel's, otherwise it is the stack
\* the call started from.
LEMMA MountCallShape ==
  ASSUME NEW stack \in Seq(Mnt), NEW flags, NEW s, NEW t, NEW kind \in MntKinds,
         NEW c \in MountCall(stack, flags, s, t, kind)
  PROVE  /\ c.ok \in BOOLEAN
         /\ c.stack \in Seq(Mnt)
         /\ c.ok => /\ MountAllowed(stack, flags, s, t)
                    /\ c.stack = Mounted(stack, flags, kind)
         /\ ~c.ok => c.stack = stack
<1>1. PICK ok \in BOOLEAN :
        /\ ok => MountAllowed(stack, flags, s, t)
        /\ c = [stack |-> IF ok THEN Mounted(stack, flags, kind) ELSE stack,
                ok |-> ok]
  BY DEF MountCall
<1>2. ok => Mounted(stack, flags, kind) \in Seq(Mnt)
  <2>1. CASE "REMOUNT" \in flags
    <3> SUFFICES ASSUME ok PROVE Mounted(stack, flags, kind) \in Seq(Mnt)
      OBVIOUS
    <3>1. stack # <<>>
      BY <1>1, <2>1 DEF MountAllowed
    <3>2. Len(stack) \in 1..Len(stack) /\ stack[Len(stack)] \in Mnt
      BY <3>1
    <3>3. [stack[Len(stack)] EXCEPT !.ro = "RDONLY" \in flags] \in Mnt
      <4> DEFINE r == stack[Len(stack)]
      <4>1. r = [kind |-> r.kind, ro |-> r.ro] /\ r.kind \in {"bind", "block", "overlay"}
        BY <3>2 DEF Mnt
      <4>2. ("RDONLY" \in flags) \in BOOLEAN
        OBVIOUS
      <4>3. [r EXCEPT !.ro = "RDONLY" \in flags] = [kind |-> r.kind, ro |-> "RDONLY" \in flags]
        BY <4>1
      <4>4. QED
        BY <4>1, <4>2, <4>3 DEF Mnt
    <3>4. [stack EXCEPT ![Len(stack)] = [stack[Len(stack)] EXCEPT !.ro = "RDONLY" \in flags]]
            \in Seq(Mnt)
      BY <3>2, <3>3
    <3>5. QED
      BY <2>1, <3>4 DEF Mounted
  <2>2. CASE "REMOUNT" \notin flags
    BY <2>2 DEF Mounted, Mnt, MntKinds
  <2>3. QED
    BY <2>1, <2>2
<1>3. QED
  BY <1>1, <1>2

\* "ro" and "readonly" are parsed to MS_RDONLY.
LEMMA ROFlag ==
  ASSUME NEW opts, ReadOnly(opts)
  PROVE  "RDONLY" \in parse_mount_flags(opts)
<1>1. PICK o \in opts : o \in {"ro", "readonly"}
  BY DEF ReadOnly
<1>2. o \in DOMAIN OptionFlags /\ OptionFlags[o] = {"RDONLY"}
  BY <1>1 DEF OptionFlags
<1>3. QED
  BY <1>1, <1>2 DEF parse_mount_flags

\* A mount(2) from an empty stack that is not a bind mount and asks for
\* MS_RDONLY leaves, when it returns Ok, only read-only mounts.
LEMMA DeviceRO ==
  ASSUME NEW flags, NEW s, NEW t, NEW kind \in MntKinds,
         "BIND" \notin flags, "RDONLY" \in flags,
         NEW c \in MountCall(<<>>, flags, s, t, kind), c.ok
  PROVE  \A k \in DOMAIN c.stack : c.stack[k].ro
<1>0. <<>> \in Seq(Mnt)
  OBVIOUS
<1>1. /\ MountAllowed(<<>>, flags, s, t)
      /\ c.stack = Mounted(<<>>, flags, kind)
  BY <1>0, MountCallShape
<1>2. "REMOUNT" \notin flags
  BY <1>1 DEF MountAllowed
<1> DEFINE e == [kind |-> kind, ro |-> "BIND" \notin flags /\ "RDONLY" \in flags]
<1>3. c.stack = <<e>>
  BY <1>1, <1>2 DEF Mounted
<1>4. e.ro
  OBVIOUS
<1>5. DOMAIN <<e>> = {1} /\ <<e>>[1] = e
  OBVIOUS
<1>6. QED
  BY <1>3, <1>4, <1>5


\* Every outcome of bind_mount from a typed stack is a typed stack and a
\* Boolean.
LEMMA BindShape ==
  ASSUME NEW r, mnts \in Seq(Mnt), NEW c \in bind_mount(r)
  PROVE  c.stack \in Seq(Mnt) /\ c.ok \in BOOLEAN
<1> DEFINE flags == {"BIND"} \cup parse_mount_flags(r.options)
<1>1. PICK c1 \in MountCall(mnts, flags, r.src, MkTarget(fs), "bind") :
        c \in IF c1.ok /\ ReadOnly(r.options)
                THEN MountCall(c1.stack, flags \cup {"REMOUNT", "RDONLY"},
                               r.src, MkTarget(fs), "bind")
                ELSE {c1}
  BY DEF bind_mount
<1>2. c1.stack \in Seq(Mnt) /\ c1.ok \in BOOLEAN
  BY MountCallShape DEF MntKinds
<1>3. CASE c1.ok /\ ReadOnly(r.options)
  BY <1>1, <1>2, <1>3, MountCallShape DEF MntKinds
<1>4. CASE ~(c1.ok /\ ReadOnly(r.options))
  BY <1>1, <1>2, <1>4
<1>5. QED
  BY <1>3, <1>4

\* From an empty stack, a bind_mount asked for "ro" that returns Ok leaves
\* only read-only mounts: the bind mount it made, remounted read-only.
LEMMA BindRO ==
  ASSUME NEW r, mnts = <<>>, ReadOnly(r.options),
         NEW c \in bind_mount(r), c.ok
  PROVE  \A k \in DOMAIN c.stack : c.stack[k].ro
<1> DEFINE flags == {"BIND"} \cup parse_mount_flags(r.options)
           flags2 == flags \cup {"REMOUNT", "RDONLY"}
<1>0. <<>> \in Seq(Mnt)
  OBVIOUS
<1>1. PICK c1 \in MountCall(<<>>, flags, r.src, MkTarget(fs), "bind") :
        c \in IF c1.ok /\ ReadOnly(r.options)
                THEN MountCall(c1.stack, flags2, r.src, MkTarget(fs), "bind")
                ELSE {c1}
  BY DEF bind_mount
<1>2. c1.ok
  BY <1>1
<1>3. /\ MountAllowed(<<>>, flags, r.src, MkTarget(fs))
      /\ c1.stack = Mounted(<<>>, flags, "bind")
      /\ c1.stack \in Seq(Mnt)
  BY <1>0, <1>2, MountCallShape DEF MntKinds
<1>4. "REMOUNT" \notin flags
  BY <1>3 DEF MountAllowed
<1> DEFINE e == [kind |-> "bind", ro |-> "BIND" \notin flags /\ "RDONLY" \in flags]
<1>5. c1.stack = <<e>>
  BY <1>3, <1>4 DEF Mounted
<1>6. c \in MountCall(c1.stack, flags2, r.src, MkTarget(fs), "bind")
  BY <1>1, <1>2
<1>7. c.stack = Mounted(c1.stack, flags2, "bind")
  BY <1>3, <1>6, MountCallShape DEF MntKinds
<1>8. c.stack = [<<e>> EXCEPT ![1].ro = TRUE]
  BY <1>5, <1>7 DEF Mounted
<1>9. DOMAIN c.stack = {1} /\ c.stack[1].ro = TRUE
  BY <1>8
<1>10. QED
  BY <1>9

-----------------------------------------------------------------------------
(* The invariant.                                                          *)

LEMMA InitIInv == Init => IInv
BY DEF Init, IInv, MntsOK, ReadOnlyHonoured

\* What a create_device that mounted on the mount point leaves, given that
\* every Ok outcome of its mount helper with "ro" is read-only.
LEMMA CreatedIInv ==
  ASSUME NEW S, NEW c \in S, IInv, Created(c),
         \A x \in S : x.stack \in Seq(Mnt) /\ x.ok \in BOOLEAN,
         \A x \in S : x.ok /\ ReadOnly(req.options) =>
                        \A k \in DOMAIN x.stack : x.stack[k].ro,
         req' = req
  PROVE  IInv'
<1>1. c.stack \in Seq(Mnt) /\ c.ok \in BOOLEAN
  OBVIOUS
<1>2. MntsOK'
  BY <1>1 DEF Created, IInv, MntsOK
<1>3. phase' # "idle"
  BY DEF Created
<1>4. ReadOnlyHonoured'
  BY <1>1 DEF Created, ReadOnlyHonoured
<1>5. QED
  BY <1>2, <1>3, <1>4 DEF IInv

LEMMA IInvStep ==
  ASSUME NoBindOnDevices, IInv, [Next]_vars
  PROVE  IInv'
<1>0. /\ req \in Requests
      /\ mnts \in Seq(Mnt)
      /\ phase = "idle" => mnts = <<>>
  BY DEF IInv, MntsOK
<1>1. CASE LocalCreate
  <2>1. CASE req.src = "none"
    BY <1>1, <2>1 DEF LocalCreate, IInv, MntsOK, ReadOnlyHonoured
  <2>2. CASE req.src # "none"
    <3>a. PICK c \in bind_mount(req) : Created(c)
      BY <1>1, <2>2 DEF LocalCreate
    <3>b. \A x \in bind_mount(req) : x.stack \in Seq(Mnt) /\ x.ok \in BOOLEAN
      BY <1>0, BindShape
    <3>c. \A x \in bind_mount(req) : x.ok /\ ReadOnly(req.options) =>
                                       \A k \in DOMAIN x.stack : x.stack[k].ro
      BY <1>0, <1>1, BindRO DEF LocalCreate
    <3>d. QED
      BY <3>a, <3>b, <3>c, <1>1, CreatedIInv DEF LocalCreate
  <2>3. QED
    BY <2>1, <2>2
<1>2. CASE BlockCreate
  <2>1. CASE req.src = "none"
    BY <1>2, <2>1 DEF BlockCreate, IInv, MntsOK, ReadOnlyHonoured
  <2>2. CASE req.src # "none"
    <3>a. PICK c \in mount_device(req) : Created(c)
      BY <1>2, <2>2 DEF BlockCreate
    <3>0. mnts = <<>> /\ "BIND" \notin parse_mount_flags(req.options)
      BY <1>0, <1>2 DEF BlockCreate, NoBindOnDevices
    <3>b. \A x \in mount_device(req) : x.stack \in Seq(Mnt) /\ x.ok \in BOOLEAN
      BY <1>0, MountCallShape DEF mount_device, MntKinds
    <3>c. \A x \in mount_device(req) : x.ok /\ ReadOnly(req.options) =>
                                         \A k \in DOMAIN x.stack : x.stack[k].ro
      BY <3>0, ROFlag, DeviceRO DEF mount_device, MntKinds
    <3>d. QED
      BY <3>a, <3>b, <3>c, <1>2, CreatedIInv DEF BlockCreate
  <2>3. QED
    BY <2>1, <2>2
<1>3. CASE OverlayCreate
  <2> DEFINE d == OverlayDirs(req.driver_options)
  <2>1. CASE ~(d.lowerdir /\ d.upperdir /\ d.workdir)
    BY <1>3, <2>1 DEF OverlayCreate, IInv, MntsOK, ReadOnlyHonoured
  <2>2. CASE d.lowerdir /\ d.upperdir /\ d.workdir
    <3>a. PICK c \in mount_overlay(req) : Created(c)
      BY <1>3, <2>2 DEF OverlayCreate
    <3>0. mnts = <<>> /\ "BIND" \notin parse_mount_flags(req.options)
      BY <1>0, <1>3 DEF OverlayCreate, NoBindOnDevices
    <3>b. \A x \in mount_overlay(req) : x.stack \in Seq(Mnt) /\ x.ok \in BOOLEAN
      BY <1>0, MountCallShape DEF mount_overlay, MntKinds
    <3>c. \A x \in mount_overlay(req) : x.ok /\ ReadOnly(req.options) =>
                                          \A k \in DOMAIN x.stack : x.stack[k].ro
      BY <3>0, ROFlag, DeviceRO DEF mount_overlay, MntKinds
    <3>d. QED
      BY <3>a, <3>b, <3>c, <1>3, CreatedIInv DEF OverlayCreate
  <2>3. QED
    BY <2>1, <2>2
<1>4. CASE ImageCreate
  BY <1>4 DEF ImageCreate, IInv, MntsOK, ReadOnlyHonoured
<1>5. CASE NoHandlerCreate
  BY <1>5 DEF NoHandlerCreate, IInv, MntsOK, ReadOnlyHonoured
<1>6. CASE Cleanup
  BY <1>6 DEF Cleanup, IInv, MntsOK, ReadOnlyHonoured
<1>7. CASE Unmount
  <2>1. phase # "idle"
    BY <1>0, <1>7 DEF Unmount
  <2>2. CASE mnts' = SubSeq(mnts, 1, Len(mnts) - 1)
    <3>a. /\ mnts' \in Seq(Mnt)
          /\ DOMAIN mnts' = 1..Len(mnts) - 1
          /\ \A k \in 1..Len(mnts) - 1 : mnts'[k] = mnts[k]
      BY <1>0, <1>7, <2>2 DEF Unmount
    <3>b. QED
      BY <1>7, <2>1, <3>a DEF Unmount, IInv, MntsOK, ReadOnlyHonoured
  <2>3. CASE UNCHANGED mnts
    BY <1>7, <2>3 DEF Unmount, IInv, MntsOK, ReadOnlyHonoured
  <2>4. QED
    BY <1>7, <2>2, <2>3 DEF Unmount
<1>8. CASE IsMounted
  BY <1>8 DEF IsMounted, IInv, MntsOK, ReadOnlyHonoured
<1>9. CASE UNCHANGED vars
  BY <1>9 DEF vars, IInv, MntsOK, ReadOnlyHonoured
<1>10. QED
  BY <1>1, <1>2, <1>3, <1>4, <1>5, <1>6, <1>7, <1>8, <1>9 DEF Next

\* A device created with "ro" keeps only read-only mounts on its path while
\* the caller holds it, for every set of requests in which the block and
\* overlay drivers are not asked for a bind mount (create_device of the
\* four handlers, bind_mount's read-only remount, unmount, cleanup).
THEOREM ReadOnlyHonouredHolds == NoBindOnDevices => (Spec => []ReadOnlyHonoured)
<1> SUFFICES ASSUME NoBindOnDevices PROVE Spec => []ReadOnlyHonoured
  OBVIOUS
<1>1. IInv => ReadOnlyHonoured
  BY DEF IInv
<1>2. IInv /\ [Next]_vars => IInv'
  BY IInvStep
<1>3. QED
  BY <1>1, <1>2, InitIInv, PTL DEF Spec

====
