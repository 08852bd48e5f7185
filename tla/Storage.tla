------------------------------- MODULE Storage -------------------------------
(***************************************************************************)
(* The storage crate (src/crate/storage): the handler registry, the four   *)
(* handlers' create_device, the mount helpers they call, and the generic   *)
(* device's cleanup, for one storage request against its mount point.     *)
(*                                                                         *)
(* The caller that holds the device (it is not in this source tree) may    *)
(* create it once, then call cleanup (retrying on an error), unmount and   *)
(* is_mounted in any order.  mount(2) and umount(2) are modelled by what   *)
(* the kernel does with the flags nix passes on.  Paths are abstracted to  *)
(* the kind of file there, and an option list to the set of its options.   *)
(***************************************************************************)
EXTENDS Naturals, Sequences, SequencesExt

CONSTANTS
  Requests,  \* the storage configurations this run may be asked to create
  Faults     \* the failures this run lets happen

\* mount: a mount(2) or umount(2) the code asks for is refused (EPERM,
\* EBUSY...); pull: the image pull fails.
FaultKinds == {"mount", "pull"}

ASSUME StorageAssumption == Faults \subseteq FaultKinds /\ Requests # {}

VARIABLES
  req,    \* the StorageConfig (and the caller's context) of this request
  fs,     \* what is at the mount point: "none", "dir" or "file"
  mnts,   \* the mounts stacked on the mount point, oldest first
  aux,    \* the overlay upper/work directories create_device has made
  phase,  \* "idle", "held" (the caller holds a device), "failed", "released"
  dev,    \* the path of the device: the mount point, or the image bundle
  seen    \* what the last is_mounted returned

vars == <<req, fs, mnts, aux, phase, dev, seen>>

Mnt == [kind: {"bind", "block", "overlay"}, ro: BOOLEAN]

TypeOK ==
  /\ req \in Requests
  /\ fs \in {"none", "dir", "file"}
  /\ mnts \in Seq(Mnt)
  /\ aux \subseteq {"upper", "work"}
  /\ phase \in {"idle", "held", "failed", "released"}
  /\ dev \in {"none", "target", "bundle"}
  /\ seen \in {"none", "yes", "no"}

-----------------------------------------------------------------------------
(* The handler registry (handler.rs).                                      *)

\* driver_types of each handler, in the order STORAGE_HANDLERS builds them.
HandlerList == <<"LocalHandler", "BlockHandler", "OverlayHandler",
                 "ImagePullHandler">>
driver_types == [LocalHandler     |-> <<"local">>,
                 BlockHandler     |-> <<"block", "virtio-blk">>,
                 OverlayHandler   |-> <<"overlay", "overlayfs">>,
                 ImagePullHandler |-> <<"image", "image-pull">>]

\* A registry: the map from driver type to handler, and whether every
\* add_handler so far returned Ok.
NoHandler == "none"
EmptyRegistry == [map |-> <<>>, ok |-> TRUE]

\* add_handler (lines 73-86): the types are inserted one at a time; one
\* already present ends the loop with an error, the earlier ones staying.
add_handler(reg, types, h) ==
  FoldLeft(LAMBDA r, d :
             IF ~r.ok THEN r
             ELSE IF d \in DOMAIN r.map THEN [r EXCEPT !.ok = FALSE]
             ELSE [r EXCEPT !.map = [x \in DOMAIN r.map \cup {d} |->
                                       IF x = d THEN h ELSE r.map[x]]],
           reg, types)

\* STORAGE_HANDLERS (lines 264-284): every handler registered in turn; the
\* unwrap panics on the first error.
STORAGE_HANDLERS ==
  FoldLeft(LAMBDA r, h : IF ~r.ok THEN r ELSE add_handler(r, driver_types[h], h),
           EmptyRegistry, HandlerList)

\* handler (lines 95-97): the handler of a driver type, if any.
handler(d) ==
  IF d \in DOMAIN STORAGE_HANDLERS.map THEN STORAGE_HANDLERS.map[d]
                                       ELSE NoHandler

-----------------------------------------------------------------------------
(* The mount helpers (mount.rs) and the kernel under them.                 *)

\* The MsFlags of each option parse_mount_flags knows (lines 13-39); any
\* other option adds nothing.
OptionFlags ==
  [ro |-> {"RDONLY"}, readonly |-> {"RDONLY"}, nosuid |-> {"NOSUID"},
   nodev |-> {"NODEV"}, noexec |-> {"NOEXEC"}, sync |-> {"SYNCHRONOUS"},
   remount |-> {"REMOUNT"}, bind |-> {"BIND"}, rbind |-> {"BIND", "REC"},
   private |-> {"PRIVATE"}, rprivate |-> {"PRIVATE", "REC"},
   shared |-> {"SHARED"}, rshared |-> {"SHARED", "REC"},
   slave |-> {"SLAVE"}, rslave |-> {"SLAVE", "REC"}]

parse_mount_flags(opts) == UNION {OptionFlags[o] : o \in opts \cap DOMAIN OptionFlags}

\* mount(2) of a source of kind s on a mount point of kind t with mounts
\* stack: MS_REMOUNT changes the flags of the top mount; MS_BIND needs a
\* source of the same kind (directory or not) as the mount point; any other
\* mount needs a block device or overlay source and a directory.  The
\* kernel looks at MS_REMOUNT before MS_BIND.
MountAllowed(stack, flags, s, t) ==
  IF "REMOUNT" \in flags THEN stack # <<>>
  ELSE IF "BIND" \in flags THEN /\ s \in {"dir", "file", "dev"} /\ t # "none"
                                /\ (s = "dir") = (t = "dir")
  ELSE s \in {"dev", "overlay"} /\ t = "dir"

\* The stack after it.  A new bind mount ignores every flag but MS_REC, so
\* it is writable whatever was asked.
Mounted(stack, flags, kind) ==
  IF "REMOUNT" \in flags
    THEN [stack EXCEPT ![Len(stack)].ro = "RDONLY" \in flags]
    ELSE Append(stack, [kind |-> kind, ro |-> "BIND" \notin flags
                                              /\ "RDONLY" \in flags])

\* create_dir_all on a mount point that does not exist.
MkTarget(t) == IF t = "none" THEN "dir" ELSE t

\* One mount(2) of the code, from stack: its outcomes, as the stack it
\* leaves and whether it returned Ok.  A mount the kernel allows may still
\* be refused when the run lets mounts fail.
MountCall(stack, flags, s, t, kind) ==
  LET allowed == MountAllowed(stack, flags, s, t)
  IN  {[stack |-> IF ok THEN Mounted(stack, flags, kind) ELSE stack, ok |-> ok] :
         ok \in {o \in BOOLEAN : /\ o => allowed
                                 /\ allowed /\ "mount" \notin Faults => o}}

ReadOnly(opts) == opts \cap {"ro", "readonly"} # {}

\* Mutant: no read-only remount after the bind mount.
bind_mount_no_remount(r) ==
  LET flags == {"BIND"} \cup parse_mount_flags(r.options)
  IN  MountCall(mnts, flags, r.src, MkTarget(fs), "bind")

\* bind_mount (lines 56-96), once the source is known to exist: the bind
\* mount, then for "ro" the remount that makes it read-only.  The outcomes
\* are the stack and whether it returned Ok.
bind_mount(r) ==
  LET flags == {"BIND"} \cup parse_mount_flags(r.options)
  IN  UNION {IF c.ok /\ ReadOnly(r.options)
               THEN MountCall(c.stack, flags \cup {"REMOUNT", "RDONLY"},
                              r.src, MkTarget(fs), "bind")
               ELSE {c}
             : c \in MountCall(mnts, flags, r.src, MkTarget(fs), "bind")}

\* mount_device (lines 114-147), once the device is known to exist.
mount_device(r) ==
  MountCall(mnts, parse_mount_flags(r.options), r.src, MkTarget(fs), "block")

\* mount_overlay (lines 166-208): the mount point, upper and work
\* directories are made first, then the overlay is mounted.
mount_overlay(r) ==
  MountCall(mnts, parse_mount_flags(r.options), "overlay", MkTarget(fs),
            "overlay")

\* The lowerdir, upperdir and workdir create_device of the overlay handler
\* reads from driver_options (lines 186-201): the last value of each key
\* wins, and an option without '=' is skipped.
OverlayDirs(opts) ==
  FoldLeft(LAMBDA d, o : IF o.key \in DOMAIN d THEN [d EXCEPT ![o.key] = o.set]
                                               ELSE d,
           [lowerdir |-> FALSE, upperdir |-> FALSE, workdir |-> FALSE], opts)

-----------------------------------------------------------------------------
(* create_device of each handler, and the device's cleanup.                *)

Init ==
  /\ req \in Requests
  /\ fs = req.target
  /\ mnts = <<>>
  /\ aux = {}
  /\ phase = "idle"
  /\ dev = "none"
  /\ seen = "none"

\* The outcome of a create_device that mounted on the mount point.
Created(c) ==
  /\ mnts' = c.stack
  /\ phase' = IF c.ok THEN "held" ELSE "failed"
  /\ dev' = IF c.ok THEN "target" ELSE "none"

\* LocalHandler::create_device (lines 118-131): bind_mount, then new_device
\* on the mount point.  A missing source is refused before anything is made.
LocalCreate ==
  /\ phase = "idle" /\ handler(req.driver) = "LocalHandler"
  /\ \/ /\ req.src = "none"
        /\ phase' = "failed"
        /\ UNCHANGED <<fs, mnts, dev>>
     \/ /\ req.src # "none"
        /\ fs' = MkTarget(fs)
        /\ \E c \in bind_mount(req) : Created(c)
  /\ UNCHANGED <<req, aux, seen>>

\* BlockHandler::create_device (lines 146-164): mount_device, new_device.
BlockCreate ==
  /\ phase = "idle" /\ handler(req.driver) = "BlockHandler"
  /\ \/ /\ req.src = "none"
        /\ phase' = "failed"
        /\ UNCHANGED <<fs, mnts, dev>>
     \/ /\ req.src # "none"
        /\ fs' = MkTarget(fs)
        /\ \E c \in mount_device(req) : Created(c)
  /\ UNCHANGED <<req, aux, seen>>

\* OverlayHandler::create_device (lines 179-219): all three directories
\* must be given, then mount_overlay and new_device.
OverlayCreate ==
  /\ phase = "idle" /\ handler(req.driver) = "OverlayHandler"
  /\ LET d == OverlayDirs(req.driver_options) IN
       \/ /\ ~(d.lowerdir /\ d.upperdir /\ d.workdir)
          /\ phase' = "failed"
          /\ UNCHANGED <<fs, mnts, aux, dev>>
       \/ /\ d.lowerdir /\ d.upperdir /\ d.workdir
          /\ fs' = MkTarget(fs)
          /\ aux' = {"upper", "work"}
          /\ \E c \in mount_overlay(req) : Created(c)
  /\ UNCHANGED <<req, seen>>

\* ImagePullHandler::create_device (lines 234-253): the container id is
\* required; pull_and_extract yields a bundle, which is the device's path.
ImageCreate ==
  /\ phase = "idle" /\ handler(req.driver) = "ImagePullHandler"
  /\ \/ /\ ~req.cid \/ "pull" \in Faults
        /\ phase' = "failed"
        /\ UNCHANGED dev
     \/ /\ req.cid
        /\ phase' = "held"
        /\ dev' = "bundle"
  /\ UNCHANGED <<req, fs, mnts, aux, seen>>

\* The caller finds no handler for the driver type.
NoHandlerCreate ==
  /\ phase = "idle" /\ handler(req.driver) = NoHandler
  /\ phase' = "failed"
  /\ UNCHANGED <<req, fs, mnts, aux, dev, seen>>

\* What stat(2) finds at the mount point: the root of the top mount (the
\* bind source, or the mounted file system's root directory), else the
\* mount point itself.
PathKind ==
  IF mnts = <<>> THEN fs
  ELSE IF mnts[Len(mnts)].kind = "bind" THEN req.src ELSE "dir"

\* StorageDeviceGeneric::cleanup (lines 58-98).  A missing path is Ok.
\* Nothing is unmounted (the TODO at line 75).  A directory must be empty
\* (a mounted one lists the mount's root, and remove_dir of a mount point
\* fails with EBUSY either way); a file is left in place; anything else
\* (a device node) is an error.  A bundle holds the extracted rootfs, so it
\* is never empty.  Ok releases the device; after an error the caller
\* still holds it.
Cleanup ==
  /\ phase = "held"
  /\ LET ok == /\ dev = "target"
               /\ \/ PathKind \in {"none", "file"}
                  \/ PathKind = "dir" /\ mnts = <<>>
                     /\ (req.target = "none" \/ req.targetEmpty)
     IN  /\ phase' = IF ok THEN "released" ELSE "held"
         /\ fs' = IF ok /\ PathKind = "dir" THEN "none" ELSE fs
  /\ UNCHANGED <<req, mnts, aux, dev, seen>>

\* unmount (lines 221-232): nothing to do without a mount point; umount(2)
\* removes the top mount, and fails with EINVAL if there is none.
Unmount ==
  /\ fs # "none" /\ mnts # <<>>
  /\ \/ mnts' = SubSeq(mnts, 1, Len(mnts) - 1)
     \/ "mount" \in Faults /\ UNCHANGED mnts
  /\ UNCHANGED <<req, fs, aux, phase, dev, seen>>

\* The mount point field of /proc/mounts: the kernel writes a space,
\* tab, newline or backslash in a path as an octal escape.
ProcMountsPath(p) == IF p = "spaced" THEN "spaced-escaped" ELSE p

\* is_mounted (lines 242-254): some line of /proc/mounts has the path
\* verbatim as its second field.
is_mounted(p) == mnts # <<>> /\ ProcMountsPath(p) = p

IsMounted ==
  /\ seen' = IF is_mounted(req.path) THEN "yes" ELSE "no"
  /\ UNCHANGED <<req, fs, mnts, aux, phase, dev>>

Next ==
  \/ LocalCreate \/ BlockCreate \/ OverlayCreate \/ ImageCreate
  \/ NoHandlerCreate \/ Cleanup \/ Unmount \/ IsMounted

Spec == Init /\ [][Next]_vars

-----------------------------------------------------------------------------
(* Properties                                                              *)

\* A device created with "ro" (or "readonly") is read-only: every mount
\* create_device left on the mount point is, for as long as the caller
\* holds the device (a new bind mount ignores MS_RDONLY, so bind_mount
\* must remount).
ReadOnlyHonoured ==
  phase = "held" /\ dev = "target" /\ ReadOnly(req.options) =>
    \A k \in DOMAIN mnts : mnts[k].ro

\* cleanup unmounts the file system if it is mounted (its doc comment:
\* "卸载文件系统（如果已挂载）"): once it returns Ok, nothing is left
\* mounted on the device's path.
CleanupUnmounts ==
  [][Cleanup /\ phase' = "released" /\ dev = "target" => mnts' = <<>>]_vars

\* is_mounted returns true exactly when the path is a mount point (its doc
\* comment).
IsMountedAccurate ==
  [][IsMounted => (seen' = "yes") = (mnts # <<>>)]_vars

=============================================================================
