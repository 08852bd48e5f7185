----------------------------- MODULE MC_Storage -----------------------------
(* Small instances of the storage crate for TLC: every handler, the option *)
(* lists that exercise the read-only path, every kind of source and mount  *)
(* point, and the overlay driver_options the parser tells apart.           *)
EXTENDS Storage, TLC

Opt(k, v) == [key |-> k, set |-> v]
AllDirs == <<Opt("lowerdir", TRUE), Opt("upperdir", TRUE), Opt("workdir", TRUE)>>

MCDrivers == {"local", "virtio-blk", "overlayfs", "image", "nfs"}
\* ro and its alias, and flags that make the first mount(2) a remount; the
\* local driver also gets rbind with ro and an explicit bind.  (A "bind" in
\* a block or overlay request turns its mount into a bind mount of the
\* source, which is outside what those drivers are for.)
MCOptions == {{}, {"ro"}, {"readonly"}, {"remount"}}
MCBindOptions == {{"rbind", "ro"}, {"bind"}}
\* none; all three; "workdir=" given last (empty wins); "upperdir" with no
\* '=' (skipped).
MCDriverOptions ==
  {<<>>, AllDirs, Append(AllDirs, Opt("workdir", FALSE)),
   <<Opt("lowerdir", TRUE), Opt("other", TRUE), Opt("workdir", TRUE)>>}

MCRequest(drivers, options) ==
  [driver: drivers, options: options, src: {"none", "dir", "file", "dev"},
   target: {"none", "dir", "file"}, targetEmpty: BOOLEAN,
   path: {"plain", "spaced"}, driver_options: MCDriverOptions, cid: BOOLEAN]

MCRequests == MCRequest(MCDrivers, MCOptions) \cup MCRequest({"local"}, MCBindOptions)

MCAllFaults == FaultKinds
MCNoFaults == {}
=============================================================================
