# TLA+ models of runcell

runcell is a small OCI container runtime written in Rust. This directory has:

- TLA+ models of its container-start handshake, its namespace resolver, its CLI container commands and its storage crate;
- the TLC configurations that model-check them;
- an abstract specification of a container start (`StartProtocol`), which the handshake is shown to implement;
- TLAPS proofs of the handshake's safety properties, of its refinement of `StartProtocol`, of the lifecycle's `OrphansKilled`, of the namespace resolver's `SandboxResolvesAsPlanned`, and of the storage crate's `ReadOnlyHonoured`.

`PROJECT.json` lists:

- every component, modelled or not;
- every run and the mutant that shows each property can fail;
- the source lines behind each definition;
- the findings;
- the hazards of the code and the properties that cover them;
- the theorems.

## The system and its parts

| Part | Source | What it does |
|---|---|---|
| Bootstrap coordinator | `namespace.rs` `join_namespaces` (314-430) | The parent side of a container start. It exchanges frames with the child over two sync pipes. It sends spec, process and state, each acknowledged. It then sends the cgroup manager and waits for "user namespace ready". It writes uid/gid maps, applies and sets cgroups, and sends "continue". For an init process it then waits for "ready for hooks", runs the prestart hooks and sends "hooks done". Last, it waits for "ready to exec". Each `read_async`/`write_async` is an `.await` and may fail. |
| Namespace resolver | `namespace.rs` `update_namespaces` (69-97), `get_pid_namespace` (121-151), `is_userns_enabled` (168-175) | Reads the OCI `linux.namespaces` array. The sandbox rewrite points empty entries at `/proc/<pid>/ns/*`. The other two decide the PID namespace and whether the parent writes id maps. |
| ID-map writer | `namespace.rs` `write_mappings` (462-479) | Writes `/proc/<pid>/{uid,gid}_map`. |
| CLI container commands | `container_cmd.rs` (33-482) | `create`, `run`, `start` (a no-op), `delete`, `list`, `exec`. Each one is a separate CLI invocation acting on the host: processes, the state record, the bundle directory, the image store's rootfs and cgroup directories. |
| Persisted state | `types.rs` `BaseState` (158-172) | The init PID and its start time, as saved in state.json. |
| Storage handlers | `handler.rs` | `STORAGE_HANDLERS` maps each driver type to one of four handlers (local bind, block device, overlay, image pull); each `create_device` mounts the request's source on its mount point and returns a device for that path. |
| Mount helpers | `mount.rs` | `parse_mount_flags`, `bind_mount` (with a second, read-only remount), `mount_device`, `mount_overlay`, `unmount`, `is_mounted` (reads `/proc/mounts`). |
| Storage device | `device.rs` | `StorageDeviceGeneric::cleanup` removes an empty directory at the device's path. |
| CDH client | `image/cdh.rs` | The image RPC client (a stub). |

They interact in this way:

- `run` creates a `LinuxContainer` (outside this tree). Its start runs `join_namespaces` against the child, reading the namespace array through the resolver.
- `delete`, `list` and `exec` find the container's process again through the PID recorded in state.json.
- The storage crate is called by a caller outside this tree: it looks the driver type up in `STORAGE_HANDLERS`, calls `create_device`, and later `cleanup` (and `unmount`, `is_mounted`) on the result.

## Modules

### Namespaces

This module holds one namespace entry in four forms: absent, path `None` ("unset"), `Some("")` ("empty"), and a real path ("set").

- `is_userns_enabled` is lines 168-175 applied to the user entry.
- `ChildCreatesNew` is the child's reading of an entry. It comes from the spec's namespace plan, because the child code is not in `src/`.

### Handshake

This module models `join_namespaces` against the child process.

**State.** The state is:

- `ppc`, the parent's place: one value per await;
- `cpc` and `calive`, the child's place and whether it is alive;
- two pipes, as sequences of `DATA`, `SUCCESS` and `FAILURE` tags (the parent never looks at payloads);
- `done`, the setup steps completed: `uid_map`, `gid_map`, `apply`, `set`;
- `hooksRan`;
- `cUserns`, whether the child created a user namespace;
- `cfg`, the configuration: a linux section, systemd or fs cgroup manager, init or exec process, the form of the user entry, resources, and hooks.

**Parent actions.** There is one action per await:

- `SendSpec`, `AwaitSpecAck`, `SendProcess`, `AwaitProcessAck`, `SendState`, `AwaitStateAck`;
- `SendCgroup`, where the systemd branch is the `todo!()` panic;
- `AwaitUserns`;
- `Configure`: the whole block 371-397, including maps, apply, set and "continue". Any failing step ends the task with the earlier steps done.
- `AwaitHookReady`, `RunHooks`, `AwaitExecReady`.

**Pipe primitives.** `write_async` fails with EPIPE when the child is dead. `read_async` returns the next frame. It fails on `FAILURE`, and fails with EOF once the child is dead and the pipe is drained.

**Child.** The child (`ChildRecv*`, `ChildSetupNs`, `ChildFail`, `ChildExit`) follows the spec's child contract.

**Faults.** The set `Faults` chooses which failures may happen: child crash, child FAILURE report, id-map write, cgroup apply/set, and hook.

**Fairness.** The fairness is weak fairness of the parent and of the child's protocol steps, and nothing more:

- the parent is an async task that is polled whenever its pipe is ready;
- the child is a process the kernel schedules;
- failures and crashes are never forced to happen.

### StartProtocol

This module is the abstract specification of a container start, written from section 4.F of the spec. The pipes and frames are gone. The parent is `running` or has ended (`ok`, `err`, `panicked`). The child is at `boot`, `nsready`, `continued` (init only) or `exec`.

- `NsReady`: the child sets up its namespaces.
- `Setup`: the id maps and cgroup steps, once, in the spec's order (`InOrder`); a failed step ends the start with the earlier steps done.
- `Continue`: "continue" reaches a child whose required setup (`Required`) is complete.
- `Hooks`, `HooksComplete`: the hooks run while the init child waits, then it goes on to exec.
- `Return`: Ok, only once the child execs. `Fail`, `Panic`, `Die` end the start or the child.
- Fairness: weak fairness of the parent's ending steps, so every start ends.

`Handshake` maps onto it through `ParentPhase` (from `ppc`) and `ChildPhase` (from `cpc`); the other variables carry over. `ImplementsStart` is `Start!ASpec` under that mapping. Every frame the parent sends or reads before `Configure` is a stutter of the abstract spec. `Configure` is one `Setup`; when nothing was done it is a `Fail`, or a stutter for an empty plan.

### NamespacePlan

This module models the resolver over whole arrays: at most one entry per kind, and path forms unset, empty, host path and the `/proc` path the sandbox rewrite writes.

- `update_namespaces`, `get_pid_namespace` and `is_userns_enabled` are translated from the code. In `get_pid_namespace`, the first pid entry decides, and `Some("")` makes `open` fail with ENOENT.
- `Plan`, the spec's plan (CreateNew, Join or Skip per kind), is the reference definition the queries are checked against.

### ContainerLifecycle

This module models the CLI commands against the host.

**State.** The state is:

- the process table `proc`, where a PID holds an owner (a container, a foreign process or nobody), a start time, and whether a SIGKILL is pending on the process;
- `state`, the state.json record of each container;
- `bundle`, `rootfs` and `cgroup`;
- `cli`, the command in progress.

**Host.** The host runs on its own: `ProcessExit` ends a process, and `ForeignSpawn` starts one that takes a free PID. This is how PIDs get reused. A process that was sent SIGKILL also ends by `ProcessExit`, at whatever point the kernel gets to it.

**Commands.** One command runs at a time.

- `CreateContainer`: lines 83-111.
- `RunContainer` (lines 114-209) is either `RunStartFails` or `RunStarts`.
  - `RunStartFails`: the rootfs and bundle are left, and `LinuxContainer` cleans up after itself.
  - `RunStarts`: an init process at a free PID, its cgroup, and state.json with the PID and start time.
- `delete` is two steps:
  - `DeleteLoad` (227-262) checks `is_process_running` on the recorded PID.
  - `DeleteKill` (238-251) SIGKILLs whatever holds the PID at that moment; ESRCH on a free PID is logged and ignored. The 100 ms sleep is not checked, so the signalled process is only marked `killed`: it may still be running when `delete` goes on and returns (spec §5: "if still alive, it returns success anyway").
  - `DeleteCleanup` (264-284) removes bundle, state and rootfs in turn, stopping at the first failure.
- `exec` is two steps: `ExecLoad` (419-444) and `ExecEnter` (446-482).
- `ListStatus` is the status computation of `list_containers`.

**Spec-modelled parts.** `is_process_running`, state loading and the image store are outside `src/` and modelled from the spec. `is_process_running` is `kill(pid, 0)`: it succeeds for any process holding the PID.

There is no fairness: a CLI command is issued by a user, and nothing is required to happen.

### Storage

This module models one storage request, from `create_device` to `cleanup`, against its mount point.

**State.** `req` is the request (driver type, options, kind of source, kind of mount point, whether its path needs escaping, the overlay `driver_options`, whether a container id is given). `fs` is what is at the mount point, `mnts` the mounts stacked on it (kind, read-only), `aux` the overlay upper and work directories made, `phase` whether the caller holds a device, `dev` the device's path (the mount point or the image bundle), `seen` the last `is_mounted` answer.

**Registry.** `STORAGE_HANDLERS` is a `FoldLeft` of `add_handler` over the four handlers' `driver_types`, as the `lazy_static` block builds it; `handler` looks a type up in it.

**Kernel.** `MountAllowed` and `Mounted` are mount(2) for the flags the code passes (spec-modelled): `MS_REMOUNT` is looked at first and needs a mount to change; a new `MS_BIND` mount ignores every flag but `MS_REC`, so it is never read-only, and needs source and mount point both directories or both not; any other mount needs a device (or overlay) and a directory. `MountCall` is one call: refused by those rules, or by a fault when the run allows it.

**Actions.** `LocalCreate`, `BlockCreate`, `OverlayCreate`, `ImageCreate` are the four `create_device`s, each with its early returns; `NoHandlerCreate` is a type with no handler. `Cleanup` is `StorageDeviceGeneric::cleanup`; it decides by `PathKind`, what stat(2) sees at the path, i.e. the top mount's root. `Unmount` and `IsMounted` are `unmount` and `is_mounted`, which the caller may call at any time.

## Runs

| Run | Config | Checks | Result |
|---|---|---|---|
| `handshake_faults` | `MC_Handshake.cfg` | `IdMapsInUserns`, `SetupBeforeContinue`, `NewUsernsMapped`, `InStep`, `HooksBeforeExec`, `HooksWhileChildWaits`, `Terminates`, `ImplementsStart` | pass |
| `handshake_empty_userns` | `MC_Handshake_EmptyUserNs.cfg` | `NewUsernsMapped` | violation (finding) |
| `lifecycle` | `MC_ContainerLifecycle.cfg` | `OrphansKilled` | pass |
| `lifecycle_pid_reuse` | `MC_ContainerLifecycle_ActsOnOwnInit.cfg` | `ActsOnOwnInit` | violation (findings) |
| `lifecycle_pid_reuse_list` | `MC_ContainerLifecycle_ListAccurate.cfg` | `ListAccurate` | violation (finding) |
| `lifecycle_cgroup_leak` | `MC_ContainerLifecycle_CgroupsReleased.cfg` | `CgroupsReleased` | violation (finding) |
| `lifecycle_failed_start_leftovers` | `MC_ContainerLifecycle_CleanupAfterFailedStart.cfg` | `CleanupAfterFailedStart` | violation (finding) |
| `namespace_resolver` | `MC_NamespacePlan.cfg` | `SandboxResolvesAsPlanned` | pass |
| `namespace_pid_empty_path` | `MC_NamespacePlan_PidEmpty.cfg` | `PidNsAsPlanned` | violation (finding) |
| `storage_readonly` | `MC_Storage.cfg` | `ReadOnlyHonoured` | pass |
| `storage_cleanup_mounted` | `MC_Storage_CleanupUnmounts.cfg` | `CleanupUnmounts` | violation (finding) |
| `storage_is_mounted_escaped` | `MC_Storage_IsMountedAccurate.cfg` | `IsMountedAccurate` | violation (finding) |

### What the properties say

**Handshake.**

- The id maps are written only once the child is in its new user namespace (`IdMapsInUserns`).
- The child passes "continue" only after every planned setup step is done, and `set` never runs before `apply` (`SetupBeforeContinue`).
- A child that created a user namespace has both maps (`NewUsernsMapped`).
- Because the parent counts frames and never inspects them, each frame the child reads is the one its current read expects (`InStep`).
- An init child execs only after the prestart hooks ran, and `Ok` is returned only once the child execs (`HooksBeforeExec`).
- Hooks run only while the child waits for them (`HooksWhileChildWaits`).
- Every start ends, through `Ok`, an error or the `todo!` panic (`Terminates`).
- The handshake implements `StartProtocol`, liveness included (`ImplementsStart`). This is checked with every fault enabled and the user-entry forms both sides agree on.

**Lifecycle.** A container's process outlives its state record only once `delete` has sent it SIGKILL (`OrphansKilled`), under PID reuse and every removal failure. A stronger statement, that no container process outlives its state record, is false of the code and is not claimed by the spec: `delete` does not wait for the death. `delete` kills, and `exec` enters, only the container's own init process (`ActsOnOwnInit`, violated: see the findings). TLC reports whichever command goes wrong first; each one's counterexample was also obtained with the property restricted to that command.

**Resolver.** After the sandbox rewrite, the answers of both queries are those the spec's plan gives.

**Storage.** A device created with `ro` or `readonly` is mounted read-only for as long as it is held (`ReadOnlyHonoured`), for every driver's requests except a block or overlay request that also asks for `bind` (which makes the mount a bind mount that nothing remounts; see `StorageProofs.tla`). This needs the remount in `bind_mount`, because the kernel drops `MS_RDONLY` from a new bind mount.

### Findings

Each violation run is a disagreement between the code and the spec. `PROJECT.json` ("findings") gives the lines.

- **Empty user path (`namespace.rs:174`).** A user entry with path `Some("")` is CreateNew for the child but not user-namespace-enabled for the parent. The child's new user namespace is never mapped.
- **PID reuse in `delete` (`container_cmd.rs:234`).** `delete` kills whatever process reused a dead container's PID, because the start time is never compared.
- **PID reuse in `list` (`container_cmd.rs:343`).** `list` reports such a container as Running.
- **PID reuse in `exec` (`container_cmd.rs:435`).** `exec` checks that some process answers on the recorded PID. It then joins that PID's namespaces without comparing start times. After the init exits and a foreign process takes its PID, `exec` runs the command inside the foreign process's namespaces.
- **Cgroup leak (`container_cmd.rs:279`).** `delete` never destroys the cgroup.
- **Failed `run` leftovers (`container_cmd.rs:134`).** A failed `run` leaves its bundle behind.
- **Empty pid path (`namespace.rs:129`).** `get_pid_namespace` fails on a pid entry with an empty path, which the plan makes CreateNew.

The storage crate is outside the spec. Its two findings are measured against its own doc comments.

- **Cleanup leaves mounts (`device.rs:75`).** `cleanup` never unmounts (a TODO). For a file bind-mounted by the local handler it returns Ok and the mount stays. Its trait doc says it unmounts first.
- **Escaped paths in `is_mounted` (`mount.rs:248`).** `/proc/mounts` writes a space in a mount point as `\040`. `is_mounted` compares the raw text, so it answers false for a mounted path with a space.

### Bounds

**Handshake.** There are no numeric bounds: the protocol is finite, and the pipes hold at most one frame (`InStep`, proved).

- `Configs` ranges over all 2^5 × |UserNsEntries| configurations.
- The pass run enables every fault. The entry forms parent and child agree on are `absent`, `unset` and `set`. The form `empty` is the violation run's.
- `CHECK_DEADLOCK FALSE` is set because the handshake really stops: in `Done`, `Failed` or `Panicked`, with the child exec'ing or dead.

**Refinement.** `ImplementsStart` is checked on the all-faults instance of `handshake_faults`, as the whole of `Start!ASpec`, fairness included.

**Lifecycle.** Two containers, two PIDs and start times up to 4.

- This lets a container run, exit, and have its PID taken by a foreign process, or by the other container, while a `delete` or `exec` is between its two steps.
- Symmetry over containers and over PIDs is sound because no definition distinguishes them.
- Deadlock is checked; once the clock is spent, delete stays enabled.

**Resolver.** Arrays of up to three kinds (`user`, `pid`, `net`), in every order, with every path form.

- This covers two queries reading the same array and the first-pid-entry rule.
- `CHECK_DEADLOCK FALSE` is set because resolution is one step and then stops.

**Storage.** Every driver type the code knows plus an unknown one; options `{}`, `ro`, `readonly`, `remount` for every driver, and `rbind,ro` and `bind` for the local driver. (A `bind` in a block or overlay request would turn the mount into a bind of the device node, which those drivers are not for.) Every kind of source (none, directory, file, device node) and of mount point (absent, directory, file), a plain and an escaped path, and overlay options with all three directories, none, an empty `workdir=` given last, and a key without `=`.

- The pass run lets every mount and unmount and the image pull fail, so the failed remount is reached.
- There are no numeric bounds: a request is created at most once, and the stack holds at most two mounts.
- Deadlock is checked: `IsMounted` is always enabled.

### Mutants

Each property of a passing run has a mutant: a plausible bug in the mapped code under which TLC finds the property violated.

| Mutated definition | Mutant | Property it breaks |
|---|---|---|
| `is_userns_enabled` | ignores the path | `IdMapsInUserns` |
| `is_userns_enabled` | tests `is_some` | `NewUsernsMapped` |
| `Configure` | applies `set` for non-init processes | `SetupBeforeContinue` |
| `Configure` | skips the hook sub-handshake | `HooksBeforeExec` |
| `AwaitStateAck` | skips the ack | `InStep` |
| `AwaitHookReady` | skips the read | `HooksWhileChildWaits` |
| `read_async` | never sees EOF | `Terminates` |
| `DeleteLoad` | liveness test inverted | `OrphansKilled` |
| `update_namespaces` | rewrites only `None` | `SandboxResolvesAsPlanned` |
| `bind_mount` | no read-only remount | `ReadOnlyHonoured` |
| `AwaitHookReady` | skips the read | `ImplementsStart` |

## Proofs

### HandshakeProofs.tla

TLAPS proves the following for every fault set and every set of user entry forms. They rest on the assumptions `FaultsAssumption` and `UserNsAssumption`.

- `TypeCorrect`: `Spec => []TypeOK`.
- `Invariant`: `Spec => []IInv`, where `IInv` is the inductive invariant.
- `IdMapsInUsernsHolds`, `SetupBeforeContinueHolds`, `InStepHolds`, `HooksBeforeExecHolds`: each of these invariants holds always.
- `HooksWhileChildWaitsHolds`: the action property.
- `NewUsernsMappedHolds`, under the hypothesis that no user entry is `empty`. The violation run shows that the hypothesis is needed.

#### The inductive invariant

None of the properties is inductive by itself. The parent counts frames and never inspects them, so why each read gets the frame it expects is a fact about both processes and both pipes together. `IInv` is:

```
TypeOK /\ Sync /\ UsernsInv /\ DoneInv /\ HooksInv
```

**Sync** is the protocol table. `Row(i, p, c, tc, tp)` lists, for each parent place, each child place it can coexist with and the exact contents of both pipes. `i` says whether the process is the init process, which has the extra hook exchange. `Sync` also covers three cases after a failure:

- the child died with a `FAILURE` frame pending (`SyncFailed`);
- the parent ended and the child is dead (`SyncGone`);
- the parent ended and the child is blocked on an empty pipe (`SyncStuck`).

**UsernsInv.** The child has a user namespace exactly when it is past setup and its entry is CreateNew.

**DoneInv.** `done` is empty before `Configure`, equals `Planned` after it, and is always a prefix of `Planned` in code order.

**HooksInv.** The hooks have not run before `RunHooks`, and when they have run the child is at or past "hooks done".

TLC checked `IInv` as an invariant of the all-faults run before it was proved.

#### How the proof goes

- `Sync` is preserved in two layers, with `Row` kept opaque in the per-action proof:
  - The table lemmas (`RowShape`, `ReadTable`, `WriteTable`, `AbortTable`, `ChildTable`, `SetupNsTable`) state which row each kind of step moves to. Only these lemmas expand `Row`.
  - The generic step lemmas (`ReadStep`, `WriteStep`, `AbortStep`, `ChildReadStep`) show that a `read_async`, a `write_async`, a give-up of the parent, or a read of the child preserves `Sync`, given the matching table entry.
  - `SyncStep` then takes one short case per action: it names the table entry and the generic lemma.
  - `GoneIntro` closes every case that ends with the parent terminated and the child dead.
- The other conjuncts are preserved by a step proof split per action. The child's reads name the row they start from.
- Frequently used consequences of the table (`SyncFacts`) are lemmas: for example, the parent at `Configure` means the child is at `AwaitContinue`.
- `DonePrefix` is kept opaque behind `PlanFixed`.
- The pipe operations rest on `ReadAsyncType`, `WriteAsyncType` and `AppendPair`, which use `SequenceTheorems`.

### HandshakeRefinementProofs.tla

`RefinesStart` proves `Spec => Start!AInit /\ [][Start!ANext]_Start!avars`, the safety part of `ImplementsStart`. It holds under the hypothesis `NoEmptyUserns`: no user entry is `empty`.

- The hypothesis is needed. For `Some("")`, the parent's plan (`Planned`, from `is_userns_enabled`) leaves out the id maps. The protocol's `Required` (from the child's `ChildCreatesNew`) includes them. So `Continue` would not be a step of the protocol. `PlannedRequired` proves that the two plans are equal without such an entry.
- The proof is one lemma per kind of step, resting on `IInv` of `HandshakeProofs`:
  - the frame-passing parent steps (`ParentPipeStep`, through `ParentQuiet`);
  - `SendCgroupStep`;
  - `ConfigureStep`: the child waits at `AwaitContinue` (`SyncFacts`), `done` is empty before it (`DoneInv`), and what is done is in the spec's order (`PrefixInOrder`, `StepRank`);
  - `RunHooksStep`: the hooks have not run (`HooksInv`);
  - `AwaitExecReadyStep`, which uses `IInv` in the next state: the parent reaches `Done` only with the child at `Exec`;
  - `ChildStep`: "continue" reaches the child only once the parent is past `Configure`, so all of the plan is done.
- `StepRefines` combines them, and `InitRefines` maps the initial states.

### ContainerLifecycleProofs.tla

`OrphansKilledHolds` proves `Spec => []OrphansKilled` for every set of ids and PIDs and every clock bound. It assumes `LifecycleAssumption` and `OwnersAssumption`: container ids are not the other two owners of a PID. `LifecycleTypeCorrect` proves type correctness.

`OrphansKilled` is not inductive. A `delete` runs in steps, and the host acts between them. Its cleanup removes state.json on the strength of what its load and kill saw. The inductive invariant `IInv` adds what `delete` knows between its steps:

- `KillTarget`: while about to kill, it holds the PID that state.json records.
- `CleanupClear`: once about to clean up, every process of the container has a SIGKILL pending.

Nothing can start a process for the container in between, because `run` needs the CLI to be idle. TLC checked `IInv` on the `lifecycle` run's instance before it was proved.

### NamespacePlanProofs.tla

`SandboxResolvesAsPlannedHolds` proves `Spec => []SandboxResolvesAsPlanned` for every set of namespace kinds. The only assumption is `KindsAssumption`.

`SandboxResolvesAsPlanned` is not inductive. It speaks of the answers the parent already got, and those are right only because of two facts about the array they came from. The inductive invariant `IInv` adds them:

- `OnePerKind`: the array has at most one entry of each kind. `get_pid_namespace` takes the *first* pid entry, the plan takes *some* pid entry; with one entry per kind they are the same entry. The proof shows the set of pid entries is a singleton, so no induction on the least index is needed.
- `AllJoined`: after `update_namespaces`, every entry names a path to join, so nothing is created and `is_userns_enabled` is false.

It also records that, once resolved, the answers are those of the current array; nothing changes the array afterwards. `JoinedQueries` is the lemma about the two queries over such an array. TLC checked `IInv` on the `namespace_resolver` instance (610 states) before it was proved.

### StorageProofs.tla

`ReadOnlyHonouredHolds` proves `NoBindOnDevices => (Spec => []ReadOnlyHonoured)` for every set of requests and faults; it uses no assumption on the constants.

- **The hypothesis.** `NoBindOnDevices` says no block or overlay request carries `bind` or `rbind`. It is needed: with a `virtio-blk` request with options `{bind, ro}` and no faults, TLC finds `ReadOnlyHonoured` violated. `mount_device` then makes a new bind mount, which ignores `MS_RDONLY`, and it does not remount. The requests of every run satisfy it.
- **The invariant.** `ReadOnlyHonoured` is not inductive: whether a held device's mounts are read-only depends on the stack `create_device` started from. `IInv` adds that in the idle phase nothing is mounted, plus the typing of `mnts`, `phase`, `dev` and `req`. TLC checked it on the `storage_readonly` instance (44120 states) before it was proved.
- **The lemmas.** `MountCallShape` gives the outcomes of one mount(2). `DeviceRO` says a non-bind mount with `MS_RDONLY` from an empty stack leaves one read-only mount. `BindRO` says `bind_mount` with `ro` from an empty stack leaves its bind mount remounted read-only. `Unmount` keeps a prefix of the stack, and `cleanup` does not touch it.

`MountAllowed` is written as an IF chain, not a CASE. The remount in `bind_mount` passes both `MS_REMOUNT` and `MS_BIND`, and a CASE with two true guards has no determined value in TLA+. TLC takes the first guard, so the runs are the same.

### Checked by TLC only

- `Terminates`, and the fairness part of `ImplementsStart`: TLAPS cannot prove liveness here (it needs ENABLED and fairness reasoning).
- `ImplementsStart` with every user-entry form: the `empty` form breaks it, as it breaks `NewUsernsMapped`.
- The violated properties (`PidNsAsPlanned`, `CleanupUnmounts`, `IsMountedAccurate`, and the lifecycle ones). Each is shown false by a TLC counterexample.
- What the registry fold (`STORAGE_HANDLERS`) and `OverlayDirs` compute for every input. That would need induction over the folded sequence, which the installed provers cannot do with an operator parameter. The handlers' four literal type lists are evaluated by TLC on every storage run.

## Not modelled, and the plan

- **Not in `src/`.** The child process, the sync pipes, `LinuxContainer`, the cgroup managers, the hook executor and state loading are modelled from the spec, where the modules need them (marked `spec_modelled` in the map).
- **Not modelled yet:**
  - in the storage crate, `mount_device`'s data string and fstype (the kernel's file-system-specific checks), and the contents of a bundle (`pull_and_extract` is outside this tree; a bundle is never empty);
  - a duplicate driver type in `add_handler` (it leaves the earlier types registered, `handler.rs:79`): the four handlers declare disjoint types, so `STORAGE_HANDLERS` never meets it;
  - `types.rs`'s `ContainerStatus` transitions;
  - concurrent CLI invocations on one id;
  - the short write in `write_mappings`.
- **Pure I/O.** The CDH image client and the CLI's argument parsing and logger are pure I/O.
