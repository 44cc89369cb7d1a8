# Verification of Eo9

Eo9 is a capability-secure operating system in Rust. Programs are Wasm
components, the shell composes them out of smaller ones, everything a program may
do reaches it as an import, and CPU time is *fuel* handed down from parent to
child. The same programs run under a hosted runtime (`crates/eo9-runtime`, driven
by the `eo9` CLI) and on bare metal (`kernel/eo9-kernel`).

This directory holds TLA+ models of the parts whose correctness depends on the
order of events: the scheduler and its fuel accounts, the driving of task trees
with their doorbells, the service registry with its restarts, the `eofs`
copy-on-write filesystem and the `fs.eofs` provider that serves it to several
callers; in the kernel the task registry and executor, the call gate between a
service and its clients, the store disk, and both buffer tables; a USB stick
as a disk, from the provider down to the host controller's bulk endpoints; and
what `eo9` processes share through the store directory: session directories, named
programs and cached images. Besides these, the algebra by which the shell composes
components, whose laws hold of every expression or of none.
`PROJECT.json` maps every definition
to the lines it models and lists the runs, the hazards, the findings and the
theorems. Paths below are relative to `src/`.

- [Inventory](#inventory)
- [Modules](#modules): state and actions against the code
- [Runs](#runs): what is checked, the bounds and why they are enough
- [Fairness](#fairness)
- [Proofs](#proofs)
- [Findings](#findings)
- [Not modelled](#not-modelled)
- [Plan](#plan)

## Inventory

### How the parts interact

    eosh / programs (guests)                       crates/eo9 (CLI), eo9-embed
        |  eo9:exec/task: spawn, wait, kill              |  resume, park
        v                                                v
    crates/eo9-runtime: Task, Doorbell, link  <---- provider threads (unix i/o)
        |  component images                     ring doorbells on completion
        v
    crates/eo9-component (compose, restrict) -- crates/eo9-store (objects, cache)

    guest/stubs/fs-eofs  --->  crates/eo9-eofs  --->  a disk provider
      (several callers)         (one engine)          (flush orders writes)

    kernel/eo9-kernel/src/wasm: shell session, task registry (shellexec, shell)
        |  park gate, halt          |  spawn with a grant       |  compile, save
        v                           v                           v
    interrupts, clock (mod)     call gate, services (gate, svc)   store disk (diskcache, shellfs)

    guest/stubs/usb-msd --> crates/eo9-msd --> guest/stubs/usb-ohci --> crates/eo9-ohci --> the stick
       (disk calls)           (BOT engine)       (one controller)         (bulk EDs, TDs)

The interaction is by direct calls inside one thread, by host futures that
suspend a guest, and by doorbells rung from other threads. Shared mutable state is
rare and deliberate: a doorbell's flag and waiter list, a provider's engine slot,
the scheduler's tables, the two uberblock slots on a device, and the store
directory, which `eo9` processes change side by side with file locks for the
sessions only.

### The components

| Component | State | Operations | What is hard | What makes it correct |
|---|---|---|---|---|
| Scheduler (`crates/eo9-sched`) | task table, run queue, fuel accounts, running task | spawn, kill, reap, ready, pick, report, refuel, export, donate, reclaim | any call order; stale ids; many `expect`s that rely on cross-table invariants; balances at the limit | queue = runnable tasks; one resumer; links never dangle; fuel conserved and never overflowing; no resurrection; no starvation under the fair policy |
| Runtime task driving (`crates/eo9-runtime/src/task.rs`, `link.rs`; `crates/eo9/src/run.rs`, `providers.rs`) | doorbells, parked/outcome/carried fuel per task, host futures, the embedder thread and its park token | resume (children first), spawn, wait, kill, poll_edge, ring, park | provider threads ring at any moment; nested resumes; wake edges that exist once | no lost wakeup; completions reach their guest; a wait on an ended child returns |
| eofs engine (`crates/eo9-eofs`) | device, committed and pending roots, frontier and free list | format, mount, create, write, remove, snapshot, commit, rollback, gc | power loss anywhere, unordered unflushed writes, failing or cancelled operations, block reuse | committed trees are never overwritten; commits are atomic and durable |
| fs.eofs provider (`guest/stubs/fs-eofs`) | engine slot, handles with a pending truncation | open, read, write, mkdir, remove, close | overlapping calls, cancellation at every await, retry after a full disk | one owner of the engine; the device moves by whole operations; the slot is always given back |
| Service registry (`crates/eo9-runtime/src/svc.rs`, the services loop of `run.rs`, `guest/stubs/restart-*`) | services, restart counts and deadlines, the foreground task | detach, stop, clear, pump, park | a stop, an end and a restart meeting in any order; a park that must end for every reason to run | a stopped service stays stopped; back-off is kept; due restarts and the foreground are served |
| Component algebra (`crates/eo9-component`, applied by `guest/eosh/eosh-core/src/eval.rs`) | none (pure); the evaluator's operands | `$`, `&`, `only`, `rename`, `with`, configure | slot names, versions and annotations through long expressions; shadowing; the order of configurations | the action law and associativity; configurations in order; a gate holds for good |
| Shell sessions (`crates/eo9/src/shell.rs`) | lock files and their holders, session directories, the sweep guard | establish, sweep, end | kills between any two file operations, reused pids, sweeps beside starts, lock files that do not open | a live session keeps its directory, if sweeps can open its lock; a sweep finds every dead one; a start ends |
| Module store and seeding (`crates/eo9-store`, `crates/eo9/src/seed.rs`) | objects, the default manifest, the seed record | store add, first seed, refresh, reseed | unlocked commands, interrupted seeding, upgrades | names the user bound are never taken by the seeder |
| Image cache (`crates/eo9-store/src/cache.rs`, `crates/eo9-runtime/src/compile.rs`) | one directory per key with image and meta | look up, insert, gc | eviction, insertion and lookup of one key at once; kills | what a lookup returns is the whole image of its key |
| Kernel executor (`kernel/eo9-kernel/src/wasm/shellexec.rs`, `mod.rs`, `shell.rs`, `fibercompile.rs`) | task registry, parents, wakers, input ring, timer, nested polls | spawn, kill, wait, drop, poll pass, compile with passes inside it, park, halt | re-entrance from a compile, kills under a poll, interrupts between the last look and the halt | a store is entered once; a killed program is never checked in again; the core never halts on work |
| Kernel call gate and services (`gate.rs`, `svc.rs`) | shares, grants and their tables, calls, the owner's run | mint, submit, intake, answer, sever, detach, restart, stop | the owner ends with calls everywhere; grant indices are reused | no call is left waiting; gated children end with the run, or when the poll under way returns; handles are their owner's |
| Kernel store disk (`diskcache.rs`, `shellfs.rs`) | entries with keyed tags, open handles, the image cache | store, look up, save, remove, compile, boot | a store that fails half way, a reset, a power cut of the host, another build of the kernel | what is served was stored for that name; what was acknowledged outlives the machine |
| Buffer tables (`crates/eo9-runtime/src/task.rs`, `shellfs.rs`) | slots, the byte budget, buffers in flight | alloc, free, take, restore, cross the gate | the bytes are away while the guest goes on | a handle names its own bytes; the budget is exact |
| USB mass storage (`guest/stubs/usb-msd`, `crates/eo9-msd`, bulk part of `crates/eo9-ohci`) | provider slot, engine tag and `mid_command`, endpoint descriptors; the stick | read, write, bring-up, command, data, status, reset recovery, cancel | cancellation at every await, timeouts, stalls, a descriptor left on a live queue | an accepted answer is the command's own; only the bytes asked for change; both ends agree on toggles |
| Other device cores (`crates/eo9-rtl8125`, kernel virtio and receive ring, the rest of `eo9-ohci`) | descriptor rings | submit, complete, reset | ownership shared with hardware | a descriptor has one owner |
| Network stubs (`guest/stubs/net-*`) | bounded queues | send, receive | backpressure, limits | nothing lost silently, no deadlock |
| Other filesystem stubs | overlays | copy-up, whiteout | partial failure | a lower layer is never changed |
| Flash wire (`crates/eo9-flashwire`, the serial loader) | sequence position | send, acknowledge, retry | lost and repeated frames | the image arrives whole |
| Parsers (`eo9-partwalk`, `eo9-fatwalk`, `eo9-dns`, `eo9-curl-core`) | none | decode | boundary arithmetic | total on every input |
| Shell, CLI, build tooling, web site | text | parse, print, run tools | little concurrency of their own | not about ordering |

`PROJECT.json` lists every one of them under "components" with its status, and
under "hazards" the lines where things can go wrong in a way tests hardly reach.

## Modules

| Module | Models | Kind |
|---|---|---|
| `FuelNode` | what a scheduler node promises about budgets and lifetimes | abstract |
| `Sched` | `crates/eo9-sched`: `sched.rs`, `fuel.rs`, `policy.rs` | detailed, refines `FuelNode` |
| `Sched_proofs` | theorems about `Sched` | proofs |
| `Units` | sums of accounts, for the fuel ledger and the buffer tables | helper |
| `Units_proofs` | what a change of one account does to a sum | proofs |
| `TxnFs` | what eofs promises: atomic, durable transactions | abstract |
| `Eofs` | `crates/eo9-eofs` over a device with a volatile write cache | detailed, refines `TxnFs` |
| `Eofs_proofs` | theorems about `Eofs`, the refinement of `TxnFs` among them | proofs |
| `FsEofs` | `guest/stubs/fs-eofs`, over the promise of `TxnFs` | detailed |
| `TaskDrive` | doorbells, resume, the exec host functions, the drive loop | detailed |
| `Runtime_proofs` | theorems about `TaskDrive` and the buffer tables | proofs |
| `Services` | `svc.rs`, the drive loop with services, the restart policies | detailed |
| `KTasks` | the kernel's task registry, session loop, park gate and halt | detailed |
| `KGate` | the kernel's call gate and the service that owns a share | detailed |
| `KDisk` | the kernel's store disk, over the promise of `TxnFs` | detailed |
| `Kernel_proofs` | theorems about `KTasks`, `KGate` and `KDisk` | proofs |
| `Buffers`, `KBuffers` | the hosted and the kernel's buffer tables | detailed |
| `Msd` | `usb.msd`, the Bulk-Only Transport engine and the bulk endpoints | detailed |
| `Msd_proofs` | theorems about `Msd` | proofs |
| `Sessions` | the session directories of `eo9 shell` and `eo9 init` | detailed |
| `ModuleStore` | `store add`, seeding and refreshing of named programs | detailed |
| `ImageCache` | lookups, inserts and eviction of compiled images | detailed |
| `Hosted_proofs` | theorems about `FsEofs`, `Services`, `Sessions`, `ModuleStore` and `ImageCache` | proofs |
| `Algebra` | `$`, `&`, `only`, `rename`, `with` and configure, as `eval.rs` applies them | detailed |
| `Algebra_proofs` | theorems about `Algebra` | proofs |
| `MCSched`, `MCEofs`, `MCFsEofs`, `MCTaskDrive`, `MCHosted`, `MCKernel` | instances for TLC | MC |

An MC module may hold several instances or components side by side: a variable
chooses one for the whole behaviour and the others stay in their initial states.
That is a disjoint union, checked in one run, and nothing of it is shared.

Definitions called `X_Something` next to a definition `X` and commented
"Variant" are `X` with one plausible mistake. No specification uses them; each
is what a run must be able to tell from the real definition, so that a passing
property is known to depend on the code it is about.

### Sched

The variables are the fields of `Scheduler` and `FuelLedger`: `state`, `parent`,
`children` (the task table), `queue` (the policy), `running`, `balances` and the
three lifetime totals. A task that is not in the table has state `"Absent"`. There
is one action per mutating method; the error returns of a method leave everything
unchanged and are its guards. `Report` burns first and then applies the outcome,
as `report()` does; retiring a task empties its account into the pool.

Both policies hold the same queue in arrival order and differ only in
`NextIndex`: the front for `FairPolicy`, the least id for `DeterministicPolicy`.
The caller is external and unconstrained, except for the documented precondition
of `pick()` (one resumer). `FuelMax` stands for `Fuel::MAX`; additions that
`checked_add` would refuse are refused. `MaxTasks` and `MaxImported` bound what
are a `u64` id counter and a `u128` lifetime total, far from their limits in
practice.

`FuelNode` forgets the queue and the accounts: fuel enters, leaves and never
appears from nowhere, and each id goes unused -> live -> finished -> gone once. The
mapping sums the accounts and reads an id's life (`Life`) off `next_id` and `state`.
The sum, `Circulating`, is the number of `Units`: an account with a balance of n holds
n of them, so that adding and moving fuel is adding and moving elements of a set.

### Eofs and TxnFs

`disk` is what a read returns now; `maybe[l]` is the set of older contents a crash
may still leave at `l`, emptied by a flush. A crash leaves, independently for each
unflushed location, the new contents, any of the older ones, or torn bytes. Block
pointers carry their hash, modelled by the content it covers, so "the checksum
matches" is equality. An object is one block and a filesystem is one directory
plus the snapshot table; the paths a commit has to keep intact still have three
levels (uberblock, snapshot table, directory, file).

`commit` is three device steps (flush, slot write, flush) with a crash possible
between any two; every other engine call is one step, because what an unfinished
call has written is unreachable and a crash inside it equals a crash after it that
loses some of its writes. Failing or cancelled operations are `OpFails` (blocks
taken, roots unmoved), `CommitFailsEarly` and `CommitFailsLate`. `Gc` rebuilds the
free list from the four roots it walks, as `gc()` does, and reads directories and
tables through their checksums but not file data. A device starts blank or with
an older image of a higher transaction number.

Two constants select the embedder: `WithGc` (the kernel's cache never calls
`gc`), and `TailFaults` (whether the slot write or last flush of a commit may
fail, or be cancelled, with the filesystem staying mounted).

`TxnFs` is the promise: a committed and a pending state, changes that collect in
the pending one, a commit that is one step, and a crash that goes either way only
while a commit is publishing. A commit that failed late leaves its state in `doubt`:
a crash may find it or the committed one, until a later commit returns or a flush
settles it. The mapping reads `doubt` off the other slot (`Doubtful`).

References are typed by what they point at (`FileRefs`, `DirRefs`, `TableRefs`) and
uberblocks by `Ubs`; that the marks of absence are none of these is `EofsMarks` and
`EofsNoFs`, which model values satisfy.

### FsEofs

`slot` is `STATE` (`Empty`, `Busy`, `Ready`); `op[c]` the call client `c` has in
flight, with its position between awaits; `handle[c]` its open file with the
truncation it still owes. Every step of a body is one engine call. `Fail` is an
error or a dropped future at any await: `mutate`'s rollback, and `FsGuard`'s,
which also puts the engine back. `BringUpFails` is the same for the first mount,
through `BringUpClaim`. `NoSpaceRetry` is the second attempt of `mutate` after
`gc`: it reruns the closure over what the first attempt left pending.

The engine appears at its promise: one pending state, published whole by a
commit. The late commit fault is studied in `Eofs` and left out here. Paths are
opaque and a file is a short sequence of cells; `Splice` zero-fills gaps as
`write` does beyond the end.

### TaskDrive

Each task has its `Doorbell` (`rung`, `waiters`) and its `Task` fields (`parked`,
`outcome`, `carried`). `stack` is the embedder thread's nested `resume` calls,
`emb` its place in `drive_to_completion` and `wait_until_runnable`, `token` the
park token of `std::thread`. `prov[t]` is the provider thread that completes `t`'s
i/o: it queues the future, sets the flag, and only then drains and wakes the
waiters, each a step of its own. `poll_edge` is likewise three steps: observe,
register, observe again.

A guest is nondeterministic: it computes, spawns, kills, finishes, or waits for
i/o, for children, or for both (`Uses` says which). A host future is polled again
only after its own waker has fired, as wasmtime's future sets do (external). Fuel
is counted in whole quanta, since every donation in the code is one. Rings by the
embedder thread are one step, because no other thread registers wakers. Such a ring
wakes a future of the parent, whose waker rings the parent's bell: `Rings(t)` is the
least set of bells with `t` that is closed under this. `Attended(t)` is a least set
too: the root, and whatever a running task in it waits for.

`resume` is modelled whole: the children first, on the parent's budget and one
quantum each; the budget check after them; take the bell; poll; then decide
between yielding, another quantum and blocked. `DriveChild`, `Take`, `Pending` and
`Return` are its parts, and `WaitCheck`, `WaitRegister`, `WaitReobserve` the
`wait` host function.

### Services

`services` is the registry's list in order; `loop` is the embedder thread's place
in `drive_with_services` and `park_until_progress`. One turn runs the foreground
for a slice, pumps every service once in order (`PumpRun`, `PumpRestart`,
`PumpSkip`), and parks only when nothing was runnable: observe, register, observe
again, choose the timeout, park. A run that ends is judged by its policy
(`AfterRun`): never, always, or `restart.backoff` with its doubling, capped delay
and its budget. `Detach`, `Stop` and `Clear` are made by the foreground while it
runs. The clock moves on its own; provider threads ring the foreground only, since
a service has no provider but its log.

### KTasks

The kernel polls everything on one core, so `stack` (the polls, passes and
compiles in progress) with `at` (the session loop) is the whole control state;
only the input interrupt and the clock are concurrent. A slot is `none`,
`running`, `polling` (checked out by a pass) or `done`, as `ChildSlot`. A pass
visits the slots in order; a compile inside a poll runs further passes, which is
where the same store could be entered twice. A program has at most one pending
host future (wait, read-line, sleep), and is polled again only when that future's
waker was rung. Parking is three steps as in `mod.rs`: the gate looks at the
wakers, interrupts are masked, and the masked re-check decides whether to halt;
`idle_wait` ends by input, by the requested deadline or by the maintenance
deadline.

`RootIsConsole` tells the two boots apart. With the shell as root,
`NothingStranded` does not hold at one point: a pass inside a compile consumes the
input edge before the root has registered its waker. It is checked and
proved for the supervised boot. `NoOrphans` (a killed task takes its whole tree along) is stated
and does not hold either: a program killed during its own compile goes on to
spawn. Both are in the hazard list, and neither has a run of its own.

### KGate

`grants[g]` is a child's grant with its handle table, `call[c]` a gate call from
submission to the answer taken. `Submit` rings the intake's waker once; the
owner's poll drains the queue, answers some calls and keeps the others. The run of
the owner ends by a trap or a stop: the share is severed, calls are refused and
the gated children are killed with it. A grant's index is free again when the dead
child's handle is dropped, also while one of its calls is in flight. The intake takes
all that is queued at once and answers in any order, so `queue` is a set.

A child's poll may run others (a compile in slices pumps the rest of the machine, a
synchronous getter polls the owner), so `kid[k]` tells `alive` (checked in) from `out`
(checked out, `CheckedOut`). A kill of a child that is out only marks it, `ending`
(`KilledMidPoll`, and the cascade in `KillGated`): it goes on with its poll, may submit,
take answers and drop handles, and only when the poll returns are its store and its
grant dropped (`KidEnds`), the grant by its index, whoever has that index by then.
`outlived` and `disturbed` are history: the children that ran on when a run of their owner
had ended, and those whose table or grant another child of the same index took from.
`GrantsAreTheirOwn` is about the children that are not in `disturbed`, and says that
there are none until a child has outlived a run; what the others meet is in the
observations below. Polls nest in the code; which of two children that are out goes on
first is left open here.

### KDisk

`work` is what the mounted engine sees, `disk` what is committed. A store is
several engine operations and a commit; a failing one leaves what it did in
`work`, without a rollback, for the next commit to publish. An entry is the path
its tag was computed for and a payload: a lookup decodes only if the tag matches
the path it looks up. Between boots the disk may be changed by something else and
the kernel may be another build, whose fingerprint is part of a cache key.

`StoreDevice::flush` does nothing (`diskcache.rs:176-180`), so a commit that returns has
reached the host and no further. `stable` is what the host has written back;
`HostWritesBack` brings it up to date at a time the host chooses. `PowerGoes` stops the
machine (a reset, a crash) and its host goes on: `disk` stays. `HostLosesPower` takes the
host too: it finds `stable`, or the last commits with the blocks of some entries missing,
which then fail their tags (`Hollow`). The module documentation allows for that ("a host
power cut may lose the most recent ones", `diskcache.rs:30-32`), and `AckedSurvivesReset` promises
no more: what is lost so is no longer in `acked`. `ServesWhatWasStored` holds
through host power cuts as well.

`MaxHandles` bounds the handles a session has open at a time, which the code does not.

### Buffers and KBuffers

A buffer is known by the allocation that made it, so "its own bytes" can be said.
The hosted table marks the slot of a buffer that a provider has as in flight; the
kernel's empties it. `Overlaps` says whether a child makes other calls while a
gate call is pending.

### Msd

`mslot` is the provider's slot, `mop` the disk call in flight with the engine's
place inside `execute`, `mid` and `tag` the engine's fields, `ed[d]` the resident
endpoint descriptor of a direction: its toggle carry, halt and skip bits, and the
transfer descriptor a cancelled call left on its queue. `stick` is the device,
external: it accepts, refuses, fails, shortens or loses phase on any command and
stalls either endpoint. A cell is one packet of data and a transfer moves one
packet, so chunking by the arena's window is the loop over cells.

`RunBulkTd` is one whole `run_bulk_td`, with what a left-over descriptor, a
halted or a skipped endpoint make of it; `Disturbed` adds a timeout or an error,
the packet having reached the stick or not, and `CancelledTd` the future dropped
at any of its awaits. `Control` walks the clear-halt and reset requests in the
engine's order. A read-modify-write is two commands of one call. `usbFaults`
counts what goes wrong, up to `MaxUsbFaults`.

What is written to a cell is the cell's own name, so that a cell arriving elsewhere
shows. A command wrapper that a cancelled call left queued is served by the
controller within a frame unless the stick refuses it for the moment, perhaps until
it has been reset. `LateWrites` says whether the wrapper of a write may be accepted
then, with reset recovery half done; the runs take it as FALSE (see the first
observation below finding 8 for what happens otherwise), and so does the theorem
about the data; the one about commands does not need it.

### Sessions

`stage[p]` is where process `p` stands between the file operations of
`materialize_session` and `sweep_dead_sessions`; a lock belongs to a file and not to
its path, so lock files are named by the process that made them (`inode`,
`lockedBy`), and `tmpLock`, `sesLock`, `sesDir` say which one a pid's path names.
`sharing` and `sweeping` are the holders of `.sessions.lock`. `Die` may come between
any two steps: the operating system drops the locks, the files stay. A pid is given
out again once its owner is dead.

A sweep decides by `File::open(..).is_ok_and(..)`, and an open may fail (no descriptors
left, no permission). `Held` has both outcomes: a lock file that does not open counts as not
held, and the session as dead, whoever holds it (`SweepDead`); a lock file that cannot be
looked up counts as absent (`SweepDir`); a temporary one that does not open stays
(`SweepTmp`); a guard that does not open skips the sweep. `LiveSessionsStay` therefore has an
exception, `misread`: the processes that held a lock which a sweep took for unheld. It
says that this is the only way for a session to lose its lock or directory.
`SweepsAreThorough` excepts the temporary lock files in `unopened`. `misread`, `unopened`
and `doomed` are history variables.

### ModuleStore

`cmd[p]` is a command of the binary: the user's `store add`, or a start of a release
with its `look` at the manifest, its pass over the programs it carries, and the
record it writes at the end. Objects and manifest are written by rename, so each is
one step; read-change-write of the manifest is two, and there is no lock, so two
commands interleave. `Stop` ends a command at any step. `pinned`, `handmade` and
`seeded` are history: what the user bound, and when the record could tell it from
the seeder's own bindings. Every command is a record of the same fields, with those
its stage does not use at rest.

### ImageCache

`entry[k]` is the directory of a key: image, meta (its use count) and the temporary
metas in it. A load reads meta, then the image, then bumps meta through a temporary
file, then checks the seal, and falls back to compiling wherever one of them is
missing; an insert builds a directory aside and renames it into place. `gc` plans
once and removes entries file by file. Any of them may be killed at any step.

### Algebra

A component is the record of what its wiring decides: the program instances in it,
their imports that are `open` and under which name, its `exports`, the `wires` (who
serves which import of whom), and `binds`, whose configuration its entrypoint
(`eo9:rt/configured`) applies in which order. A name is the extern name in the
binary, a slot name and a version; `notes` are the `implements` annotations by which
a plain-named slot keeps its interface, restored after every composition from what
all operands agree on. `gates` and `meant` are history: which instances an `only`
was put around, and which interfaces a plain name has stood for.

`terms` is the evaluator's stack of operands in the order it evaluates them (the
body of a `with` before its provider). An operation that is refused ends the
evaluation. wac-graph, external, wires by name and checks types: a mismatch refuses
the composition. A program exports each slot once and an interface is imported at
one version (`LibraryAssumption`), because wiring and rename take the first of
several. A default slot is named after its interface (`NamesAssumption`).

## Runs

| Run | Instance | Shows |
|---|---|---|
| `sched` | 3 tasks; fuel up to 2, 3 imported, `DeterministicPolicy`; or fuel 1, 2 imported, `FairPolicy`; or the runtime driving a chain root - middle - leaf on one quantum; or a flat tree, a computing child beside one doing i/o, on three | types, the queue, safe reaping, conservation, no resurrection, safe running fuel, refinement of `FuelNode`, no starvation under the fair policy; no lost wakeup in either tree; in the flat one completions are seen and waits return |
| `eofs` | 4 blocks, one name, gc; or 3 blocks, a snapshot, gc; or late commit faults without gc | retained trees are intact and never handed out, what mounts is intact, acknowledged commits survive, refinement of `TxnFs`, a late failure being a commit in doubt |
| `eofs_reuse_after_fault` | 4 blocks, late commit faults, gc | **violation**, see [Findings](#findings) |
| `hosted` | fs.eofs: 2 clients, 1 path, 1 cell value, offsets 0 and 1; or services: one `always`, one `backoff`, 2 restarts, delays 1 and 2, 2 detaches, clock to 2; or sessions: 3 processes on 2 pids; or names: 2 releases, 2 commands, 5 one after the other or 2 together, 1 stop; or images: 2 loaders, 2 keys, 3 loads, 1 gc, 1 kill | one owner and a clean rest, whole operations, never wedged; restarts are allowed ones (a stop is final, back-off is kept) and happen when due, the foreground is served; live sessions stay unless their lock could not be opened, sweeps are thorough, starts finish; names keep their owner; lookups are whole |
| `store_names` | names as above | **violation** |
| `fs_eofs_removed` | fs.eofs as above | **violation** |
| `task_nested` | a middle task waiting for i/o beside a computing child, donation 3 | **violation** |
| `kernel` | each kernel component: the root and 2 programs, 2 slots, 1 key; 2 gated children, 2 calls, 2 runs of the owner; 2 boots, 2 builds, 1 fault, 1 open handle; 4 allocations of up to 2 bytes; a stick of 2 blocks of 2 cells, 2 faults; expressions of up to 4 programs and prefix forms over a library of 5 | single entry and killed stays dead (`OneEntry`), nothing stranded; no call left behind, gated children end with their owner, or with the poll under way, and use their own handles only (`GrantsAreTheirOwn`); served as stored, acknowledged outlives the machine (`AckedSurvivesReset`); own bytes and exact budgets; commands stand alone (known state, own answers), only its own bytes; the laws of layers, configurations in order, gates hold |
| `kernel_sleepers`, `kernel_grants`, `kernel_buffers`, `usb_toggles` | one component of `kernel` each | **violations** |

Why these bounds are enough for the cases they are for:

- *Scheduler.* Three tasks give a parent with two children and a grandparent
  chain; two queued tasks besides the running one let order matter; a fuel limit
  of two lets balances be split, exhausted and full at once. Imports beyond the
  limit make refuel after burn happen.
- *eofs.* A file and its replacement need four blocks, so on four blocks the
  second transaction only fits if gc hands out freed ones. On three blocks a
  snapshot table and two directories fill the device. Three transactions are one
  full turn of the two slots after format, so every slot is overwritten by a later
  transaction. Five blocks without gc leave room for a failed commit, its rollback
  and another commit. One format is enough for the stale-image case because the
  device may start with an older image of a higher number. `VIEW EofsView` merges
  states that differ only in bytes that no root in memory and no uberblock on the
  device refers to: nothing reads those bytes.
- *fs.eofs.* One path is where the conflicts are: two clients hold handles on the
  same file, remove it and rewrite it. Two offsets distinguish append, overwrite
  and a gap.
- *Task driving.* A chain of three is the shortest with a bell between two
  others; two children of one parent is the shortest with a sibling. Donations of
  three quanta let a task run in the same resume as its child and again after it;
  the chain runs on one, where every resume is cut short. A child is spawned at
  most once and a task has at most one i/o operation in flight.
- *Services.* Two services give a pump an order and a neighbour; two restarts
  reach both the doubled and the capped delay and the end of the budget; two
  detaches let a name be reused after a stop. The clock stops at 2: the
  first delay passes, the doubled one is set and waited for; that a longer run keeps to the back-off and to the
  budget is proved for every clock (`RestartsStayAllowed`).
- *Kernel tasks.* Root, child and grandchild, or two siblings; two slots, so that a
  slot is reused while its former program is still on the stack.
- *Call gate.* Two children contend for one share and for grant indices; two
  calls are the one that makes a handle and the one that uses it, or one in flight
  when the other is queued; two runs of the owner are one restart. One child that outlives
  the first run and one of the second that takes its index are the late drop of a grant.
  Both properties are proved for any number of each; with three children they were
  checked once too (7.6 million states).
- *Store disk.* Two compositions and one cache entry force an eviction; a fault
  stops a store at any of its steps, or is the host's power cut; two boots with two
  builds let one kernel meet the other's artifacts. No two handles share state but for the
  entry they store, and stores are whole and in any order, so one handle at a time is
  enough; two at a time were checked once (2.3 million states). Both properties
  are proved for any number of each, handles included.
- *Buffers.* Four allocations over a budget of four bytes: a slot is freed, taken
  over and asked for again while one buffer is away.
- *Stick.* Two blocks of two cells: the requests cross the block boundary, write
  part of a block and run past the end; a transfer cap of one block makes every
  call loop. Two faults are an abandoned exchange and trouble in the recovery from
  it. Four tags wrap within a behaviour, so an old status may carry a live tag
  only after three more commands, as 2^32 of them would allow in the code.
- *Algebra.* Four parts are two layers under a program, one of them configured,
  renamed or gated, or three of them plain. The library has a program with a
  default and a plain slot of one interface, a file system, a layer over one, one of
  a version the others do not accept, and a network with an optional flavor; the
  labels let one plain name stand for two interfaces.
- *The run `kernel` as a whole.* `VIEW KernelView` merges states that no step and no
  property tells apart:
  by the numbers of the tags still about (only how many commands old they are matters;
  bring-up, which starts them over, finds none), by what a child held that has stopped
  running, and by what the host has written back once no fault is left for a power cut.
  Without it the run passes too, on 3.2 million states instead of 1.8.
- *Sessions.* Two processes share a pid, one after the other, and a third sweeps
  beside them: the sweep has found the first one dead when the second comes. Any lock
  file may fail to open. A
  directory without a lock and the old shared layout may be there from the start.
- *Names.* One release changes a program, one adds a name the user may have bound
  already, `eosh` stays; the user's objects include a copy of a program the release
  carries. Five commands in a row are seed, bind, upgrade, bind, upgrade; two
  overlapping ones are every race of a bind and a refresh.
- *Images.* Two keys on a budget of one force an eviction; three loads let the key
  be looked up, removed and built again around one removal.

Deadlock checking is off where stopping is legal: bounds on ids, transaction
numbers and formats are reached, the root task has ended, or the embedder thread is
parked because i/o never completes. `fs_eofs_removed` checks it.

## Fairness

- `sched`, with the fair policy: weak fairness of `Pick` and of `Report`. The crate's "The resume
  cycle" describes an embedder that keeps picking and reports each resume; nothing
  is assumed of spawns, kills or fuel.
- `hosted`, fs.eofs: weak fairness of each client's `Step`. A call in flight is
  suspended in a disk operation, and every disk bounds its waits, so each await
  ends in success or an error. No call need be made.
- `hosted`, services: weak fairness of `DriveLoop`, the embedder thread's own steps
  (an ordinary thread; its parks have a timeout). Nothing is assumed of guests,
  provider threads or the clock.
- `hosted`, sessions: weak fairness of each process's `Proceed`, an ordinary process
  that runs until it is killed. A wait for `.sessions.lock` ends because its holder
  goes on, or dies and loses it. No process need start, none need die.
- `sched` (flat tree), `task_nested`: weak fairness of the embedder thread (an ordinary
  thread that runs when it can), and of a provider thread that has begun to ring.
  I/o itself may take forever, and guests choose freely: a guest may compute for
  ever.

## Proofs

`Sched_proofs` proves, for every number of tasks, every fuel limit and both
policies:

| Theorem | States |
|---|---|
| `SchedInvariant` | `Spec => []SchedInv` |
| `TypeCorrect` | `Spec => []TypeOK`; an account is open exactly for the pool and the tracked tasks |
| `QueueCorrect` | the queue holds exactly the runnable tasks, each once |
| `ReapSafe` | parent and child links agree and never dangle, and a finished task's account is empty: `reap` meets none of its `expect`s and destroys no fuel |
| `StaleIdsStayDead` | no step revives a finished task or reuses an id |
| `ResumeKeepsItsFuel` | while a task is resumed its balance never falls until its own report |

The assumptions are `BoundsAssumption` (the bounds are naturals, the policy switch
a Boolean) and `NamesAssumption` (`NoTask` and `Pool` are not task ids), which TLC
evaluates in every run of `Sched`.

The argument. The interesting invariants are not inductive one by one:
`QueueIsRunnable` needs `SingleResumer` (a report requeues the running task, which
must not be queued already); `TreeSound` and `QueueIsRunnable` need `FreshIds` (the
id a spawn hands out is not in any queue or child set); `DoneHoldsNoFuel` needs the
part of `TypeOK` that says whose accounts are open. `SchedInv` is their
conjunction with `FreshIds`. `InitInv` establishes it, one lemma per action
preserves it (`SpawnInv`, `KillInv`, `ReapInv`, `ReadyInv`, `PickInv`, `ReportInv`,
`FuelOpsInv`), and `NextInv` collects them. The queue facts they cite are lemmas
about sequences (`RemoveAtFacts`, `RemoveAtUnique`, `EnqueueUnique`) and about the
policy (`LeastId`, `NextIndexInDomain`: whichever policy is used, dequeue takes an
element of the queue). `StaleIdsStayDead` and `ResumeKeepsItsFuel` are action
properties proved from `SchedInv` step by step.

`FuelIsConserved` (`Spec => []Conserved`) adds up accounts. Induction over a set is
out of reach, but counting is not: `LedgerInv` adds to `SchedInv` that the set of units
is finite (`Countable`). A credit adds a disjoint set of as many units as it says
(`CreditUnits`), a debit removes one (`DebitUnits`), a transfer is a debit and a
credit (`TransferUnits`), opening or closing an empty account changes nothing
(`EmptyAccount`), and the cardinalities follow from `FiniteSetTheorems`.
`FuelNodeImplemented` (`Spec => ImplementsFuelNode`) then maps every call to a step of
`FuelNode` or to a stutter.

`Runtime_proofs` proves of `TaskDrive`, for any set of tasks in any
tree, whatever the guests wait for and however much fuel a resume gets, and of
`Buffers`, for any number of allocations and any limits (`BuffersAssumption`: they are
naturals):

| Theorem | States |
|---|---|
| `NoWakeupIsLost` | `WellFormed /\ DriveSpec => []NoLostWakeup` |
| `DriveTypeCorrect` | `WellFormed /\ DriveSpec => []DriveTypeOK`; no budget exceeds a u64 |
| `HandlesOwnBytesHolds` | `BuffersSpec => []HandlesOwnBytes` |

`WellFormed` says what the constants stand for (`Parent` and `Kids` are one tree's
tables, there is fuel to give, `Io` and `Quiet` name no task); TLC evaluates it for the
two trees it runs.

`NoLostWakeup` speaks of the parked thread only; `DriveInv` says what every step before
the park owes it. The nested resumes are a path of the tree (`StackIsPath`). Each child
that a task waits for is one of three things (`WaitsAreKept`): its future is woken and
will be polled, or it is being polled now, or the parent is registered on the child's
bell and the child cannot run, or it can and a provider thread is about to drain that
bell. A task with a woken future or with code to run cannot be taken for blocked: it is
unparked, or its bell has rung, or a ring is about to, or it is past the take and
still in its resume (`WakesAreKept`, `MidPoll`). The drive loop's second observation
leaves the thread registered on the root's bell or with its token (`ParkIsKept`). When
the thread parks, nothing rings and nothing is on the stack: then the tasks that
cannot run are closed under attending, the root is one of them, and the least closed set is
within them. `FramePushed`, `RingKeeps` and their like are lemmas about the stack and
the rings, used by several actions.

`HandlesOwnBytes` says where the bytes of a handle or of an operation in flight are, and
that no two live identities share a slot. Alone it is not inductive: an allocation takes
a fresh identity, which must have neither a handle nor an operation (`FreshAreUnused`),
and a slot read through a handle must be one of the three kinds (`TablesTyped`).
`BuffersInv` is their conjunction, with one lemma per action.

`BudgetsStayExact` (`BuffersSpec /\ KBuffersSpec => []BudgetsAreExact`, for `~Overlaps`)
needs no recursive sum: a total is the number of its units (`Units`), and writing one
account moves it by the difference (`WriteUnits`). In the hosted table every step writes
one slot and counts what it wrote (`WritesAreCounted`). The kernel's table counts only
what is added or taken, so it is exact because what a call writes over is empty: that is
`KBudgetInv`, by which the slots of the child are filled by the buffers it holds
(`ChildFits`) and at most one buffer crosses, with its slot left empty (`OneCrosses`).
With overlapping calls that fails (finding 6), and the budget with it.

About `Sessions`, `Hosted_proofs` has two theorems for any number of processes and pids, with any
assignment of pids (`SessionsAssumption`: `PidOf` gives every process a pid, and the
two marks are not processes).

- `LiveSessionsStayAlive`: `SessionsSpec => []LiveSessionsStay`. What a sweep removes
  was judged some steps earlier, so the invariant needs that nobody establishes a
  session meanwhile (`GuardHeld`: the sweeper holds the guard alone, whoever
  establishes shares it), that a pid has one live owner (`PidsDiffer`), that the
  lock file a process has open is on its way to the session's path and is its own
  (`LockOnItsWay`), and that the victim's owner is still dead or had its lock misread
  (`VictimIsDead`).
- `SweepsFindEverything`: `SessionsSpec => SweepsAreThorough`. On top of the former: a
  lock file stays with the pid it was made for (`FilesKeepTheirPid`), a lock is held
  by a live process only (`HoldersLive`), and what is left of a pid in `doomed` is
  still on the sweep's list at each of its stages (`SweepFinds`).

`Algebra_proofs` proves `LayersLawHolds`, `AlgSpec => []LayersLaw`, for every library,
all allow-lists and names, and expressions of any length. Its core are two theorems
about any three components, reachable or not, whose configurations are sequences:
`ActionLawHolds`, that `(x & y) $ c` and `x $ y $ c`, where both are accepted, have the
same wires, open imports, exports and configurations, and `ExtendAssociates` for
`&`. Both rest on `Overrides`: where `y` hides an export of `x`, it serves what `x`
serves of `c`. Then what `x` shows past `y` is what serves the imports `y` does not
(`ShownIffUnserved`), the layers serve what one of them serves (`LayersServe`), and the
wires made on either side are the same (`ChainsAgree`). The invariant `OperandsOK`
says that the operands stay components through every operation; `LibraryAssumption`
is not needed. "Where both are accepted" is part of the statement: types may be
refused on one side and not on the other, as the unused service of a hidden export
is never checked.

`ConfiguredInOrderHolds`, `AlgSpec => []ConfiguredInOrder`, of the same generality, needs
to know where instances are: a component names no instance but its own (`Grounded`), no
two operands on the stack share one, and the next to be loaded is new
(`OperandsGrounded`). Then what a provider reaches never contains an instance of its
consumer, and appending the consumer's configurations to the provider's keeps the order
(`WiredGrounded`).

`GatesHoldAlways`, `AlgSpec => []GatesHold`, has one condition, `JudgedByInterface`: no
allow-list admits one version of an interface in the library and refuses an import of
another. Lists without versions satisfy it, and any list does where the interfaces it
gives versions for are at one version in the library, as in the run. It is necessary, see the observation on annotations below. The invariant adds to
`OperandsGrounded` what each name stands for (`Gated`): a default slot for its own
interface, a plain name and every annotation of it for the interface it was meant for, at a
version that some program declares (`Named`). So an id is either missing, and then no
list admits it (`UnnamedRefused`), or of the import's own interface (`IdMeans`), and what
`only` leaves open it really admits (`OnlyGated`). A rename carries the id along
(`RenameGated`), and since operands share no instance, what is wired to a gated import
later is wired to one that was open, hence admitted (`WiredGated`).

`Eofs_proofs` proves, for a device of any size, any names, values and snapshots, and any
number of transactions, operations, failures, crashes and formats, under two conditions:

| Theorem | States |
|---|---|
| `EofsTypeCorrect` | `[]TypeOK` |
| `TreesStayIntact` | `[]TreesIntact`: no reachable block is overwritten or handed out, what a mount elects is whole |
| `AcknowledgedStays` | `AcknowledgedSurvives`: a crash loses no commit that returned |
| `EofsImplementsTxnFs` | `ImplementsTxnFs`: commits are atomic and durable |

The conditions are `Careful`, that an embedder that collects garbage does not go on after
a commit that failed late, and one on formats after the first. For the invariants it is
`FormatsNoneDamaged`: no uberblock on the device is over a damaged tree. For the refinement
it is `FormatsUnmountable`: nothing on the device mounts, since otherwise an interrupted
format may bring back an older transaction. Both are necessary: finding 1, and the
interrupted format of the observations below, are what happens without them. The `fs.eofs`
provider formats a blank device only. The kernel formats one whose first slot is zero: if
only kernels formatted it, the other slot holds at most the empty first transaction.
`mkfs --force` formats anything. The kernel never collects garbage.

`EofsInv` says by phase what the device may hold. `Shaped`: a slot holds an
uberblock of its own parity, written with a frontier above its tree. `DownInv`: before a
mount nothing is unflushed and what would be elected is whole. `FormattingInv`: a format
writes slots only, so an older image is whole until its uberblocks are durably gone.
`UpInv` carries the argument: the committed root is durable in its slot with its tree
settled (`ThisSlot`), and whatever a crash may find in the other slot is older, or the
commit in progress or one that failed late, with a tree that is settled and not free
either (`OtherSlot`). `TreesIntact` alone says nothing of what a crash may find, and
`AcknowledgedSurvives` nothing of why the elected uberblock is the newer one. Each action
has a lemma over pure operators of disk and allocator (`Whole`, `Kept`, `Settled`), so
that a step is judged by the pointers it keeps and the blocks it takes. The refinement
adds `OldInv` (until a format has completed, the slots hold nothing but the older image
and the format's own first root) and maps each step to one of `TxnFs`: the slot write is
`Publish`, the last flush `Commit`, a late failure `Fail`, an earlier flush `Settle`.

About `FsEofs`, `Hosted_proofs` has, for any number of clients, paths and cells, `FsTypeCorrect`,
`OneOwnerHolds` (`Spec => []OneOwner`) and `WholeOperationsHold` (`Spec => WholeOperations`).
`FsInv` adds to one owner what is pending at each await of the owner's call
(`HasPending`: nothing before the body, the file absent or empty half way through a
rewrite, the whole effect before the commit), and that only a rewrite has more than one
engine call and may start over after a full disk (`Sound`). `IdleIsNoCall` says that the
mark of no call is not a call.

`Kernel_proofs` proves, for any number of programs, slots, children, calls, runs, boots
and builds:

- `ServedAsStored` and `AckedOutlivesTheMachine` (`DiskSpec => []ServesWhatWasStored`,
  `[]AckedSurvivesReset`). What is served rests on tags: an entry, wherever it was copied to,
  and whatever the host gives back after a power cut, was stored under the path in its tag
  (`TagsTell`), and a cache path is stored only with the artifact of its build and
  composition (`TriedIsOwn`). What is acknowledged must be in the working state as well,
  which a later commit publishes (`AckedEverywhere`).
- `NothingLeftBehind` and `GrantsStayTheirOwn` (`GateSpec => []NoCallLeftBehind`,
  `[]GrantsAreTheirOwn`). Grant indices are reused, late answers enter by index
  (finding 5), and a child that outlives its owner's run drops its grant by index. So
  `GateInv` speaks of the children that are their own (`Own`: alive and never taken from,
  or running while no child has outlived a run): their grant names them
  (`KidsAreGranted`), an answer on its way has a rep that nobody holds and no other answer
  carries (`AnswersDiffer`), and entry 0 holds the handler that the owner put there, so
  that a stray answer never takes its place (`HasHandler`). Two such children differ in
  their index (`GrantsDiffer`), so what one gives up is never the other's, and until a
  child has outlived a run that is every child: nobody is disturbed before
  (`TakenFrom`). The calls of every child that runs are where something will answer them
  (`CallsAreSound`); the end of a run takes care of all of them at once, so those of a
  child that goes on are severed, not lost (`EndShareKills`, `Deserted`).
- `StoresAreEnteredOnce` (`TasksSpec => []OneEntry`). `TasksInv` describes the stack
  (`StackFits`: a child's poll is in a pass, a pass is the session's or a compile's) and
  ties it to the registry from both sides: what is polled is not also waiting in a slot
  (`PolledOnce`), a slot marked Polling is lent to its program's poll, and a poll whose
  slot is marked so is the one it is lent to or below it (`LentOnce`).
- `NothingIsStranded` (`TasksSpec => []NothingStranded`, where the root reads no
  input). `HaltInv` follows a wake-up from the event to the gate. A program that
  could go on is announced by one of four things: its waker has rung, its poll is under
  way, the input edge is set, or what it waits for has yet to happen (`Heard`,
  `AllAreHeard`). The root's waker is on no pass's list, so a completion that rings it
  keeps the loop hot by itself (`RootIsHeard`). Of the programs on the stack only the
  innermost is not computing (`ExecutorFits`). A pass has taken the waker of every
  program it has gone by (`PassVisits`), and the gate halts only past all of them, with
  none rung (`InRegistry`, `HaltIsGated`).

`Msd_proofs` proves `CommandsAlwaysStandAlone` (`MsdSpec => []CommandsStandAlone`) for a
stick of any size, any disk calls, any cancellations and any faults, whether or not the
stick puts off a queued write (`LateWrites`). `MsdInv` says for each place of the engine
what the stick may be doing there (`Placed`): with `mid_command` clear, a command begins
at a stick that expects one or that is still at an older one; during an exchange a
stick that carries the last tag has begun that very command, and everything taken
for it so far was its own; a recovery leaves the stick idle with no endpoint halted, once
its three requests have succeeded. What is older is told by its tag. A cancelled call
may leave its wrapper on the queue, to be served commands later, so the stick may hold
the tag of any command since then; `Behind` bounds how many those are, because each
that went by without clearing the queue cost a fault. That is where the theorem's one
condition comes from, `MaxUsbFaults + 1 < TagSpace`: fewer things go wrong than there are
tags (2^32 in the code). With as many, a wrapper could wait until its tag is used again.
The lemmas follow the model's layers: a packet (`OutIs`, `InIs`), a transfer
(`RunLeaves`, `CancelLeaves`), the way on from a command (`CommandGoesOn`), the actions.

On top of that it proves `BytesStayTheirOwn` (`MsdSpec => []OnlyItsOwnBytes`), under the
same condition and `~LateWrites`, without which the property is false. `DataInv` has two
parts. `DiskOK` is about the stick whoever uses it: what it has collected of a write, and
the cell a descriptor left behind may still add, would bring to each cell of the medium
what is there already or what was asked for it (`Right`). `Carries` is about the call in
flight: what it has returned is on the medium and what it has written is there (`Asks`);
its command is the one for its chunk, and a write's payload is right for every cell it
covers (`Writes`), the old bytes of a read-modify-write included. While the stick carries
the last tag, `Answers` relates its buffer to the engine's: the cells collected are the
payload's, what the engine has got is a copy of the medium if none was lost on the way,
and a status that says passed means stored. Two things keep an old write from the medium
while a payload waits. No command begins while the stick still collects one, and that is
where `~LateWrites` is used. A call that finds an abandoned exchange has done nothing yet,
so what it is about to write holds new bytes only, and the medium may still change under
it before the reset (`EarlyAsks`, `EarlyCommand`). The lemmas follow the same layers
(`OutData`, `InData`; `RunData`, `CancelData`; `OutKeeps`, `InKeeps`; `CommandCarries`;
the exchange step by step: `StartsExchange`, `OutTakes`, `InTakes`; the actions), with a
few on chunks, rounding to blocks and sequences first.

`Hosted_proofs` also proves, for any number of keys, loaders, services, names and releases:

- `LookupsAlwaysWhole` (`CacheSpec => []LookupsAreWhole`), because no entry ever holds a
  partial image (`EntriesAreWhole`): the rename is the only writer
  (`CacheAssumption`: the use count may reach 1).
- `RestartsStayAllowed` (`ServicesSpec => RestartsAreAllowed`). The record of a service is
  tied to the history of its detach: how often it was started, and the deadline it waits
  for (`Paced`); a detach has one record (`OneRecordEach`); a stopped one is finished.
- `NamesStayWithTheirOwner` (`StoreSpec => []NamesKeepTheirOwner`). Between commands the
  record says whose a binding is (`Rested`); a refresh in progress is described name by
  name against the bindings and the record it began with (`NameKnown`, `NameDone`).
  `StoreAssumption`: a release carries a name once, and the marks are neither objects
  nor releases.

TLC evaluates every one of these assumptions in the run of its component.

What is only model-checked, and why:

- `FairPolicyServesAll`, `NeverWedged`, `SiblingIsSeen`, `WaitReturns`,
  `ServedInTime` and `StartsFinish` are liveness under fairness, outside this prover.
- `NothingStranded` with the shell as root, where it does not hold (see KTasks); the
  theorem is for the supervised boot.
- `HostedTypeOK`, `KernelTypeOK` and `EitherTypeOK`, the type invariants of the MC
  modules, only join those of their components.
- What recursive functions compute (`Delay` of the back-off, the folds) for every input
  needs induction with an operator parameter, which the installed provers cannot
  instantiate; the theorems use only what they need of them. No module with a theorem
  reaches a RECURSIVE operator.

## Findings

1. **A failed commit's blocks are reused** (`crates/eo9-eofs/src/fs.rs:748`, run
   `eofs_reuse_after_fault`). If the slot write or the last flush of `commit`
   returns an error, the new uberblock may be on the device while memory rolls back
   to the previous root. `gc` then marks only the roots in memory, so the blocks of
   the failed transaction are handed out again. A crash after one is rewritten, and
   before the next commit, leaves an uberblock with the highest transaction number
   over a damaged tree, while the acknowledged one sits intact in the other slot.
   `FORMAT.md` promises that committed transactions are always intact. Without gc
   the hazard is harmless (the third instance of `eofs`).
2. **A write can recreate a removed file** (`guest/stubs/fs-eofs/src/lib.rs:686`,
   run `fs_eofs_removed`). The module documentation says that after a removal
   writes through an open handle fail with `not-found`. A handle opened with
   TRUNCATE on a non-empty file tolerates the missing path and creates it anew.
3. **A computing grandchild starves its parent**
   (`crates/eo9-runtime/src/task.rs:749`, run `task_nested`). A child is resumed
   with one quantum, its own children are served from it first, and the budget
   check after them returns before the child is polled. While the grandchild
   computes, the task in the middle never sees its completed i/o. `exec.rs` speaks
   of one slice per runnable child per parent quantum; here the parent has no
   quantum of its own. One level up, where the root has several quanta per
   donation, the promise holds (`sched`, flat tree).
4. **A sleeper loses its timer** (`kernel/eo9-kernel/src/wasm/mod.rs:791`, run
   `kernel_sleepers`). `idle_wait` consumes the requested deadline, and after a
   maintenance wake publishes it again only if it is still ahead. If the core comes
   up past both, nobody is rung and no timer is set for the sleeper.
5. **A late answer enters another child's grant**
   (`kernel/eo9-kernel/src/wasm/gate.rs:945`, run `kernel_grants`). Grant indices
   are reused when a dead child's handle goes, while its call is still in flight;
   the answer is entered by index. What a child can *use* stays its own
   (`GrantsAreTheirOwn` holds): the stray entry has a rep the new child was never given.
   Its index may be used by a dropped grant too; see the observations.
6. **A pending gate call loses a buffer**
   (`kernel/eo9-kernel/src/wasm/shellfs.rs:227`, run `kernel_buffers`). `take` leaves
   the slot empty, `alloc` treats an empty slot as free, and `restore` overwrites
   what was allocated there. The hosted table reserves the slot, and for it the
   property is proved.
7. **Reset recovery leaves the toggles apart**
   (`crates/eo9-msd/src/device.rs:344`, run `usb_toggles`). It clears the halt, and
   so the toggle, of both endpoints at the device; the host's carry is reset only
   for a transfer that stalled. The next packet on the other endpoint is
   acknowledged and thrown away whenever its carry was 1, so the command that meets
   it times out, and its own reset recovery, which no stall precedes, may leave the
   toggles apart again. By itself it mixes no data up: `OwnAnswers` and
   `OnlyItsOwnBytes` hold with it. It takes a late write to make it worse; see below.
8. **Seeding takes a user's name** (`crates/eo9/src/seed.rs:149`, run `store_names`).
   Without a seed record, an `eosh` binding is read as "this store was seeded", and
   every bundled name as the seeder's. A user who binds a shell of their own in a
   fresh store with `eo9 store add`, which does not seed, loses it at the next start,
   with any other bundled name they bound, although "a store the user assembled by
   hand stays exactly as it is". What was bound against a record stays:
   `NamesKeepTheirOwner` holds.

Observations without a run of their own:

- A live session may be swept away. `sweep_dead_sessions` reads a lock file that fails to
  open as one nobody holds (`crates/eo9/src/shell.rs:442`), and removes the session's
  directory and its lock, although the doc says "A session is alive exactly while its
  `session-<pid>.lock` sibling is held" (`shell.rs:386-387`). A sweeper out of file
  descriptors, or one that may not read the lock, does so. Without the exception of
  `misread`, TLC finds `LiveSessionsStay` violated in 21 steps: one process serves, another
  sweeps, fails to open the first one's lock, and removes both. It is stated as the
  exception of the property, so that the run and the theorem still say that nothing
  else takes a live session away.
- A late drop releases another child's grant (`gate.rs:577-589`). A child in the middle of
  its poll when its owner's run ends is only marked killed (`shellexec.rs:499-504`). If the
  owner restarts meanwhile and a second child is spawned, it gets the first one's index;
  when the first poll returns, `GrantHandle::drop` empties that index. The second
  child's calls are refused from then on, its index may go to a third, and, since the cascade
  goes over grants, it is not killed when the owner stops, although
  a gated task is to die with its provider. Without the exception of `disturbed` TLC
  finds `GrantsAreTheirOwn` violated in 8 states.
- A stick that accepts a cancelled write's command wrapper during the next command's
  reset recovery has a block overwritten with another's bytes. `run_bulk_td` does not
  take its descriptor back when its future is dropped (`crates/eo9-ohci/src/driver.rs:1529-1560`
  does so only for a timeout), so the controller may start the old WRITE(10) between
  Mass Storage Reset and CLEAR_FEATURE(OUT). By finding 7 the toggles may then be
  apart, and the new WRITE(10)'s wrapper is acknowledged and thrown away; its data is
  not, and goes where the old command said, to be found out only by the tag of the
  status. With `LateWrites = TRUE` TLC finds `OnlyItsOwnBytes` violated in 28 steps,
  two faults; `CommandsStandAlone` still holds. `DriverGuard` counts on the engine
  here: "the guard's only duty is the slot restore" (`guest/stubs/usb-msd/src/lib.rs:294-297`).

- An interrupted second format may bring back a damaged image. `format` clears both
  slots in one unflushed write so that stale uberblocks "can never win the mount-time
  election" (`crates/eo9-eofs/src/fs.rs:326-329`). A crash may keep the clearing of the newer
  slot and lose that of the older, whose tree `gc` has meanwhile let be overwritten; a
  mount then elects it. With `MaxFormats = 2` TLC finds `TreesIntact` violated in 18
  steps. The device was given up by whoever formats it, and a repeated format
  succeeds; it is why the theorems about `Eofs` have a condition on formats.
- The action law needs its condition. `SPEC.md:286-289` states `(x & y) $ c ≡ x $ y $ c`
  for all providers, and the comment in `extend` (`compose.rs:207-210`) says that it is
  kept true. `extend` shadows by slot name and not by version: with `x` exporting
  `fs@0.1.1`, `y` exporting `fs@0.2.0` and `c` importing `fs@0.1.0`, the chain wires `c`
  to `x`, and the environment, in which `y` hides `x`, leaves the import open. Without
  `Overrides` TLC finds `LayersLaw` violated by such an expression; where the versions
  agree the condition always holds.
- Annotations are restored by plain name. If one operand's slot has lost its
  annotation (two operands disagreed) another's of the same name may give it a
  different interface, and `only` judges by it. `GatesHold` is therefore about
  components in which every plain name has stood for one interface. The version may be
  another's even then: with `a` importing and exporting a plain slot as `fs@0.1.1` and
  `fs@0.1.0`, and `b` exporting it as `fs@0.1.0`, the import of `a` in `(a $ b) $ b` is
  annotated `fs@0.1.0`, and `only` with `fs@0.1.0` leaves it open although it requires
  `fs@0.1.1`. Over that library TLC finds `GatesHold` violated, hence the condition of
  `GatesHoldAlways`.
- `with` counts the configured entrypoint as an export, so a configured provider has
  two and is refused (`eval.rs:463`), although `configured_providers_work_inside_with_bindings`
  (`eval.rs:1403`) shows it accepted, on a mock whose providers have no entrypoint.
- `configure` refuses a provider that carries an entrypoint already: two would be
  exported under one name.
- The comment of `semver::satisfies` says that an unversioned export satisfies any
  requirement; the code, and its test, say that it satisfies no pinned one.
- A transfer descriptor left on a live endpoint may be served during reset recovery
  before the next command, which then reads the old command's data; the tag check
  rejects it. "A torn BOT exchange can never make a later command consume the
  earlier one's data or status" holds of what is accepted, as `OwnAnswers` says.
- `read10` ignores the residue of a passing CSW, although `ShortData` is documented
  as "short data and/or reported residue": a stick that pads a short answer has its
  padding returned as data. The stick modelled does not pad.
- A child spawned into a freed slot may miss its first poll. The doc of
  `drive_children` says "Children spawned *during* this pass land at the end of the
  registry and get their first poll in the same pass" (`shellexec.rs:614-617`), but
  spawn takes the first free slot (`shellexec.rs:1302-1313`), which the pass may have
  gone by. If the spawner then waits, the pass is not hot and has not taken the new
  child's waker, so the core may halt with a task that has never run, until the
  maintenance wake. TLC reaches it with two slots and three programs in 14 steps.
  `NothingStranded` is about waits and input.
- Once `usb.msd` is ready its slot never becomes empty again, so a stick that was
  unplugged and plugged in again is not enumerated anew.
- The park's liveness detector reads the clock twice; a restart falling due in
  between is reported as missed. It is a diagnostic and changes no state.
- An interrupted `gc`, or a lookup that renames its meta into an entry being
  removed, leaves a directory without an image. `insert_image` takes it for present
  and reports the image stored (`compile.rs:92`), so the key is compiled anew on
  every load until a `gc` chooses it.
- `build_entry` does not sync, so a power loss may leave a torn image or meta behind
  the rename. A torn image is refused by its seal; a torn meta makes every later
  `gc` fail. Kills of a process, which are modelled, cannot do either.
- Binding a name reads, changes and writes the manifest without a lock: of two
  overlapping binds of different names one may be lost.
- A first seeding interrupted before `eosh` is bound leaves a store that every later
  start takes for one the user manages.
- The seed record is written in place, truncated first; a kill in between is a
  missing record, as in finding 8.

## Not modelled

- In the algebra: interfaces without functions (types only; `split_identity_skips`
  keeps their nominal identity, which only the Wasm validator can judge), the
  lowering of configure arguments, the descriptive wiring tree, and `main` arguments.
- In the modelled parts: eofs's `verify` and `probe` (read only), nested
  directories, multi-block objects, compression, and the hash function beyond
  equality; path normalisation in fs.eofs; in the runtime the `runnable` host
  function, dropping a task handle and store limits; in the kernel spawn failures
  past the live cap, `task.resume` and `task.runnable`, the typed payloads of gate
  calls, log rings, byte offsets of reads and directory listings; in the USB stack
  control and interrupt schedules, the done queue's credits, hubs, descriptor
  parsing and the search for a port; in the store `store add` without a name,
  removal, profiles and power loss.
- `CompletionQueue`, `Doorbell` and `Platform` of `eo9-sched`: nothing in the
  repository calls them, so there is no protocol around them. (The crate as a whole
  is used by its own tests only; the runtime has its own drive loop, modelled in
  `TaskDrive`.)
- Left out for good: `kernel/vendor` and other third-party code, generated
  embeddings, build tooling, the web server, argument parsing and printing, string
  processing (shell syntax, DNS and HTTP messages), register-level device access.
- The rest of the inventory is in the plan.

## Plan

In order; each step names the modules, what composes what, and what is worth
proving.

1. **Queues and rings**: the kernel receive ring and RTL8125 ownership, the OHCI
   done queue, net-l2-switch and net-l4-loopback limits, flash wire retries,
   fs-overlay copy-up.

Runs stay few: new questions about a modelled component join its existing run, and
components of one side of the system share a run.
