# Verification project for gitz

gitz is a port of go-git to Zig: a library that reads and writes Git repositories,
in memory or on a file system, and speaks the Git protocols as client and server.
Its inventories, fixtures and quality gate are kept by Python programs under `tools/`.
This directory holds TLA+ models of its code, the TLC configurations that check
them on small instances, and TLAPS proofs for instances of any size. Paths below
are relative to `src/` for the library (`storage/...`) and to the repository for the
tools (`tools/...`).

`PROJECT.json` lists, for every definition, the lines of code it stands for; for
every property, the run that checks it and a faulty variant of the code that the
run catches; and the hazards of the code with the properties aimed at them.

## 1. Inventory

| Component | State | Operations | What is hard |
|---|---|---|---|
| Durable reference transaction `storage/filesystem/reference_transaction.zig` | journal, commit marker and lock file under `transactions/`, loose references, packed-refs | `apply`, `recover` (run by every open) | process deaths, failing operations and power failures between any two file operations; order of barriers |
| Reference files `storage/filesystem/dotgit/dotgit.zig`, `reference.zig` | loose reference files, `packed-refs` and its advisory lock | `setRef` (compare and set), `ref`, `refs`, `removeRef`, `packRefs`, `countLooseRefs` | interleavings of processes on files that are truncated, renamed and unlinked under each other |
| Transactional storage `storage/transactional/` | a base store, a temporary store, sets of deleted names | every storage operation on the overlay; `commit` per sub-store | overlay against base, order and partial failure of the commit |
| Memory storage `storage/memory/` | maps of objects, references, index, config | storage operations; `prepareUpdates`/`commitPrepared` | all-or-nothing update sets, iterators over shallow copies, a mutex around lazily decoded objects |
| Object files `storage/filesystem/object.zig` | loose objects, packs with their indexes, object cache | read, write, iterate, pack writer, repack, prune | a reader that finds an object in neither place while it is packed; prune against writers |
| Server `plumbing/transport/server/` | the session (advertised, capabilities), the command statuses | upload-pack, receive-pack with atomic and plain reference updates | partial failure among commands, order of import and updates, the report |
| Remote `remote/` | refspecs, sessions, progress | fetch, push, list, pack import into staging | objects must be there before the references that need them; failures in between |
| Transports `plumbing/transport/` | connections, SSH channels and windows, HTTP round trips | sessions of `file`, `git`, `http`, `ssh` | window accounting, cancellation, process exit against pipes |
| Wire formats `plumbing/protocol/packp/`, `plumbing/format/pktline/` | decoder positions | encode and decode requests, advertisements, side bands | a state machine per message; limits of lengths |
| Pack files `plumbing/format/packfile/`, `idxfile/` | scanner position, delta chains, worker threads | parse, encode, select deltas | delta cycles and depth, threads that share a sliding window |
| Objects and walks `plumbing/object/`, `revlist/`, `storer/` | queues and seen-sets of walkers | commit walkers, merge base, tree diff, rename detection | termination, each commit once, order |
| Caches `plumbing/cache/` | LRU list, map, size | get, put, clear | size accounting at the limit, several threads |
| Index format `plumbing/format/index/`, fixtures `tools/gen_index_fixtures.py` | decoder position, last name, running checksum | encode, decode; build fixture images | a layout written in two languages; padding, name mask and prefix boundaries; a file cut short |
| Working tree, merge `worktree/`, `merge/` | index entries, files, HEAD | add, status, checkout, reset, commit, pull, merge | three states updated one after the other, failures in between |
| Merkle tries, text diff `utils/merkletrie/`, `utils/diff/` | iterators | diff of two tries, of two texts, three-way merge | completeness and order of changes |
| Submodules, clone `submodule/`, `porcelain/` | nested repositories | init, update, clone with cleanup | multi-step operations that fail in the middle |
| Persistence image `persistence/` | a byte image of a memory store | export, restore | a partial restore must not be published |
| YAML loader `tools/inventory/simple_yaml.py` | lines and a position | `load` | where a block ends; comments against quotes |
| Quality gate `tools/inventory/check_*.py`, `tools/golden/run_goldens.py` | inventories, source tree, golden cases (read only) | five checks | five programs that read the same files with rules of their own |
| Config, ignore files, attributes, urls, hashes, pools | values | parse, print | string processing, sequential |

How they interact: a **repository** (`repo/`) owns a **storage** and a worktree. A
storage is a composite of object, reference, index, shallow, config and module
stores; the file-system one is built on `dotgit`, which is built on `fs` (`fs.Os`
or the in-memory `fs.Mem`). Constructing a file-system storage
(`storage.zig:newStorageWithOptionsFor`) runs the recovery of reference transactions
first. **Remotes** and the **server** move objects with packs and then change
references: the server one command at a time with compare-and-set, the file-system
import (`remote/filesystem_pack_import.zig`) with one durable transaction. Several
processes share one `.git` directory with no other coordination than the advisory
lock on `transactions/reference.lock`, taken by transactions only, and the one on
`packed-refs`, taken by writers of packed-refs.

The **quality gate** stands beside the library: each check reads the inventories with
the YAML loader and compares them with the source tree, the golden cases and each
other. A change goes in when all five succeed.

What makes each part correct:

* durable transaction: all of a set or none, across deaths and power failures; an
  acknowledged set stays; recovery can be interrupted and repeated; the lock is
  always released;
* reference files: a compare-and-set is atomic; no update of one process is undone
  by the packing or removal of another; a reader sees some value that was set;
* transactional storage: reads show the overlay; nothing reaches the base before
  the commit; the commit equals the sequence of operations;
* object files: an object once written and referenced is always found;
* index format: what either writer wrote is read back; a torn file is noticed;
* quality gate: a green gate means what the inventories say is so;
* server and remotes: a reference never names an object that is missing; the report
  says what happened; an atomic push changes all references or none;
* walkers, merge bases, merges, tries: agreement with a mathematical definition.

## 2. Plan

1. `ReferenceUpdates`, `AtomicReferences`, `ReferenceTransaction`: the durable
   transaction, the file operations below it, its recovery. **Done**, with proofs.
2. `DotGitRefs`: loose references and packed-refs as files with inodes and locks,
   several processes running `setRef`, `ref`, `removeRef`, `packRefs`
   concurrently, against the abstract references. **Done** for one directory of
   references, with proofs.
3. `TransactionalStorage`: the overlay and its commit. **Done**, with proofs.
4. `ReceivePack`: the server's session with its commands, import and report. `Remote`:
   fetch and push of a clone against it, composed. **Done**, with proofs; left: shallow
   clones, and the pack imports of clones on a file system.
5. `SimpleYaml`, `QualityGate`, `IndexFormat`: the tools and the index format.
   **Done**, with proofs.
6. `ObjectFiles`: writers, readers, repack and prune on loose objects and packs;
   `ObjectCache`: the LRU with its size bound, proved.
7. `Worktree`: commit, checkout, reset and merge as updates of HEAD, index, files.
8. Algorithms as recursive functions against definitions: merge base, commit walks,
   trie difference, diff3, side-band framing, revision lists.

## 3. Durable reference transactions

### Modules

* `ReferenceUpdates` is the shared vocabulary: references, update sets, admissible
  sets (`prepareUpdates`: no name twice, every `expected` or `require_absent` met),
  and what applying a set gives.
* `AtomicReferences` is the promise: references change by whole admissible sets.
* `ReferenceTransaction` is the code: one action per file operation and per barrier
  of `apply`, `recoverLocked`, `cleanup`, `applyReference` (down to the truncate,
  write and sync of `setRefFile` and the unlink and rewrite of `removeRef`) and
  `syncReferenceParent`.
* `ReferenceTransaction_proofs` has the theorems; `MCReferenceTransaction` and its
  configurations the instances for TLC.

### State

`loose`, `packed`, `journal` and `marker` are the files as a running process sees
them. For each there is a variable ending in `P`, the contents a power failure may
leave. A write adds to it, `f.sync()` shrinks it for the file, `syncDir` for the
entries of a directory. `entryP` separates the directory entry of a loose file from
its content: a file re-created after an unlink can come back as the old one until its
directory is synced. `syncDir(transactions)` covers journal and marker at once. A
power failure (`Outage`) picks for each file independently one possible content, so
unsynced writes reach the disk in any order. `dirs` and `dirsP` do the same for the
directories that hold references in `Nested`, which do not exist at first.

`holder` is the owner of `reference.lock`; a process death drops it. Since only the
holder runs the algorithm, the locals of `apply` and `recoverLocked` (`forward`,
`todo`, `at`) are single variables. `stage` tells what the recovery loop runs for: an
open or the first thing in an apply (`recover`), the apply itself (`apply`), or its
error path (`undo`). `phase` is the next file operation. `call` and `answer` are the
call of each process and how the last one ended.

### Abstractions

* The loop visits the names of a set in any order; the code visits them in the order
  of the caller's slice, which the caller is free to choose.
* A journal and a marker appear by rename of a synced temporary file, so their content
  is whole or absent; the encoding of the journal is left out, except that one larger
  than `max_journal_bytes` is refused (`Oversized`).
* `Reject` covers every error of `prepareUpdates`; an empty (torn) reference file
  makes the read fail.
* Temporary files are not modelled. `Os.tempFile` numbers them from 1 in each process
  and opens with `O_EXCL`, so the file a dead process left behind makes the first
  `writeAtomic` of the next one fail: that is one of the failures of `Fail`.
* `Fail` lets any operation fail before its effect. An operation that fails after
  its effect (`rename` done, `syncDir` failed) is the operation followed by `Fail`.
* Readers and plain writers of references are left out here; they are in
  `DotGitRefs`.

### Regimes

`Kills`, `Faults` and `Outages` turn on process deaths, failing operations and power
failures, `Nested` missing directories, and `Gaps` the deaths and failures of the lock
holder between a change of the transactions directory and the `syncDir` that follows it
(`BarrierDue`). The safety properties hold

* with deaths and failures in any combination and anywhere, on a machine that stays up;
* with power failures as well, except for a gap: a process that has renamed or removed
  the journal or the marker reaches its barrier or loses power with everything else.

They do not hold when a gap is followed by a power failure, or when a power failure
meets a reference in a directory that was missing (see findings). The theorems assume
the same.

### Properties

* `AtomicSpec`: the refinement. The committed references are those that recovery
  would produce: from the journal's old values until the marker can no longer be
  lost, from its new values after. They change in one step, although the files
  change one by one.
* `CrashConsistent`: for each combination of journal, marker, loose files and
  packed-refs that a power failure may leave, recovery produces the committed
  references, or those of the set being committed.
* `WriteAhead`: while a reference file is truncated or not pinned on the disk, the
  journal with its old value is.
* `DurableAnswer`: after `apply` returned without an error nothing recovers to
  anything but what it asked for.
* `OpenShowsCommitted`: a storage that opens shows the committed references.
* `LockReleased`: whoever takes the lock lets go of it.
* `TypeOK`: well-formed states; among others, a journal never holds a torn value.

### Runs

All have two processes, two references and two values, which is enough for a set that is
half applied, for a value swapped back, and for a second process that recovers, reads
or waits. The requests change two references with a guard, delete one, create one,
repeat a name (`DuplicateReference`), exceed `MaxUpdates = 2` and exceed the journal
size. Initially any reference is loose, packed, both or absent. No counter needs a bound:
the state space is finite.

| Run | Regime | Checks | Shows |
|---|---|---|---|
| `kill` | kills, faults, gaps; one reference in a missing directory | `TypeOK`, `LockReleased`, `AtomicSpec`, `OpenShowsCommitted` | deaths and errors never split a set; an open never shows half of one; no loop or wait inside the lock is endless |
| `mixed` | kills, faults, power failures; one set that writes and deletes, one that creates | `WriteAhead`, `CrashConsistent`, `AtomicSpec`, `DurableAnswer` | any order of unsynced writes is recovered from, whatever else happens |
| `stuck` | kills, missing directory | `RecoveryResolves` | violated |

Processes are symmetric in `mixed`. Fairness (`kill` only) is weak fairness
of `Step`, the next operation of the holder of the lock: a process that has not died
is scheduled. Nothing is assumed of callers, kills, failures or of who gets the lock.

### Findings

`stuck`: rolling back a created reference whose directory was never created fails in
`syncDir` with `NotExist`, and so does each later open.

Five more that the model shows when a run is changed, most of them listed as hazards:

* `mixed` with `Gaps = TRUE`: recovery uses a journal it can see without a barrier. When
  the process that renamed it died before its `syncDir`, a power failure during the
  recovery can lose the journal and keep the truncation of a reference, although the
  header of `reference_transaction.zig` says both paths survive a crash in recovery.
* `mixed` with `"cleansync"` taken out of `BarrierDue` (a process may die between the
  removal of the journal and its barrier): recovery removes a lone marker without a
  barrier behind the removal of the journal, the order which the comment at
  `reference_transaction.zig:167` warns of; `CrashConsistent` and then, after a power
  failure that brings the journal back, `AtomicSpec` are violated.
* `mixed` with `Nested = {b}`: the directory `setRef` creates for a new reference is not
  synced into its own parent, so an acknowledged update can vanish; `DurableAnswer` is
  violated.
* The rename of the marker may succeed and its `syncDir` fail: recovery rolls forward, and
  `apply` returns the error of a set that is in force. Nothing says that an error means
  an unchanged repository.
* The comment in `storage.zig:542` says no caller can observe a partially applied
  transaction. That is so for callers that open afterwards (`OpenShowsCommitted`); a
  storage that was already open reads references without the lock.

### Proofs

`ReferenceTransaction_proofs` proves, for any sets of names, values, processes and
requests:

* `TypeCorrect`: `Spec => []TypeOK`, with no assumption on the regime;
* under `Regime` (when the power can fail there are no gaps and no missing
  directories; deaths and failures may happen at every other point):
  `WriteAheadHolds`, `CrashConsistentHolds`, `Refinement` (`Spec => AtomicSpec`),
  `AnswersAreDurable` (`Spec => DurableAnswer`) and `OpensShowCommitted`.

The assumptions are those of the modules (sentinels differ from values, requests are
sets of updates) and `Regime`, which the findings show to be necessary.

The argument. `TypeOK` needs `ControlOK`: who holds the lock, for which call, and that
the loop has a journal and stays within it. The safety properties need three more
conjuncts. `DirectoryOK` says that journal and marker are durable except between an
operation on their directory and its barrier, and which of them exist in which
phase. `SettledOK` says that only names still in `todo` are torn or undetermined on
disk, and that the journal naming them is then durable: this is `WriteAhead` made
inductive. `AppliedOK` says that every name already applied shows what the journal
says, also where the journal is no longer seen but could come back. `CachedOK` says
that without power failures disk and view agree. Together (`SafeInv`) they imply
`CrashConsistent`. For the refinement, `JournalOK` adds that each journal that may be
on the disk records a request whose guards held; a step that makes the marker
permanent, or a power failure that keeps it, is then a `Commit`, and every other step
leaves `Committed` alone. `AnswerOK` ties the journal to the running call, for
`AnswersAreDurable`. Each of these was checked with TLC in the regimes of `kill`
and `mixed` before it was proved.

Only model-checked: `LockReleased` (liveness), and the violated statements.

## 4. Reference files under concurrency

`DotGitRefs` models the calls of `dotgit.zig` on references, one action per file
operation, by any number of processes. `MCDotGitRefs` has its instances.

### State

`link` is the directory of loose references, `text` the content of each loose file,
`packed` the file that is `packed-refs` and `table` the content of each file that is or
was. Files are inodes: `proc[p].file` and `proc[p].pack` are what a process has open,
and it keeps them when the name is unlinked or renamed over. That matters, because the
advisory locks are on inodes. A lock is held from `f.lock()` until the file is closed, so
who holds it follows from the program counters (`FileHeld`, `PackHeld`).
The other fields of `proc` are the call and its locals: `todo`, `at` and `found` are
those of the walk over the loose references, which `refs` and `packRefs` share.

Two variables are history. `refs` is the map of references as the completed updates
left it: a set counts when its value is written, a removal when neither file has the
name. `seen` collects the values a reference had since a call that reads or compares it
began.

### Correspondence

| Code | Actions |
|---|---|
| `setRef`, `setRefFile` | `SetOpen` (truncates at once without an old value), `Lock`, `Write` |
| `checkReferenceAndTruncate` | `Check`, `Consult` (packed-refs), `Truncate` |
| `removeRef`, `rewritePackedRefsWithoutRef` | `Stat`, `Unlink`, `StripOpen`, `LockPack`, `Strip` |
| `ref`, `refs` | `Scan`, `Open`, `Read`, `WalkDone`, `Lookup`, `Return` |
| `packRefs` | `PackOpen`, `LockPack`, `Scan`, `Open`, `Read`, `WalkDone`, `Rename`, `Drop`, `DropDone` |
| an error or a process death | `Stop`: none of these calls undoes anything, so both just close the files |

### Abstractions

* The references are in one directory, listed in one step; `HEAD`, which `refs` reads
  first and `packRefs` does not pack, is a reference like the others.
* A content is a value, `Empty` (created or truncated) or `Garbled` (does not parse);
  `Length` says which value's text is longer, for writes at offset 0 that do not follow
  a truncation. A content appears whole: a write of a few dozen bytes is one step.
* A new `packed-refs` appears by rename; its temporary file, and the copying where rename
  is not supported, are left out. Lines of packed-refs have no order: a lookup may or may
  not meet a malformed line before its own.
* `Write` into a file that has been unlinked counts as done before the unlinking.
* Comparison is of hashes, so all symbolic values are equal to it (`SameHash`).

### Properties

* `AtomicSpec`: references change only by the sets and removals the callers ask for,
  each check-and-set applied to the value it expects (or to a missing reference): the
  refinement of `AtomicReferences` with singleton update sets.
* `LookupFinds`: unless a call is changing it, each reference is found as the last
  update left it. Nothing is lost, nothing removed comes back, packing changes nothing.
* `ReadsFresh`: what `ref` and `refs` return was so at some time in the call; `refs`
  misses no reference that existed throughout. Removals are left out of the runs that
  check it.
* `CallsEnd`: every call returns.

### Runs

| Run | Processes and calls | Checks | Shows |
|---|---|---|---|
| `refs_cas` | three: two check-and-sets from one value, removal; one loose reference | `LookupFinds`, `AtomicSpec` | check-and-sets are atomic |
| `refs_torn` | two set (guarded, plain, long and short), two read; calls may stop | `TypeOK`, `ReadsFresh` | a torn file makes a read fail, never err |
| `refs_pack` | two pack, one reads; two references loose, packed or both | `LookupFinds`, `ReadsFresh` | packing alone is safe, also for readers |
| `refs_fair` | one sets and removes, one packs; calls may stop | `CallsEnd` | whoever stops or fails, no call waits for a lock for ever |

The files never run out (`FilesSuffice`, from which the proofs show that a new one is always
found): a name links one, each process has at most one more open, and
a new one is needed only when the name has none; for packed-refs there is one linked,
at most one replaced file open in each process, and the new one. `refs_cas` and `refs_pack` use the symmetry of processes with
the same calls. Three values are two different successors of one, of which one is
symbolic and longer. No counter needs a bound.

Fairness (`refs_fair`): each process keeps taking its next step, and one that waits for
a lock that is released again and again obtains it (strong fairness of `Advance`): a
blocked `flock` is queued by the kernel. Nothing is assumed of when calls are made.

### Findings

Six hazards are what the code does; the runs above leave out the combinations that show
them, and a run that has them violates the property named in brackets:

* a plain `setRef` truncates before it locks; a check-and-set that holds the lock then
  finds nothing to compare with and succeeds (`AtomicSpec`; `storer/root.zig:53` requires
  the current value to match);
* `packRefs` deletes a loose file that was set after it read it (`LookupFinds`);
* the lock on packed-refs is on the file that was opened; after a rename the next owner
  works on a stale copy and brings back what was removed: two removals (`LookupFinds`);
* one process with check-and-sets of a reference that is only packed: a refused one
  leaves an empty loose file that hides the packed value (`LookupFinds`);
* a check-and-set of a reference that does not exist succeeds, which
  `AtomicSpec` has to allow; the
  memory storage does the same, the transactional one returns `ReferenceNotFound`;
* one packer and a symbolic loose reference: its line in packed-refs has three fields,
  which nobody can parse (`LookupFinds`).

### Proofs

`DotGitRefs_proofs` proves the following for any names, values, requests, and numbers of
processes. The assumptions are those of the modules: sentinels differ from values, a
request is one update, and `FilesSuffice`.

* `TypeCorrect`: `Spec => []TypeOK`, in every regime and with `Stop` anywhere. Its invariant
  is `Shape`: what each step finds in the locals of its call (`ControlOf`), that no two
  names link one file and none links a file open for another name (`FilesApart`), and
  that a file has at most one process that holds its lock (`LocksExclude`). Counting the
  files in use against `FilesSuffice` shows that `NewFile` and `NewPack` are new.
* The findings show that no safety property holds for all calls at once. The theorems name
  three regimes, each as wide as the counterexamples allow:

| Regime | Who takes part | Theorems |
|---|---|---|
| `CompareAndSets` | any number of check-and-sets, removals and reads; references loose; no stop half-way | `ComparedLookupFinds`, `ComparedRefinement` (`AtomicSpec`) |
| `Setting` | sets of any kind and reads, stopped anywhere, loose or packed | `SetReadsFresh` |
| `Packing` | any number of `packRefs` and reads, of references that are hashes | `PackLookupFinds`, `PackReadsFresh` |

  `refs_cas` lies in the first, `refs_torn` in the second and `refs_pack` in the third.

The arguments. In the first regime (`CompareInv`) a linked file holds the reference, or is
empty while a process that has it open is about to write it (`LooseHolds`). An empty file hides
nothing: the reference was missing, or is what that process has compared and now
replaces. `CheckedHolds` says what the holder of a lock knows of the file it holds. It
speaks of the linked file only: a file unlinked by a removal may be
written still, and the value is lost as if it had been set before the removal. A
`Write` to the linked file is then a commit of one update, an `Unlink` the commit of a
removal, and every other step leaves `refs` alone.

Reads rest on `ReadsOK`: what a walk has found was so during the call, and so will be
what it takes from packed-refs for a name it has visited and not found. `ReadsOwn` and
`ReadsStep` show once, for both regimes with reads, that steps keep this if an unlinked
reference is in packed-refs (`PackedCurrent`), packed-refs moves only towards the references
(`PackedStays`) and a loose file that is read holds its reference or nothing (`LooseCurrent`).
`SetsHold` gives these three for sets: files are never unlinked, so that a file that is open is
the linked one, torn or current.

For packing (`PackInv`) references never change, and each is in its loose file or in
packed-refs (`PlacesHold`). A walk has seen every name that it has passed and that is still
linked (`WalkOK`). The hard part is a process that waits for the lock of a packed-refs
that another one replaces (`StaleOK`): the lock it is given is on a file nobody can open
any more, and two processes are then inside `packRefs` at once. That is harmless only since the
process that replaced the file unlinks all loose files before it lets go of the old lock
(`Handed`), so that the one that comes late walks over nothing, packs nothing and drops
nothing.

Only model-checked: `CallsEnd` (liveness).

## 5. The transactional overlay

`TransactionalStorage` models `storage/transactional/`: writes go to a temporal memory
store, reads ask both, `commit` copies into the base.

State: `base`, `temporal` and `deleted` are the references of the two stores and the
names removed in the overlay; `baseObjects` and `temporalObjects` their objects, a
reference's value being the hash of one; `baseSettings` and `temporalSettings` the index,
the shallow list and the configuration (`Cells`). `phase` and `left` are how far a commit
has come, `outcome` how the last one ended.

Actions are the calls (`SetEncodedObject`, `SetReference`, `CheckAndSetReference`,
`RemoveReference`, `Set`) and the steps of `commit` in the order of
`storage.zig:222`: `CopyObject`, `RemoveDeleted`, `CopyReference`, `CopySetting`. Every
step with something to copy may fail for lack of memory (`CommitFails`); the commit ends
there and undoes nothing. `SetReferenceFails` is the same in `setReference`, which has
already forgotten that the name was removed. `BaseChanges` is the owner of the base, who
goes on using it.

Abstractions: objects and references are copied in any order, as the iterators of the maps
give them; a setting is a content or absent; a new reference points to an object one of the
stores has, as callers store objects first. Iterators, alternates and the overlays of
submodules are left out.

Properties: `RefsHaveObjects` (no reference of the base or of the overlay lacks its
object, wherever a commit stops), `CommitPublishes` (a commit that returned left the base
as the overlay shows it), `CommitIsInvisible` (no step or failure of a commit changes what
the overlay shows, so that it can be repeated).

Run `overlay`: two references, an object the base may have, a new one and one of an
unsupported type. One object would not tell a missing copy from an existing one; the state
space is finite and complete, symmetric in the references.

What the model shows of the code besides: an object of an unsupported type is refused after
it was put into the map (`storage/memory/object.zig:123`), and from then on every commit
ends before its references; an empty shallow list cannot be set through the overlay; a
check-and-set compares with the base's value of a reference that was removed in the
overlay; nothing is cleared after a commit, so the next one repeats it and overwrites what
the owner of the base did meanwhile.

### Proofs

`TransactionalStorage_proofs` proves all four properties of the run for any sets of names,
objects and settings: `TypeCorrect`, `ReferencesHaveObjects`, `CommitsPublish`,
`CommitsAreInvisible`. The only assumptions are that `Absent` is neither an object nor a
setting and that unsupported objects are objects.

`RefsHaveObjects` and `CommitPublishes` are not inductive: the second speaks of the end of
a commit only. `Inv` adds `Closed`, which says of each store what `RefsHaveObjects` says of
what is shown (a temporal reference has its object in one of the two, a base one in the
base), and `Progress`, which says what is already in the base in each phase: all objects
but those `left` once they are being copied, no deleted name once they are removed,
each temporal reference that is not `left`, and each setting before the current one.
`Answered` says that a running commit has no outcome yet. The step into `done` then gives
`CommitPublishes` from `Progress`. `CommitsAreInvisible` needs besides that no name is
both deleted and written, a conjunct of `TypeOK`: a removal that hid a temporal value
would be undone by the copying that follows it.

## 6. The server and a clone

### The receive-pack server

`ReceivePack` models the sessions of `plumbing/transport/server/server.zig` on one
repository, each as a sequence of storer calls that interleave with those of the others.

State: `refs` and `objects` are the repository, `step` the next thing each session does,
`seen` what it advertised, `commands`, `atomic` and `pack` its request, `status`, `err` its
`cmd_status` and `first_err`. `applied`, `writer` and `disturbed` are history: which
commands took effect, who wrote a reference last, and whether a storer call failed or
another session wrote a reference this one names. `Reach` gives for each object all that its
history needs, and `AtFirst` the repositories to begin with.

Actions: `Advertise`; `Request`, which is `Receive` of what some client (external) sends: it
takes old values from the advertisement (`Asked`) and puts into the pack at least what the
new values need and no advertised reference has (`Lacking`); `Unpack` object by
object; `UnpackFails`; `Validate`, `Validated`; `Check` and `Write`, the two storer calls
of `applyOneCommand`; `StorerFails`; `Report`; `Raise`, an allocation or lookup whose error
leaves the session without a report. Creation, update and removal are one `Write` with the
command's new value. A storer call that fails is taken to change nothing.

Properties:

* `RefsHaveObjects`: no reference whose history the repository does not have in whole, even
  when an import stops half-way.
* `OkMeansInForce`: what the report calls ok is in force unless another session wrote it.
* `CleanAnswer`: a push without an error applied every command.
* `AtomicUnlessDisturbed`: an atomic push is applied in whole or not at all, unless a
  storer call failed, another session wrote one of its references, or it names one twice.

What the code does, and the properties leave room for: the old hash of a command is never
compared, so that concurrent pushes overwrite each other; two commands for one reference
share a status, and an atomic push of two is split; a failed import without the atomic
capability reports no command; a raised error reports nothing at all.

`ReceivePack_proofs` proves all five properties for any sets of sessions, names, objects,
histories, initial repositories and pushes, from `AbsentAssumption`, `ReachAssumption`
(what an object needs are objects), `AtFirstAssumption` (a repository to begin with has the
histories of its references) and `PushesAssumption`. The inductive invariant `Inv`
says of each session what the properties leave out until it is finished: before the
commands are applied nothing is answered and nothing took effect (`Fresh`); the commands
before the current one are answered, and applied if there is no error (`Reached`); what the
commands need is in the repository or in the rest of the pack (`Supplied`); what
is answered ok is in force (`Kept`); and what the validation found legal is legal until its
turn, if nobody interferes (`Whole`, which rests on the lemma `DistinctNames`: a write of one
command cannot make another illegal). `OtherSession` shows once that a session keeps all
of this under the steps of the others, so each action needs an argument only for the session
that takes it.

### A clone and its remote

`Remote` extends `ReceivePack` with a clone: `fetch` and `push` of `remote/`, by a client
whose push is the session `Client` of that server, while other sessions push to the same
repository. Steps of the clone interleave with steps of the server, so that what a call
was told may be stale by the time it acts.

State: `own` (`refs/heads`, `refs/tags`), `tracking` (`refs/remotes/<remote>`) and `have`
(objects) are the storage of the clone; `doing`, `call`, `theirs` (the advertisement of a
fetch), `todo`, `asked` (the commands of a push) the running call, and `calls` how many
there were. `during` is history: the values each of the remote's references had since the
call began.

| Code | Actions |
|---|---|
| `fetch`, `getWants`, `getHaves` | `FetchOpen` |
| `fetchPack`, `objectsToUpload` of the server | `Import` |
| `pruneRemotes` | `Prune` |
| `updateLocalReferenceStorage`, `buildFetchedTags` | `UpdateHead`, `UpdateTag` |
| an error, or the end | `FetchEnds`, `PushEnds` |
| `push`, `addReferencesToUpdate`, the checks of leases and fast-forwards | `PushOpen`, `Collect`, `Send` |
| `receiveAndFinish`, `updateRemoteReferenceStorage` | `Answered` |
| the server and its other users | `Serve`, `Request`, with `Watch` |

Abstractions. The clone is in memory storage, where a pack is parsed into staging and
published as a whole; the imports of clones on a file system are left out. A fetch has
one wildcard refspec from branches to tracking references, a push refspecs of exact names.
Shallow and depth, exact hashes as sources, required references, `follow_tags`, `list` and
`HEAD` are left out. A call may end with an error at any step; `PushEnds` also stands for a
lost answer, with the server still at work on the request.

Properties, besides those of the server, which the same run checks with a real client:

* `CloneComplete`: the clone has the whole history of each of its references, wherever
  a fetch stopped. This is what makes it right not to ask again for the history of a tip
  that is in the storage (`refs.zig:236`).
* `TrackingFollows`: a tracking reference only becomes what the remote's reference was at
  some time during the call.

Run `remote`: one clone and one other session, a branch and a tag, two objects of which one
needs the other. The clone is empty, or ahead of or behind its remote, which is empty, or
has one or two commits. Two calls (`MaxCalls = 2`): a fetch after a failed one, a fetch
and a push that rests on it, or the reverse. The session `Client` advertises once, so a
behaviour has at most one push of the clone; the other session also pushes once, which is
enough for a write between any two steps. Fetches prune, with and without a + in the
refspec, with tags following or all of them; pushes are atomic with prune, plain with a
deletion, or with a lease. Fetching without tags, the option to force and any number of
calls are covered by the proofs only. Deadlock is off: all calls end. No
fairness is assumed.

What the code does, and the properties leave room for:

* a pruning fetch with a + in its refspec drops all tracking references before it sets
  them again: the reverse of the refspec has the + in its destination
  (`config/refspec.zig:133`). When it fails in between they are gone, and a fetch without
  objects to ask for sets them again;
* for the same reason a forced push that prunes deletes what it has just pushed;
* leases and fast-forwards are checked against the advertisement, and the server does not
  compare old values: a push that was not forced may overwrite what came in between;
* the server refuses a fetch that names a have it does not know
  (`server.zig:356`): a clone with commits of its own cannot fetch new ones before it
  has pushed them;
* a fetched tag overwrites the clone's without a check; an empty remote makes a fetch fail.

`Remote_proofs` proves all properties of the run (`ReportsAreTrue` the three about the
server's answer) for any histories, sessions, names, refspecs and starts, and any number of
calls (`MaxCalls` may be any number). It assumes of objects that they need themselves and what
those they need need (`HistoryAssumption`), of the clone that it begins complete and without
tracking references for tags (`StartsAssumption`), `TagsAreNames`, `ClientIsASession`, and the
shapes of calls (`CallsAssumption`). The invariant `RemoteInv` is the server's `Inv` and four
more parts: `CloneShape`, the types; `Complete`, that the objects of the clone are closed
under need and that its references, what it has asked for and what its session asked for
point to them, from which `CloneComplete` follows; `Imported`, that a fetch that updates
references has imported what the branches point to; and `Noted`, that what a call goes by
(the advertisement of a fetch, the commands of a push that took effect) was so while it
ran, from which `TrackingFollows` follows together with the server's guarantee that a push
without an error applied every command (`Reached`). `OthersRequest` and `ServerStep` take
the steps of the server's sessions from the lemmas about `Inv`.


## 7. The tools and the index format

`SimpleYaml` is the loader `tools/inventory/simple_yaml.py`. A text is a sequence of
lines, a line its indentation and its tokens; each parser is an operator that returns a
value and the next line, as in the code, or `Error`; the loops are recursion, through the function
`parse`. An author adds lines and comments and
loads after every edit. The lines are a constant; `LinesAssumption` says of them what an author
does: a line holds no comment, a `#` only in quotes, a mark `|` or `>` never alone, and it is
a header, a field or a scalar as its tokens say (`IsLine`). `ScalarsAssumption` says that a scalar
by itself is read as its author means it. `ReadsWhatIsWritten` compares with a definition of its
own: `Found` derives from indentations alone, from a line to its parent, what the loaded value has
where the line belongs, without any parser; that must be what the author meant. It is about every
text that is accepted, well formed or not, whose mappings have no key twice (`KeysDiffer`).
`AcceptsWellFormed` says that no text written the way the inventories are is refused,
`CommentsChangeNothing` that a comment never matters. `MCSimpleYaml` states the loader's
own self-test as an assumption that TLC evaluates. Run `yaml` has every text of up to four
lines in three depths, with each shape of line and each kind of scalar; four lines make a
header, a list item, a key of the item and a dedent; the last line may have the key of the first,
and without `KeysDiffer` the property fails there. White space within a line, characters
within a word and the texts of errors are left out, and so is the check for tabs (line 34): it
never fires, as `lstrip` removes tabs too before it looks for one.

Texts beyond that, which the model reads as the code does: `- key:` with an empty first
value takes the lines below as the value of that key; `- http://x` becomes a mapping; a word with
an apostrophe leaves the quote open for a comment behind it; of a repeated key the last
one counts.

`SimpleYaml_proofs` proves these properties for any lines that satisfy the two assumptions
and texts of any length. The parsers are a function that calls itself, and
before anything can be said of its values it must be shown that such a function exists: each
call leads to a call further on in the text or, at the same place, to a parser of lower rank
(`Rank`), the answers of any two functions that parse up to a rank agree there
(`StepSame`), and so the function grows rank by rank to the end (`ParsesFurther`, `ParseExists`).
The same is done for the removal of comments (`CleanedExists`).

* `CommentsChangeNothing` (`CommentsAreNothing`): the invariant `TextInv` says that every line
  of the text is one its author wrote, with the one comment behind it or without, and
  that the value is what `load` makes of it. `CommentGoes` shows that the `#` of a comment
  behind a line that leaves no quote open is the first one outside quotes, whatever the
  comment holds, so that the text without its comments stays the same.
* `TypeOK` (`TypeCorrect`): by rank again, each parser's answer is a tagged value and its next line
  is behind the place it was called for (`StepGood`).
* `AcceptsWellFormed` (`WellFormedAccepted`): `WellFormed` speaks of parents and siblings, the
  parsers of indentation and places. `Tidy` says the same of neighbours: the next line that is
  not indented more (`Follows`) is of the same kind, or ends the block; `WellFormedIsTidy` leads from the
  one to the other. From the last line to the first, a block that begins at a
  place is read exactly to the first line indented less (`EndsAt`, `AllBlocksRead`), and the block
  at the first line to the end of the text.
* `ReadsWhatIsWritten` (`WrittenIsRead`): the parsers build a value from the last line to the
  first and from inside out, `Found` takes it apart from the first line and from outside in. Two
  inductions from the last line to the first meet. `SoundAt` says of an answer that has not failed
  how the lines it has read are indented and which lines the keys of its mapping come from.
  `RightAt` says that if what encloses line `p` has in it what a parser answers at `p` (a mapping that
  extends the answer, a list that goes on with it from the item's index, a block's very value), then
  every line up to the end of the answer is found right. Siblings that a loop reads one after the
  other have the same parent (`SameParent`) and count up (`IndexNext`), the lines below a header or
  an item have it for a parent (`ParentAbove`, `ParentIn`), and since keys differ no later entry
  replaces an earlier one. The value of the whole text is where the first line belongs. Nothing is
  assumed of the shape of the text: the parsers' own refusals are enough.

`QualityGate` is the gate: `check_file_inventory.py`, `check_api_inventory.py`,
`check_allowlists.py`, `check_metrics.py` and `run_goldens.py`, each an operator from the
repository to its verdict and its counts. `repo` is what they read, `results` what those
that have run said; contributors change one thing at a time, and every change makes the
results void. The checks share no state, so their order does not matter; one is fixed to
keep the instance small. A YAML file stands for its document, a source text for
the words in it (`Within` says which words contain which symbols, as the code searches
for substrings).

* `SourcesAreInventoried`: a green gate means that every enforced row has sources of its
  own, and that each top-level directory or file under the source root has a row with a
  path in it, or else is mentioned by an `excluded` or `test_only` row. The second half is
  weaker than "nothing is uninventoried": nobody validates the path of a row that is not
  enforced (`check_file_inventory.py:113`), and of a path without `src/` the first
  component counts as a top-level name (`:84`), so an excluded row with the path `c` lets
  `src/c` pass. `Mentions` is the name a path mentions, `InventoryTops` collects them.
* `SurfaceIsMapped`: every enforced package whose name no later row repeats has an API
  inventory, and its symbols occur in its own sources.
* `CountsAgree`: programs that count the same thing agree, malformed rows and files that
  do not load included.
* `NothingIsTolerated`: no more accepted gaps than the threshold, no failing golden.

Run `gate`: every repository that three edits make of a good one with two packages, one
nested in the other's directory, all thresholds at their limits. Three edits are a bad
row, a document to go with it and a source to hide it. Deadlock is off: the gate ends when
the edits do. `inventories/metrics.yaml` says the goldens threshold counts case
directories; `check_metrics.py:29` counts meta files and every `*.expected`, so one case
can count twice. With the code as it is no property claims that sentence.

`QualityGate_proofs` proves all of them for any repository to begin with, any edits and any
rows, documents, sources, lists and thresholds. It assumes that the two bounds of the runs are
numbers (`BoundsAreNumbers`), that the first repository is one (`InitialIsRepository`), that
there are finitely many API files, and errors in a document (`InputsAreFinite`), that an
allowlist that loads is a list (`ListsHoldEntries`), and that a path under the root, written
without detours, mentions the directory it is in (`PathsMentionTheirTop`). The invariant `GateInv` says that a result
that is there is that of the check on the repository as it is now: every edit voids all of them.
What remains are facts about the checks: a green gate is five verdicts on one repository, and
each property follows from the loops of two or three of them. `NothingIsTolerated` takes most of
the module, as it is about sums. A sum over a set is the number of pairs of an element and one
of its numbers (`SumIs`), in whatever order the elements are taken; the entries of all lists put
together are as many (`FlattenCounts`); and where the errors sum up to nothing no list leaves an
entry out (`NothingIsLeftOut`).

`IndexFormat` is the index file: the encoder and the decoder of
`plumbing/format/index/`, `tools/gen_index_fixtures.py`, which writes the layout once
more, and the cut that `setIndex` (`storage/filesystem/index.zig:47`, truncate and write in
place) leaves behind when its process dies. An image is a sequence of fields; names are bytes. The mask of a name's length and the base of the variable-width
numbers are constants, scaled down so that names cross both.

* `DecodesWhatWasWritten`: entry by entry, whoever wrote it, in whatever version.
* `TornIsNoticed`: a file cut short anywhere is never taken for an index.
* `SameLayout`: the generator writes what the encoder writes, as its header claims.

Run `index`: up to three entries with nine names around the mask (4), full padding (2 and
10, 8 bytes) and strips of one to three digits in base 3, two stages, three pairs of flags,
versions 2 to 4, both writers. Cuts are made of files of up to two entries. Extensions and
cuts within a field are left out; the latter end in the same error as cuts between fields.
The in-memory index, times and hashes (opaque) too.

`IndexFormat_proofs` proves `SameLayout` (`GeneratorFollowsEncoder`) and `TornIsNoticed`
(`TornIsRefused`) for names of any bytes, any stages, flags, mask and base, and any number of
entries. It assumes that names are sequences of bytes without NUL (`NamesAreBytes`) and that
mask and base are numbers (`NumbersAssumption`). For the layout, `SameEntry` shows entry by
entry that the two writers agree on what the generator is given: the flags it writes out are
those the encoder computes, and the first entry of version 4, which it takes to follow an
empty name, shares nothing with it. `LayoutInv` ties the body to the function that the
property defines by recursion; `EncodedOnce` and `EncodedGrows` show that this
function is unique and grows with the entries. For torn files `TornInv` says
that the body is made of fields none of which is a checksum, so that what is left of a file
that lost its last field has none; and that the decoder's place in it stays a number,
which needs that a length it goes by was in flags somebody wrote.

It also proves `DecodesWhatWasWritten` (`RoundTrip`) and `TypeOK`
(`TypeCorrect`) from the same assumptions and `BoundAssumption`. The argument climbs from
digits to files. A number: by induction over the digits (`DigitsStand`), the
decoder's arithmetic on them gives back the number (`VlqReads`), and the byte that it takes for
the last one is the last one (`LastIs`). A name: it ends at the NUL the writer put there
(`NulIs`), or where its length says, and the prefix a name of version 4 leaves out
is the beginning of the name before (`PrefixShared`). An entry (`ReadEntryIs`): if all its
fields are in the file it is read as it was written and the decoder is behind it; if
not, the decoder fails, at whatever field the file ends. The padding left is what the writer
wrote less the NUL that a name as long as the mask has taken (`EndsEntryPadded`). A file
(`EntryPlace`, `FullIs`): the fields of an entry are behind those of the entries before it, and the
checksum behind all of them. `DecodeInv` is the invariant: the image is a beginning of the file
that was written, all of it unless it was cut, the decoder's entries are the first ones,
and its place is behind them. The first part is what makes an entry of a torn file
correct as far as the decoder gets, which `TypeOK` needs.

| Run | Checks | Shows |
|---|---|---|
| `overlay` | `TypeOK`, `RefsHaveObjects`, `CommitPublishes`, `CommitIsInvisible` | a commit may fail anywhere and be repeated; the base is closed at every step |
| `remote` (section 6) | `CloneTypeOK`, `RefsHaveObjects`, `OkMeansInForce`, `CleanAnswer`, `AtomicUnlessDisturbed`, `CloneComplete`, `TrackingFollows` | what a report means while others push; what a clone may rely on |
| `yaml` | `TypeOK`, `AcceptsWellFormed`, `ReadsWhatIsWritten`, `CommentsChangeNothing` | no line is lost or attached elsewhere |
| `gate` | `TypeOK`, `SourcesAreInventoried`, `SurfaceIsMapped`, `CountsAgree`, `NothingIsTolerated` | what a green gate means |
| `index` | `TypeOK`, `DecodesWhatWasWritten`, `TornIsNoticed`, `SameLayout` | one layout, two writers, one decoder |

None of the five assumes fairness: their properties are about single steps and states.

## 8. Proved, checked, not modelled

Proved for all values of the constants: the safety properties of `ReferenceTransaction`
(section 3), of `DotGitRefs` in its three regimes (section 4), of `TransactionalStorage`
(section 5), of `ReceivePack` and of `Remote` (section 6), of `IndexFormat`, of
`QualityGate` and of `SimpleYaml` (section 7).

Only model-checked:

* `LockReleased` and `CallsEnd`: liveness is beyond the prover;
* that single scalars, with their quotes and flow lists, are read as they are meant, which
  `ScalarsAssumption` of `SimpleYaml` states of its lines and TLC evaluates for those of the run:
  `_parse_scalar` recurs into flow lists, an induction over data.

Not modelled: what point 4 of section 2 leaves, and everything from point 6 on;
`PROJECT.json` gives the reason for each component. Text and byte formats other than the index, hashing, URL and revision parsing are
sequential functions on strings and stay out, as do the command lines, messages and
self-tests of the tools.
