# A TLA+ verification of Bittern

Bittern (`src/bittern-cache/src/bittern_cache_kmod`) is a Linux device-mapper
target that caches a block device in persistent memory (NVDIMM through the `mem`
back end, or a fast block device through the `block` back end). Source files are
named here without their prefix `bittern_cache_`.

## The system

| Part | State | Operations | What makes it hard |
|---|---|---|---|
| Cache blocks (`getput.c`, `redblack.c`, `main.h`) | state, sector, xid, hash, reference count; tree by sector; invalid, valid, clean, dirty lists; counters | get, get clone, get dirty or clean, move to invalid or clean, put | several threads take blocks from different lists in separate lock sections; two blocks of one sector coexist during a write hit |
| State machine (`states.h`, `main.c`, `main_subr.c`, `sm_*.c`) | 54 states on 18 paths; a work item per operation | one function per state, continued by I/O callbacks | the steps of all operations interleave; each path fixes an order of device, data and metadata writes |
| Request mapping (`main.c`) | requests, two deferred queues | map, hit, miss, busy, no resources, bypass, retry | a request may be deferred after it has taken a block; bypassed requests are not tracked |
| Background threads (`bgwriter_kt.c`, `invalidator_kt.c`, `verifier_kt.c`) | pending counters | write back to clean or to invalid, invalidate, verify | race with requests and with each other |
| Persistent memory (`pmem_api*.c`, `pmem_header.h`) | metadata and data per block, two headers | read, write data then metadata, update metadata | nothing but this order makes a crash recoverable |
| Restore (`module_ctr.c`, `pmem_api.c`) | | check every block, keep the highest xid of a sector | finds whatever a crash left |
| Cached device I/O (`cached_devio.c`) | pending list, flush-pending list, generation numbers | request, completion, delayed flush worker | flushes, FUA writes and completions race |
| Sequential detection, bgwriter policies, headers, destruction | | | see "Not modelled" |

`PROJECT.json` lists the hazards of this code at the lines where they bite, with
the properties that would catch them going wrong.

## Modules

- `CacheBlocks`: variables of the whole cache, the states, taking and giving back
  blocks. `bcb_held` is the set of blocks whose reference count is 1.
- `CacheStateMachine`: one action per `sm_` function, plus the completions of
  persistent memory and device I/O. `io[b]` says what the work item of block `b`
  waits for.
- `BitternCache`: requests (`bio`), the background threads, mode changes, crash
  and restore; composes the other two. `committed` is a history variable: what
  each sector was last acknowledged to hold.
- `BlockStore`: the abstract specification, a block device that serves a read or
  a whole-block or partial write in one step.
- `BitternCacheProperties`: the properties and the refinement of `BlockStore`.
- `CrashSafety`: the inductive invariant behind `IntactBlocksRestore`. Its proof is in
  `CrashSafetySteps` (the forms that steps of the state machine take),
  `CrashSafetyIo` (the end of requests, I/O in flight, threads),
  `CrashSafetyHandlers` (the state machine), `CrashSafetyTakes` and
  `CrashSafetyRequests` (requests taking and starting blocks) and
  `CrashSafetyProofs` (restore, and the theorems).
- `CachedDevio`, `CachedDevioProofs`: the flush layer and its proofs. The volatile
  cache of the device is external and modelled from how the code uses it: a flush
  makes stable the writes that completed before it was submitted.
- `MCBitternCache`, `MCCachedDevio`: instances for TLC.

Definitions have the names of the C functions they model; a definition whose
comment begins with "Mutated" is a deliberately wrong variant, used to see that a
property can fail.

### Abstractions

A block has two halves, each tagged with the request that wrote it last; a partial
write changes one of them. A hash is the content itself, so hashes never collide.

Nothing written to persistent memory is atomic (`docs/cache_layout.md:35`). A data
write passes through `Torn`, from the moment it is issued. A metadata write in
flight (`MetadataInFlight`) leaves the old metadata, the new, or a torn mixture
whose magic number, hash or state is wrong: the restore's checks take the set of
torn blocks as a parameter. Of an invalid block only the state is kept in `pmem`
(`NoMeta`): a restore returns before it reads the rest. Both are durable once their
callback runs.

A read of the device takes its data (`dev_was_read`) before the callback inserts it
into the cache, and other work items run in between. A device write is stable when
its callback runs; that is what the flush layer promises to the cache, and
`devio_stable` shows where it does not keep it.

The end of a request (final state, put, counters, `bio_endio`) is one step: nothing
between these calls waits, but other threads could see the counters between them,
and that window is not modelled.

The order of LRU and other lists is any order; the deferred queues are one set
retried in any order, which allows more than their FIFO. A crash and the restore
after it are one step, and the header's saved xid is the worst possible one. When
the restore fails the target is not created and there is no cache to go on with, so
`cache_ctr_restore` is taken only where it succeeds.

An I/O error that reaches the state machine stops the kernel
(`M_ASSERT_FIXME(err == 0)`): there is no behaviour after it to model. Requests
refused with `-EIO` in the error state, and pure flush and discard requests, change
nothing in the cache and are left out.

## Runs

`MCBitternCache` runs use 3 blocks (original, clone and one more to contend for),
3 requests, 1 sector (2 in `wb` and `wt`), at most 2 pending requests, symmetry
over blocks and requests. With 3 blocks every path, contention for the
last invalid block, and the coexistence of original, clone and a further copy all
occur. Requests are issued once each; the threads run without bound.

| Run | Checks |
|---|---|
| `wb` | writeback: types, one owner per block, one idle copy per sector, counters, lists, valid transitions, coherence, persistent memory agrees, the verifier finds no error, in every state a crash leaves every block with intact metadata restorable, refinement of `BlockStore`, survival of acknowledged writes except for the case of `v_ack`, given that the restore runs (`v_torn`) and that completed device writes are stable (`devio_stable`) |
| `wt` | the same for writethrough, without partial write misses (see `v_pwmiss`; their data is checked in `mode`) |
| `bypass` | coherence and refinement with bypass, when requests for a sector are serialised as the comment at `main.c:2111` requires of the upper layer. Bypassed requests that do overlap are outside it: nothing is claimed of them |
| `crash` | a crash at any point, a restore that succeeds, then normal operation |
| `mode` | changes of the cache mode, and all writethrough paths: ownership, coherence, restorable blocks, refinement |
| `devio` | the flush layer with 2 writes, 1 read, 2 flushes outstanding, FUA after 1 write, device errors and failed allocations: acknowledgement order, queues, FUA window, and that every request is acknowledged unless the flush worker has stopped (`devio_nomem`) |

Two writes and two flushes are enough for a write to be held back while another is
in flight, for two acknowledging loops to run at once and for a FUA to race a pure
flush; that the safety properties hold for any number is proved.

Runs that are expected to fail, each a disagreement of the code with its own
documentation or assertions (details under `findings` in `PROJECT.json`):

| Run | Shows |
|---|---|
| `v_torn` | a crash that tears one metadata write fails the restore of the whole cache, where the documentation says that block is marked invalid |
| `v_ack` | an acknowledged write is lost: clone written back and invalidated, stale original still valid in persistent memory at the crash |
| `v_pwmiss` | the writethrough partial write miss takes the writeback transition |
| `v_mode` | a writethrough hit on a block that is still dirty corrupts the counters |
| `devio_stable` | a write that completes while a flush is in flight is acknowledged by it |
| `devio_nomem` | a failed allocation stops the flush worker for good |

A limit of what is promised across a crash in writethrough: the device is written
before the cache, so a crash between the two restores the old clean copy of a write
that was never acknowledged, over a device that already has the new one. The sector
reads old until that block is invalidated. Both contents are ones a crash may leave
(`Allowed`); that the answer changes later without a write is not covered by a
property.

### Fairness

Only `devio` and `devio_nomem` use it: each request and each flush that has been
issued goes on (threads that hold no lock run, the device completes every bio), and
an armed delayed work runs. No request has to be issued and no allocation has to
fail. The worker reads its two counters in two steps, without the lock, and may see
a write on neither list; it re-arms itself, so the next round finds it.

Deadlock is checked in the cache runs, where a state with every request answered and
every block given back may stutter. It is not in the runs of the flush layer:
there the flush worker stops after a failed allocation. Allocation failure and
device errors are constants of `CachedDevio` (`AllocFails`, `DeviceErrors`).

## Proofs

All for any number of blocks, sectors, requests and crashes.

`CrashSafetyProofs`: `CrashSafeHolds` (`Spec => []CrashSafe`), and from it
`TypeCorrect` and `IntactBlocksAlwaysRestore`: whichever metadata writes a crash
tears, every other block passes the checks of the restore. That the restore as a
whole succeeds is not a theorem (`v_torn`). `IntactBlocksRestore` is not inductive: that
data is overwritten only while no metadata describes it depends on who moves a
block. `CrashSafe` adds, per block, which I/O fits which state (`IoFits`), where
valid metadata may exist and what data it describes (`DataSafe`), and that sectors
and xids are set (`Described`); per request, that the blocks it has taken are held
and untouched (`ClaimFits`, `ClaimsDisjoint`); that an original waits for its clone
(`OriginalWaits`, `OriginalsDistinct`); and that no two blocks share an xid
(`XidsOwn`). One lemma per action, or group of alike actions, shows that it is kept.

`CachedDevioProofs`: `TypeCorrect`, `QueuesAlwaysConsistent`, `AcksAlwaysCovered`
and `FuaAlwaysInWindow`, from one inductive invariant that also bounds the
generation numbers of requests and flushes. `AcksAlwaysCovered` is about generations:
the completion that covers a write may itself have failed, as the code acknowledges
then too (`cached_devio.c:31`).

Assumptions are the named `ASSUME`s on constants; TLC evaluates them in every run.

Only model-checked: refinement of `BlockStore`, ownership, lists and counters,
coherence, valid transitions, and liveness (fairness and `ENABLED` are outside
what TLAPS handles here).

## Not modelled, and the plan

1. Deferred queues and wakeups (`main.c` 2320-2511, the verifier's put without a
   wakeup, the invalidator's sleep, destruction): liveness of every request.
2. Headers (`pmem_api.c` 487-711, 1102-1167): two copies, torn updates.
3. Restore on parallel work queues, and a crash during it, refining the one-step
   restore of `BitternCache`.
4. Sequential detection (`sequential.c`) and bgwriter policies
   (`bgwriter_policy.c`), which today are any choice.
5. Proofs: `OneOwner`, `ListsMatch` and `AccountingExact` for all parameters; the
   refinement of `BlockStore`.

Tracing, statistics, hashing, memory copying and the user tools have no state that
these properties are about.
