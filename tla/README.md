# PIM_SW in TLA+

Specifications of the `sw/` stack of PIM_SW: the kernel ledger of card memory
(`pim.ko`), the user library over it (`libpim`) and its address arithmetic, the
runtime that turns matrix products into programs for the board (`libpimrt`), the
dispatcher those programs run on and the MAC that adds their products up, and
the KV cache of the Python layer; and of the older single-process runtime,
`runtime/`. TLC checks them on small instances; TLAPS proves the safety of the
driver, of libpim's pools, transfers, contexts and addresses, of the engine, of
tensors and the KV cache over them, of a bank's sums, and of the legacy heap,
for instances of any size.

    cd tla
    tlc -workers 2 -config ledger.cfg MCLedger.tla     # any run of PROJECT.json
    tlapm PimLedgerProofs.tla                          # any module named *Proofs

Paths below are relative to `src/`.

## The system

A card has a few channels of banks. Its DRAM holds matrices, its GPR holds
vectors and results, its IMEM a program. One process at a time drives it.

| Component | Source | State it keeps | Operations |
|---|---|---|---|
| Ledger | `sw/drv/pim_chunk.c` | per region: bitmap, `nr_free`, `owner[]`, a mutex | commit and release extents, alloc, free, reclaim |
| Files | `sw/drv/pim_file.c` | per open(): hugepages held, counts, slot, a mutex; the list of files | open, ioctl ALLOC / FREE / GET_INFO, release |
| Module, `/proc/pim` | `sw/drv/pim_main.c` | geometry parameters | load, unload, `proc_show` |
| Pool and allocations | `sw/lib/pim_alloc.c` | hugepages cut into granules, record table, reserved address ranges | alloc, free, grow, trim, resolve, tag, shutdown |
| Transfers | `sw/lib/pim_memcpy.c` | none | copy run by run through QDMA |
| Contexts | `sw/lib/pim_dev.c` | the default context and its lock | open, close, `pim_init`, lazy open, `pim_shutdown`, fork handler |
| Geometry, addresses | `sw/lib/pim_geom.c`, `pim_addr.c`, `sw/include/pim/pim_geometry.h` | none | derive, check, decode, encode, unit to row, GPR words |
| Engine | `sw/runtime/pim_exec.c` | mapped CFR, timeouts, flags | open, verify, run, scrub, violation counters |
| Tensors | `sw/runtime/pim_tensor.c` | placement, frontier, `zeroed_chunks` | plan, alloc, upload, append, truncate, free |
| Products | `sw/runtime/pim_matvec.c`, `pim_lower.c` | a logical program: ISRs, references, atoms | push a part, EOS, lower |
| GEMV front end | `sw/runtime/pim_gemv.c` | none between calls | upload in three ways, size, build, run launch by launch, collect |
| Sessions | `sw/runtime/pim_op.c` | an open batch, scratch buffers and their fill | open, begin, add, submit, matvec |
| KV cache | `sw/app/pimllm/cache.py` | two tensors and a token count | update, crop, reset, free |
| Dispatcher | `hw/ch1/r0p0/dispatcher_top.v` | IMEM, PROG_LEN, fetcher, held done | start, issue, retire, reset |
| MAC | `sw/runtime/pim_mac_exact.c` (the model of the RTL) | one accumulator per bank | multiply, align, add, accumulate, read |
| Legacy runtime | `runtime/pim_alloc.c`, `pim_gemv.c`, `pim_attn.c`, `pim_prog.c` | a list of holes, weights, a KV cache with a buffer of V | alloc, free, upload, GEMV, scrub, append, flush, scores, output |

How they meet: Python calls a session; a session uploads a vector with a
transfer, builds and lowers a program, and hands it to the engine, which loads
IMEM over the same DMA, rings a doorbell over MMIO and polls. Transfers and
lowering resolve host pointers through the record table of the allocator, which
grows from and returns to the driver by ioctl. The driver keeps one ledger per
open file and reclaims on the last close, a kill included. The legacy runtime
uses none of this: it owns the card, and its heap, programs and cache are plain
structures of one process.

What is hard: system calls of many threads interleave between two mutexes in the
driver; an allocation is five steps, any of which can fail; a launch leaves its
program running when it times out or its process dies, and accumulators that
nothing clears cross launches and processes; placement (tensor) and schedule
(product) compute one address by two formulas; a batch may be launched by an
add in the middle of a product; the zero tail behind a growing tensor is kept by
clearing lazily; K and V grow one after the other; a process may fork with
another thread inside libpim; a beat is always full, so that what a row holds
behind its operand is multiplied too; and two pieces of code each decode the
geometry that a third has accepted.

What makes each component correct is stated by the properties below.
`PROJECT.json` lists every component with what is left out of it, and every
hazard at its line with the properties that watch it.

## Modules

**Driver.** `PimLedger` has one action per stretch of a system call between two
waits: `AllocCall`, `AllocLockFile`, `AllocDecide`, one `Commit` per extent,
`CopyOut` or `CopyFault`; `FreeCall`, `FreeLockFile`, `FreeValidate`, one
`Release` per extent; `CloseCall`, `CloseUnlist`, `ReclaimLockFile`, `Reclaim`
per region, `FreeStruct`; and the steps of `/proc/pim`. The variables are the C
fields (`bitmap`, `nr_free`, `owner`, `hugepages`, `nr_held`, the mutexes as the
thread that holds them) and per-thread locals. `PimOwnership` is the abstract
specification, whole requests taken and given at once, which `PimLedger`
implements with a mapping that moves an extent when it is decided
(`Indivisible`). `PimCallers` composes the ledger with the record a caller
keeps of what it was told; callers that free anything else are there too, and no
longer followed.

**Library.** `PimPool` has contexts over a driver that knows who owns each
hugepage (`own`) and refuses a FREE as `pim_hugepages_free` does (`Refused`), and
the card's contents. It builds the extents each FREE names from what the driver
replied and what the pool counts as empty, not from `own`, and notes in `careless`
who named a hugepage that was not the file's, or one twice; what the driver would
not take back is `stuck`. An allocation is `AllocFromPool`, `AllocGrow`, or one of its
failures (`AllocFull`, `AllocUnrecorded`, no address range), then `Zero` run by
run; `StartWrite` and `Write` transfer run by run; `Free` and `Unmap` are the
two halves of `pim_free`; `Fini` and `Exit` are shutdown and death. `PimDefault`
is the default context with threads and forks: every place where
`pim_init` and `lazy_open` hold or wait for `g_lock` is a step, and a fork may come
at each, before the handler is registered too.

**Addresses.** `PimGeometry` has what `pim.ko` and libpim each demand of a
geometry, decode and encode on both maps, `pim_resolve`, and the units and words
programs refer to, as operators. `PimBoard` makes a machine of them: `Insmod`
with any step of `pim_init` failing, `Rmmod`, `Open`, `Alloc`, `Free`, `Close`.

**Engine and board.** `PimIsr` says what an instruction does to global buffers,
accumulators and GPR words, with symbolic data: a latch holds the set of
products added since it was last drained. `PimEngine` has the steps of
`pim_exec_run` (idle waits, words to IMEM, PROG_LEN, doorbell, polls) against
those of the dispatcher, with sessions killed anywhere. `PimMac` is
`pim_mac_exact.c` branch by branch, its widths parameters; `PimBank` feeds two
accumulators, one as the model is fed and one as the card is.

**Tensors and cache.** `PimTensor` holds the pure functions: plan, offset, the
scatter and its runs, and the outcomes of each call, failing transfers
included. `PimTensorCalls` makes a machine of them, which implements
`PimTokens`, a list of tokens that is appended to and cut back. `PimKv`
composes a K and a V tensor as `PimLayer` of `cache.py` does.

**Products and sessions.** `PimMatvec` is pass 1 and pass 2 as functions, plus
`Terms`, which traces what the machine of `PimIsr` adds up to matrix offsets
and vector elements. `PimGemv` has the uploads, the sizes and the program of
`pim_gemv.c`. `PimPrograms` is the machine over both, with three authors of
programs: `Push` any legal instruction by hand and `Judge` with
`pim_prog_verify`; stack `Part`s, end with `Eos` and lower; or `Call` and
`Launch`, which are `pim_gemv_ex`. `PimOp` is `pim_op.c`, whose session is a
record and whose calls are operators on it; every upload, launch and readback
in a call may be the one that fails.

**Legacy runtime.** `PimLegacy` has the list of holes (`WeightAlloc`,
`WeightFree`, `FreeAgain` with a stale copy of a handle), the layout and
`Upload` of weights bank by bank, `Gemv` in both schedules, `GemvFailed` and
`Scrubs`. `PimLegacyKv` adds the cache (`KvAlloc`, `KvFree`, `KvAppend`,
`FlushByHand`) and `Scores` and `Output`, on the same heap and board. A call on
the board runs its programs on the machine of `PimIsr`.

The `MC*` modules give constants their small values. Operators whose comment
calls them a mutant are the plausible bugs that show a property can fail: with
the mutant in the place of the definition after it, the property named in
`PROJECT.json` is violated.

`PimTensor`, `PimMatvec` and the models of programs share `Epb`, elements per
beat (16 in the code), and `Epr`, elements per row (1024); 2 and 4 keep every
boundary: inside a beat, inside a row, across rows, across groups.

## What the runs show

| Run | Question | Bounds and why |
|---|---|---|
| `ledger` | exclusivity, exact counters, labels; nothing a caller cannot free, no refused free | two files, two threads, three hugepages: fragmentation, two extents, every pair of calls interleaved, careful and careless callers side by side; one label, so labels wrap at once |
| `proc` | lock order, `/proc` sees live files, calls are indivisible, every call returns | two threads, one of which also reads `/proc`; an ALLOC and a FREE of two extents |
| `pool` | no aliasing, contents intact, exact accounting, every FREE names the file's own hugepages once; a default context of one's own file, with the configuration let in last, and a lock remade by the fork handler | two processes, three hugepages of two granules, allocations of one and of four granules, so that a grant is scattered and comes in extents of one and of two; every failure of driver, FREE, pool, address space and transfer; one empty hugepage kept. Beside it two processes and two threads that configure in two ways, open, fall over each other and fork at any point. The two halves share no state, so each moves while the other is at its start |
| `default_lock` | what a fork before the handler leaves behind | as the second half of `pool`, with one configuration |
| `board` | loading unwinds; decode is a bijection; a unit is a row and words are the bytes written; what a row holds behind a zero, and the order of lanes, cannot be seen; a beat loses only last places | geometries of one to four channels, six shapes on both maps, one of them with more units to a hugepage than libpim's bitmap holds, and twelve that the driver refuses, each for one reason; every step of `pim_init` fails; allocations of up to four granules anywhere. One bank of three lanes, three bits of exponent and one of fraction. The two halves share no state, so each moves while the other is at its start |
| `engine` | answers are those of the program that was rung; every doorbell is run | two programs, a refused one, a scrub, kills, timeouts, one stale status read |
| `tensor` | zero tail behind the frontier, tokens remembered as `PimTokens` says; no token lost and attention reads the counted tokens | both layouts across beats, chunks and groups; every transfer may fail. Beside it, sharing no state, one layer of four tokens and two beats, of which either tensor fails at any transfer |
| `programs` | an accepted program returns its own sums and leaves nothing; results are the dot products, counts exact, cuts safe; GEMVs return products over any number of launches, and both front ends build one program | by hand, up to five instructions of two vector lengths, result words, latches; two pieces, all group ranges, three offsets, three lengths, one or two latches; GEMVs of one chunk and of three, three uploads, five limits of IMEM, two calls on one machine |
| `op` | the caller gets the answers it asked for, and what it declared is not refused but in the three cases of the table below | a matrix of eight by twelve and five menus of products: full, split, of mixed lengths, and one that lies in a chunk more than its length takes; both modes on an engine without T; batches of two, IMEM of 22 words so that products split and batches overflow; a call fails at any of its first seven uploads, launches and readbacks, more than it makes |
| `legacy` | the heap is exact, GEMVs and attention return their products | eight rows, two handles, a weight of two chunks and one packed two groups to a row, one stale copy; a cache of six positions over two chunks that is flushed every beat or every two, and by hand at any time, three query heads on two kv heads; IMEM of nine words so that products split; every transfer and launch fails |
| `legacy_flush` | whether the split of V between card and host shows | as `legacy`, flushed every two beats |

Deadlock is checked except in `programs`, where a judged or ended program is the
end of the story.

Several properties have an exception that a history variable keeps narrow.
`careless` marks, in `ledger`, the files of callers that freed what they were not
given (in `pool` it is empty, and `CarefulCaller` says so);
`stuck` the hugepages that could be neither recorded nor handed back; `torn` and
`raised` a tensor or a layer on which a call failed half way; `midway` a file
that was being opened while the process forked; `last.died` a call whose own
launch or transfer failed; `tainted` a bank that met an infinity or a NaN behind
its operand; `owed` a board on which a launch of the legacy runtime failed and
no scrub has worked since; `torn`, in `legacy`, a cache whose flush failed, and
`skewed` one that was appended to after a flush by hand took part of its buffer.
`LockRemade` speaks of processes whose handler is registered, and `NeverRefused`
excepts what its three conditions describe: `Dual`, `Mixed`, `Straddles`.
Outside these the property holds in the same run, with the failures happening to
others.

### Where the code and its words differ

Three runs check a property, taken from a header or a comment, that the code does
not keep; `PROJECT.json` quotes the lines.

- `ledger_twice`: a FREE that names a hugepage twice passes validation
  (`pim_chunk.c:194-209`) and is counted twice.
- `default_lock`: `pthread_atfork` is called inside `lazy_open`, with `g_lock` held,
  and `pim_init` has taken the lock before (`pim_dev.c:308`, `:326`); a fork by
  another thread before that leaves the child a lock that no handler remakes, and its
  first libpim call never returns. `LockRemade`, in `pool`, is what the code keeps.
- `legacy_flush`: an append writes slot `t % flush_gran` of the buffer
  (`runtime/pim_attn.c:148`), but a flush slides what is left to slot 0 and the output
  reads slot `t - flushed` (`:335`); a flush by hand that leaves something makes them
  differ, against `runtime/pim.h:309-311`. `AttentionExact`, in `legacy`, is what the
  code keeps: every score, and every output until such an append.

`NeverRefused` describes three more where they occur, since the run of `op` reaches
them; leaving any one out of the property makes TLC show it.

| Condition | What the code does |
|---|---|
| `Dual` | a session allowed the second latch is refused by its own engine, which `pim_op.c:158` opens without it, against `pim_op.h:87-89` |
| `Mixed` | pieces of different beat counts share one layout tag (`pim_op.c:428`), against `pim_op.h:175-179` |
| `Straddles` | a reduction that lies in one more chunk is lowered past IMEM when its launch has one piece (`pim_op.c:128`), against `pim_op.c:170-172` |

The others are bounds of the passing runs. Changing the constant named here, in
a copy of the run's `.cfg`, makes TLC show the behaviour.

| Change | Violates | What the code does |
|---|---|---|
| `programs`: `SeenMax = 0` | `AnswersAtDone` | a result beyond the 64 the verifier remembers may land on a word already used (`pim_exec.c:397`) |
| `programs`: `Alphabet <- MCTwoChannels` | `AnswersAtDone` | drains are counted per latch, not per channel (`pim_exec.c:398`); no schedule of `pim_matvec.c` depends on it |
| `engine`: `Latches = {0, 1}`, `AllowT = TRUE` | `AnswersAreOwn` | the scrub drains latch 0 only (`pim_exec.c:506`) |
| `engine`: `StaleReads = 2` | `FetchesTheProgram` | `done` of the program before satisfies both reads after the doorbell (`pim_exec.c:456-464`) |
| `tensor`: `Forward = TRUE` | `ZeroTail`, `Remembers` | a truncate past the frontier moves it over steps nothing wrote (`pim_tensor.c:336`) |
| `tensor`: `Reuse = TRUE` | `AttentionReadsTheSequence` | `free` keeps the count (`cache.py:156`); a later crop moves both frontiers forward |
| `programs`: `Offsets = {1}` | `RightProducts` | a slice that starts inside a beat is shifted against its vector (`pim_matvec.c:49`) |
| `op`: `Scrubs = FALSE` | `RightAnswers` | nothing in the runtime scrubs after a failed launch (`pim_op.c:336`) |

More have no run:

- `pim_init` decides under `g_lock`, releases it, and opens under it again
  (`pim_dev.c:329-339`). Of two threads whose first `pim_init` both find nothing
  tried, the second to decide overwrites `g_cfg`, and the first returns success for a
  context with the other's configuration, against `pim_dev.c:320-323`.
  `OpenAsConfigured` says what is left: the context has what was let in last, and
  nothing that came after the open.
- A CONTIG request over fragmented memory gets -ENOSPC though it offered one
  extent per hugepage (`pim_chunk.c:117`, against `pim_ioctl.h:139-141`).
- An append that fails half way leaves values above the frontier
  (`pim_tensor.c:326`), the `torn` of `ZeroTail`.
- A product longer than `max_red` is accepted when `max_batch` is more than one
  (`pim_op.c:385`).
- After a `crop` whose second truncate failed, a longer crop counts tokens that
  one of the tensors has lost; the model marks them as given up (`said[i] = 0`).
- `pim_gemv.c:139-141` (`sw/runtime`) would refuse a launch on a tensor that was
  never uploaded; the tag that would tell is set by the alloc already.
- A beat of zeros halves a subnormal accumulator (`pim_mac_exact.c:317-350`): a
  zero operand skips the rounder, and with it the step that gives a subnormal its
  effective exponent. `runtime/pim_alloc.c:255-256` and `sw/runtime/pim_gemv.c:488`
  say that zeros contribute exactly 0. `LosesOnlyLastPlaces` leaves beats of
  zeros out.
- The driver loads geometries of more than 64 granules to a hugepage
  (`pim_main.c:134-165`), which libpim then refuses to open (`pim_geom.c:74`).
- `pim_gemv_multi` of the legacy runtime drops the error of its scrub
  (`runtime/pim_gemv.c:257`), though the comment above it says that the next call
  starts clean; `pim_attn_scores` and `pim_attn_output` do not scrub at all.
  `owed` marks both.
- A legacy flush that fails leaves the count of positions ahead of the buffer
  (`runtime/pim_attn.c:145-150`); the caller of the model gives the cache up.
- `pim_kv_alloc` takes a `flush_gran` that does not divide a row, which a later
  flush refuses (`runtime/pim_attn.c:72`, `:166`); `KvAssumption` leaves it out.

### Fairness

`proc` gives every thread strong fairness of its own steps: a kernel mutex is
handed to its first waiter, so a thread whose lock is free again and again gets
it. Nothing is assumed of callers. `engine` gives the board weak fairness: a
dispatcher that has an instruction and an idle channel issues it. The host may
stop anywhere. No other run uses fairness.

### Assumptions of the models

- Callers of the driver other than in `ledger_twice` name a hugepage at most
  once in a FREE; `CarefulCaller`, in `pool`, shows of every FREE of libpim that it
  names only hugepages of its file, and each once.
- One thread per context (`pim.h:30-34`), one process on the board
  (`pim_exec.h:12-33`).
- `StaleReads`: how many STATUS reads a doorbell may lose the race to is a
  property of the image; the code says itself that it was not measured. The
  runs take one.
- `PimOp` starts with clean latches, its tensors carry their tag, and its caller
  scrubs after a failed launch (`Scrubs`; see the table).
- `PimMatvec` and `PimGemv` take the row of a unit as an injective function
  (`RowOf`): `OneRowPerUnit` in `board` is the reason.
- `PimMac` has integers for the code's 10-bit exponents and 28-bit sums, which
  hold every value that occurs at its widths.
- In `legacy` no GEMV is too long for the fast schedule and fits the exact one,
  no flush finds a chunk boundary in its way (every flush at a multiple of its grain
  empties the buffer, unless it fails), and no stale copy can be accepted twice: these branches
  are in the model, and the instance is too small to enter them.

## What is proved

Theorems hold for every value of the constants that the named assumptions of the
modules allow; the runs show the same properties on an instance. An invariant
worth having is seldom inductive, so each module first says what else has to
hold between any two steps; TLC checked these invariants on the runs before they
were proved. Initial states, then one case per action, then PTL.

| Module | Theorems | Inductive invariant |
|---|---|---|
| `PimLedgerProofs` | `TypeCorrect`, `ExclusiveOwnership`, `ExactCounters`, `LabelsRight`, `ProcIsSafe`, `LocksOrdered`; `LedgerAgrees`, `EnospcIsHonest`, `NoLeakOnClose` | `IInv` |
| | refinement: `DriverKeepsPromise` | `IInv` |
| | `CallersRunTheDriver`, `NothingIsForgotten`, `FreeOfItsOwnSucceeds` | `IInv` and `Booked` |
| `PimPoolProofs` | `NobodyAliases`, `PoolsAreExact`, `MemoryIsIntact`, `LibpimIsCareful` | `PInv`, and `CInv` over it |
| `PimDefaultProofs` | `OwnLedgerAlways`, `LockIsRemade`, `ConfigurationStands` | `DInv` |
| `PimBoardProofs` | `EncodeOfDecode`, `DecodeInverse`, `UnitIsOneRow`, `UnitsAreRows`, `WordsAreRight`, `LoadUnwinds` | `Given` (what loading and opening have checked), `Reached`, `LedgersFollowTheModule`; the rest is arithmetic |
| | `OnlyProductsReachAnswers` (of `PimBank`, the other half of the `board` run) | `Twins` |
| `PimEngineProofs` | `RightProgramIsRun`, `NobodyElsesSums` | `FInv`, and `MInv` over it |
| `PimProgramsProofs` | `FrontEndsStayAgreed`, `BuildersPassVerify`, `AnswersStayRight`, `CutsStaySafe`, `ProductsStayRight` | `LaunchInv`, and over it `StackInv`, `JudgeInv`, `CutInv`, `ServeInv` |
| `PimTensorProofs` | `ZeroTailHolds`; refinement: `TensorRemembers` | `TInv`; its first half is about single calls on any tensor |
| | `HoldsTokensAlways`, `AttentionReads` (of `PimKv`) | `KInv` |
| `PimLegacyProofs` | `HeapStaysExact` | `HInv` |

**The driver**, for any files, threads, region sizes, label modulus and requests
(with `NrHugepages` positive, `None` no thread or file, and FREE arrays that name
a hugepage once, which `FreeCalls` has in its guard). A `Commit` keeps hugepages
exclusive only because what it commits was free when `AllocDecide` looked and the
locks were not dropped since. `IInv` says so: `Locked` (who is in which critical
section holds exactly its mutexes), `Pinned` (a file in use by a call is open, a
closing file has one thread), `Checked` (what is left to commit is free, what is
left to release is held, each named once), `Emptied`, `Labels`, `Listed` (the
file list and a walk of it), `Answers`. Three theorems are about what no run
checks: ALLOC never finds the bitmap and `nr_free` in disagreement
(`pim_chunk.c:145`), the number of extents -ENOSPC reports is enough for the
retry, CONTIG left out, and a file that is gone owns nothing.

`DriverKeepsPromise` is the refinement: seen through `Owned`, which counts a
hugepage from the moment its call is decided, `AllocDecide` is a `Take`,
`FreeValidate` and `Reclaim` are a `Give`, and every `Commit` and `Release` is a
stutter, because what it moves from pending to held is disjoint from what any
other call has pending. `CallersRunTheDriver` brings `IInv` to the composition; `Booked` then says for every place in a
call what it carries, that no two calls carry the same hugepage and that none of
it is in the caller's books.

**Pools and memory**, for any contexts, hugepages, granules and sizes, and every
failure the model has. The model sorts a set of granules, as the scan of the
code does; `Ascending` is a choice by rank, and the lemmas on `Below` show that
it lists each member once. `PInv` has a row per context (`RowOK`: granules of
records are claimed in the bitmap, of hugepages the context owns, and are
disjoint, for records and for the call in flight) and `Apart` between contexts.
`CInv` is about contents: granules before the place a `Zero` has reached are
zero, granules before the one a `Write` has reached are new and the others old;
a step of somebody else never writes a granule the context has a record for,
because of `PInv`. `LibpimIsCareful` is about what each FREE names. The extents of
a trim are the stretches of neighbours among the hugepages the pool counts as empty
(`TrimNames`): they are disjoint, and all the fd's, because `PInv` has the pool's
hugepages among its own and its counters exact. The pieces `AllocUnrecorded` hands
back are the rest of one extent of the driver's reply and the extents behind it:
disjoint from each other and from what was recorded (`HandsBack`), so that each is
still owned when it is named, whatever became of the ones before it.

**Default context**, for any processes and threads. `DInv` says who can be
between lock and unlock (`Excludes`), that a file is opened at most once and
before a shutdown (`OpensOnce`), and who can hold a descriptor of it.
`LockRemade` is part of `Excludes`: once the handler is registered, whoever the lock
names is inside, in a child because the handler has just remade it. It does not rest
on when a fork comes. `Configured` says that the file a process opened has what
`g_cfg` holds: `LazyOpen` takes it under the lock, and whoever comes after finds
`g_tried` set; a child that the handler armed again has opened nothing yet. The three
theorems assume nothing of callers.

**Addresses**, for any module parameters that are natural numbers. Encode of
decode is the identity on the card, on either map, and for any sizes: no power of
two is needed. The argument is division with remainder, once or twice (`DivUnique`,
`DivOfSum`, `DivTwice`); products of sizes are kept folded, since the solver does
not multiply variables. `UnitsAreRows` needs more: the granule holds a whole
number of units, which follows from both being powers of two, and divisibility of
powers of two is proved by descent (`Least`); the granules of an allocation are
distinct, so units are. `WordsAreRight` follows a byte through word and granule.

**A bank's sums**, for any widths, number of lanes, weights and streams of
beats. The induction itself is short: `Twins` says that the card's accumulator is
the model's, or a NaN once a bad lane was met, and accumulating a NaN stays one.
The work is `SameBeat`, that two beats whose lanes are reversed and differ in
nothing but the sign of a lane without a product are the same to the adder tree.
`SumFunction` of the community modules adds up in whatever order `CHOOSE` takes;
`SubsetInduction`, over a set of subsets and not a predicate, shows that such a
sum exists (`SumExists`), that any element may be taken first (`AnyFirst`), and
so that the order of the lanes does not matter (`SumTurned`). The largest
exponent exists by the same induction. Powers of two are positive because they
count subsets.

**Engine**, for any programs, channels and words. `FInv` says what
`pim_exec_run` may count on at each of its lines: from the first idle check to
the doorbell nothing is fetched, so IMEM holds what was loaded, and a session that
sees `done` twice after its doorbell has seen its own. This needs
`StaleReads <= 1`: with 2, TLC finds a session that takes the `done` of the
program before for its own (`pim_exec.c:477` names this gap). `MInv` is about the
sums: after r instructions every global buffer holds the vector that was last
loaded, every latch the products since its last drain, and every result word what
its drain was meant to return; a latch is exact from its first drain on, or from
the start in a session that has scrubbed. `NobodyElsesSums` assumes `Session`:
one accumulator latch, programs that come from a builder (`Built`, which
`BuildersPassVerify` proves of every program they make, for the verifier
remembers 64 results and does not look at channels) and a scrub with every channel in it.
All but `Built` is the configuration of the images the stack runs on; with two
latches TLC shows the property violated.

**Tensors**, for any beat, row, channels, banks and shape, both layouts, and any
transfer failing. The first lemmas are about single calls. `Place` is the offset
of an element of the padded matrix: it stays in the allocation, no two elements
share one (`PlaceUnique`), and it is where a launch looks (`PlaceOf`). So a run
of a scatter is consecutive, every element of a rectangle is in exactly one run,
and `SentWrote` and `CutWrote` say what a rectangle, whole or cut short, leaves:
the host's values inside, the old ones outside. `AppendDoes`, `TruncateDoes`,
`UploadDoes` and `AllocDoes` put calls together from rectangles. Two facts carry
the zero tail from call to call: everything between the frontier and the last
cleared chunk is zero (`Cleared`), and the frontier is in a cleared chunk
(`Reached`). `TInv` adds that after a transfer failed above the frontier nothing
is claimed of the tail (`torn`). Both theorems assume `~Forward`, which is how
`pim_tensor.h` says truncate is called; with `Forward`, TLC violates both.

**KV cache**, for any layer and any order of calls, every one of which may raise
between its two tensors. `Hold` says that no token told of is beyond K's
frontier, that V's frontier is not short of the count (`Level`), and that each
token is whole in both; a layer used again after `free`, which keeps the count,
is the other half of `Level`: V has less than the count, and no token is told
of. That half makes `HoldsTokensAlways` free of assumptions. `Exact` is what
holds besides as long as no call raised: both frontiers are the count and the
tail is clear. `AttentionReads` assumes `~Reuse`; without it TLC shows an update
that is accepted over tokens nobody wrote (see the table above).

**The legacy heap**, for any number of rows, handles and weights, any shape of
cache and any transfer or launch failing. `HeapIsExact` speaks of the set of
blocks in use, in which two handles of one block would be one member, and says
nothing of the handles a free or a query goes by. `HInv` is about the handles:
every one lies on the card (`WeightsPlaced`, `KvPlaced`), no two share a row
(`Apart`), and the list is exactly what they leave (`Exact`): not empty holes,
ascending and never touching, so that a freed block has at most one neighbour on
either side to merge with. A plan has at least one row (`PlanHasRows`,
`CacheHasRows`): a block of none would leave a hole of none. `CarveKeeps` is
first fit and `PutKeeps` a free into the sorted list, seen as the rows the list
holds (`RowsOfList`). A stale copy overlaps a hole when it is freed again, and is
refused there before it can reach the list.

**Programs**, for any geometry, tensors, slices, pieces, limits and calls, and one
latch or two. A builder's program is a row of runs of ISRs laid end to end; the
recursion of the community modules that does it is not the prover's, so `Flat` is
first shown to be one particular function on the numbers up to its length
(`JoinedIs`, `FlatIsJoined`), and everything else is an induction below that bound
(`Counting`). Lowering distributes over runs (`LowFlat`) and counting ISRs is
additive over them (`TallyFlat`). `ChunkIs` and `PartIs` are the arithmetic of
slices: a slice falls into parts that follow each other, each in one chunk of the
tensor. `GemvAgrees` puts that together for `FrontEndsStayAgreed`, `GemvTally`
and `LaunchSize` for the counts: a launch takes as many groups as its limit has
room for, and no more. What the verifier asks is asked of a whole program, so
`Own` (every MAC has a load of its size before it), `Paid` (every latch added to is
drained behind it, in every channel) and `Words` (the result words are a range,
each filled once) ask it of a stretch in a form that two stretches with it keep
when joined (`OwnConcat`, `PaidConcat`, `WordsConcat`): a pass has them
(`PassGood`), so a piece has (`PartGood`), so what is stacked has. `StackInv` keeps
them while pieces are pushed, with the first free result word as the end of the
range, and `WholeAccepted` gets every rule of `pim_prog_verify` and `Built` from
them at the end.

The machine is followed through any program that is `Sound`, instruction by
instruction (`Loads`, `Multiplies`, `Collects`, `Ends`): after r of them every
global buffer holds the vector loaded last, every latch the MACs since its last
drain (`Since`, `Held`) and every drained word what its RD_MAC was meant to return
(`StaysExact`). A sealed program is sound (`SealedSound`), which gives
`AnswersStayRight` for both builders. A program by hand can be accepted and still
load only some channels, drain only some, or reuse a result word further back than
the verifier remembers: `HandCareful` says that no accepted program over the
alphabet does, and `CarefulAnswers` is the statement without it, asking `Careful`
only of the program at hand. `CutsStaySafe` needs no more than `CutInv`: an atom is
a run B behind a run A that owes nothing (`Atom`), B accumulates only before it
drains, and one of its sums, in the last channel of its last latch, is not out
before its last ISR (`Tied`, `PassTied`); `MappedAt` says where pass 2 puts the two
ends. Both hold of programs of one latch on any image, and of programs of two on one
that decodes both (`Decodes`): an image that ties latch_sel adds them together.

`AnswersStayRight` says that a word holds the sum it was meant to;
`ProductsStayRight` says which products that sum is of. Its invariant `ServeInv`
keeps two things of every piece while others are stacked: the vector buffer still
holds its slice (`InBuffer`), and between two drains of a latch into a word there is
one MAC per chunk of the slice, in the row of its group and chunk, on the vector
words loaded for that chunk (`RightGroup`). Both survive what is put in front and
behind (`RightBehind`, `RightStays`), because every latch is drained before the next
pass begins (`Paid`). At done the MACs behind a word are turned into beats and lanes
(`BeatOf`, `TermIs`): the address formulas of the placement (`Offset`) and of the
schedule (`SlicePart`) meet in `FedIs`, and every element of the slice is multiplied
once, since the chunks of a slice lie in rows of their own (`RowsDiffer`). It needs
what the theorem names: every unit of the tensor has a row (`Placed`), and
`BeatAligned`, a row of at most the 64 beats one MAC covers (a row has 1024/16) and
slices that begin on a beat. `pim_matvec.h:32-34` takes the second for granted, and
`Offsets = {1}` in `programs` shows what becomes of the product without it (see the
table above); `programs.cfg` satisfies both.

`ProgramsAssumption` asks that tensors are laid out by
`pim_tensor_plan` and that no limit is above IMEM, which is what
`pim_exec_max_isrs` returns.

### Only model-checked

Liveness and deadlock freedom of whole runs (`EveryCallReturns`, `RungIsRun`),
which are out of the prover's reach. The answers of whole calls that upload, launch
and collect (`GemvAnswers`, `RightAnswers`, and `NeverRefused` with them): their
programs are covered by the theorems above, the host's sums over launches and
batches are folds over the number of groups or pieces. `LegacyAnswers` and
`AttentionExact`, whose programs are built by recursion over groups and chunks.
`LosesOnlyLastPlaces`, whose rounding multiplies and
divides by powers of two that vary.

## Not modelled

GET_INFO, and the vbase list and text of `/proc/pim`; `pim_track_owners` off;
`max_xfer` splitting; violation counters, timing registers, the disassembler;
capture, dump and timing of `pim_gemv.c`; statistics; AXI handshakes, the GPR
wrapper and the violation CSR of the RTL, whose properties are waveforms;
`pim_golden.c`, a second reference in host floating point; `pim_layout.c` and the
register transport of the legacy runtime; the Python model and attention layer,
which calls what `PimOp` and `PimKv` model and keeps no state of its own;
probes, tests and setup scripts. `PROJECT.json` says per component what is left
out.

## Plan

Done in this order: `PimLedger` and its composition and abstract specification,
its proofs; `PimPool`; `PimIsr`, `PimEngine`; `PimTensor`, `PimTokens`, `PimKv`;
`PimMatvec`, `PimPrograms`, `PimOp`; `PimDefault`; `PimGeometry`, `PimBoard` and
their proofs; `PimGemv`; `PimMac`, `PimBank`; `PimLegacy`, `PimLegacyKv`; failing
transfers in `PimOp`; the proofs of `PimCallers`, of the refinement of
`PimOwnership`, of `PimPool`, `PimDefault` and `PimEngine`, of tensors, of the
refinement of `PimTokens`, of `PimKv`, of `PimBank`, of the legacy heap and of
the programs the builders make.

Next, modelled:
1. The calls one attention layer makes on `PimKv` and `PimOp`, so that a launch
   reads frontier and tail in the same run.
2. Tags as allocator state: retagged by free and by a batch, seen by lowering.

Next, proved:
1. `GemvAnswers`, over the launches of one call: `ProductsStayRight` has the
   products behind one program, and what is left is the host's sum over launches.
