# TLA+ verification of the TLB Analyzer

The TLB Analyzer measures what nested paging would cost. A **tracer**
(`src/tlb_trace.c`), compiled into an Android emulator or linked as a library,
models a main TLB and writes one 4-tuple to a trace file for each miss of it. A
**simulator** (`src/tlb_sim.c`, driven by `src/main.c`) replays the traces
against nested TLBs (NTLB) and page walk caches (PWC) and counts hits, misses
and memory accesses. The numbers are the product: a wrong victim, a stale entry,
a lost tuple or a miscounted access changes the result and nothing crashes.

## The parts of the system

| Part | Source | Module | State |
|---|---|---|---|
| Main TLB | `tlb_trace.c` 68-110, 141-191, 274-297, 332-363 | `SetAssoc`, `MainTlb` | modelled, proved |
| Its policy, abstractly | | `LRUCache`, `MainTlbLRU` | refinement checked and proved |
| Trace file and buffer | `tlb_trace.c` 113-129, 286-291, 305-311 | `TraceBuffer` | modelled, proved |
| Tracer API and its two clients | `tlb_trace.c`, `tlb_trace.h` | `Tracer` | modelled, proved |
| Simulator | `tlb_sim.c` 74-404 | `SetAssoc`, `Simulator` | modelled, proved |
| Trace selection, driver | `tlb_sim.c` 406-468, `main.c` | `Driver` | modelled, refinement proved |
| Page walks | `tlb_trace.c` 211-262, `qemu/target-arm/helper.c` | `PageWalk` | modelled (ARMv6 tables), proved |
| Software TLB and hooks of the emulator | `qemu/softmmu_*.h`, `tcg-target.c`, `exec.c`, `cpu-exec.c`, `target-arm/*`, `android/qemulator.c`, `vl-android.c` | `EmulatorTlb`, `Tracer` | modelled, proved |
| Asynchronous disk I/O of the emulator | `qemu/posix-aio-compat.c`, `aio-android.c`, `async.c`, `block.c` | `AioPool`, `AioService` | pool and contexts modelled, refinement proved |
| The rest of the emulator (devices, SDL, zlib, ...) | the rest of `src/qemu` | | not modelled |

The emulator is some 1500 vendored files that host the tracer. Modelled of it are
the part that decides what the tracer sees and the one subsystem of it that has
threads, signals and nested waiting in a small amount of code. Most lines of the
repository are therefore not modelled.

How the parts interact. The emulator runs guest code; an access that its software
TLB does not satisfy inline passes a hook, which calls the tracer with the page,
and the tracer looks it up in its main TLB. On a miss the tracer walks the guest's
page table and records a tuple. Much later, and in another process, the driver
picks trace files and the simulator replays them.

## Modules

* **`SetAssoc`** is the search-and-refill loop that the tracer has once and the
  simulator five times: the slots visited (`Ways`), the match, the victim, and
  the updates. The loop starts its search for a victim from `mi = 0`, the first
  slot of the *table* rather than of the set; `Victim` keeps that. `Stamp` keeps
  the truncation of the 64-bit `systs` to the 32-bit `ts`.
* **`MainTlb`** has `sl_tlb`, `last_ins_idx`, `systs`, `sl_cnt` and the geometry
  as variables and one action for each function that touches them.
  `tlbtrace_refmem_sl` is three disjuncts: the fast path for instruction
  fetches, a hit of the search, a miss with the refill. A fresh `malloc` block
  holds any entries of `Garbage`. A fast path index beyond the table may compare
  equal or not. `halted` is `exit(0)`. Three history variables (`live`, `last`,
  `streak`) let the properties speak of the past.
* **`LRUCache`** is a fully associative LRU cache without slots. **`MainTlbLRU`**
  maps the table of one set to it.
* **`TraceBuffer`** is `fbuf`/`fbc`/`fout` with the files; **`Tracer`** composes
  it with `MainTlb`. Each API function is one action: a miss includes the page
  walk, the tuple and the write of a full buffer; the miss that reaches the
  limit includes `tlbtrace_stop` and `exit`, and its tuple is not built. Two
  clients are modelled. The *emulator* initialises once, toggles on F10 and
  reports references (in user mode, under the current ASID) and CP15 c8
  invalidations. The *library* follows the order of `tlb_trace.h`. It may call
  init and destroy at any time and does not mix start/stop with toggle in one
  session. The page walk returns any member of `Walks`.

  The emulator's one call is `tlbtrace_init()` without arguments
  (`vl-android.c` 4168-4169), while `tlb_trace.c` 332 takes a size, a set and a
  callback. (`Makefile.target` 165 builds a `target-arm/tlb_trace.c` that is not in
  the repository.) What arrives as size and set is undefined. `EmulatorInit` is
  therefore a choice: some geometry, or a size for which `malloc` returns no table.
  The remaining outcomes end the process (a set of 0 divides by zero) or hang it (a
  set above the size makes the step 0) and have no successors in the model.
* **`Simulator`** runs one simulation at a time: the function of an organisation
  sets the geometry and calls `flush_all`, each tuple read is one step, `Finish`
  stores the result. `emulate_*` are operators on a record of the statics.
  The code has separate static tables for each organisation. Only those of the
  running one are used and `flush_all` resets all of them, so one NTLB and one
  PWC stand for them. `desc_miss` is history: the guest descriptors that were not
  in the PWC. A simulation begins with a result of zeros. `tlbsim_sim` provides
  one; a direct caller of an organisation's function may not, and then finds in the
  fields of the other organisation's cache what it left there itself.
* **`Driver`** extends it by `tlbsim_sim` and `main`: names are selected by
  `strstr` of `_SIZE.WAY`, at most `MaxTraceFiles` of them in the order of
  `readdir`, sorted, simulated one after the other, and returned as a list. A
  name is a record of what the code tells apart. A client may also call the
  functions of the organisations itself.
* **`PageWalk`** has both walks of the guest's page table, operator by operator:
  the emulator's `get_phys_addr` (with `check_ap`), which decides what an access
  does, and the tracer's `get_ptes`, which decides what the trace says of it. The
  second table base and the split between the two tables (`c2_base1`, TTBCR) are
  constants.
* **`EmulatorTlb`** is the software TLB (`tlb`, one table for user and one for
  kernel accesses), the jump cache of translated blocks, and the helpers that
  translated code calls when its inline test fails. All of these work on the
  target's pages of 1 KB (`TARGET_PAGE_BITS` is 10, `cpu.h` 446); descriptors and the
  tracer have pages of 4 KB, and `MmuPage` leads from one to the other. A fill enters
  1 KB, an invalidation by address (c8, operation 1) drops 1 KB of the TLB and 4 KB
  in the tracer. A helper's list of pages still
  to be found is `pc.todo`; each "goto redo" is one step. Accesses that pass the
  inline test change nothing and are not reported, so they are not actions:
  `UnhookedIsReported` is about the states in which they are possible. The
  guest's kernel writes descriptors and the registers c1, c2, c3, c8 and c13. It
  obeys the architecture: it does not use a page between changing and
  invalidating its descriptors (`stale`), nor user pages between the two writes
  that switch the address space (`Usable`). A write makes a page stale when some
  translation of it that worked, for some rights, kind of access and mode, is no
  longer what a walk finds (`Outdated`): a new mapping where there was none needs
  no invalidation, a change of permissions does. `silent`, `reported`, `changed` and
  `forgotten` are history. The last two are about what operation 1 leaves behind:
  `changed` has each 1 KB whose translation changed until an invalidation reaches
  *it*, and `forgotten` the rest of a page that the tracer has dropped by address.
* **`AioPool`** is the thread pool. A step is a critical section of `lock`
  together with the main thread's accesses to what no other thread reads. The
  main thread is a `stack` of the functions it is in, because callbacks nest
  (a callback may read synchronously, which waits and runs other callbacks).
  Workers take, time out, exit, and signal; the signal handler writes to the
  pipe; `qemu_aio_wait`, `qemu_aio_flush` and `paio_cancel` wait for them.
  **`AioService`** is what its clients may rely on, without any of that.
* The lemmas and theorems are in modules of their own: **`MainTlbProofs`** (main
  TLB and tracer), **`MainTlbLRUProofs`**, **`SimulatorProofs`** (simulator and
  driver), **`EmulatorTlbProofs`** (software TLB and page walks), and for the pool
  **`AioServiceProofs`** (the invariants and the workers), **`AioPoolProofs`** and
  **`AioMainProofs`** (the steps of the main thread) and **`AioProofs`** (the
  theorems).
* **`MC*`** give the constants values; `MCSetIndex` is the real `n & (step - 1)`.

A definition named `X_Something` that is introduced as a mutant is a faulty
variant of `X`. No specification uses it. Replacing `X` by it shows that the
properties can fail.

## Runs

| Run | Shows | Result |
|---|---|---|
| `main_tlb` | placement, no duplicates, no stale hit, at most two misses in a row, the last reference survives, counters | passes, 340 k states |
| `main_tlb_lru` | one set implements `LRUCache` | passes, 44 k |
| `tracer` | the trace is complete, one tuple per miss, the buffer is not overrun, the hooks are safe | passes, 379 k |
| `simulator` | accesses and look-ups match the work done, no organisation is dearer than no cache, cold start, caches keep their geometry; up to the limit each trace asked for has one result, in order, and the call returns | passes, 407 k |
| `emulator_tlb` | TLB and jump cache are not out of date where the guest has invalidated, what escapes the hooks was reported before, the two page walks agree, no store is done in part, every access ends | passes, 126 k |
| `aio_pool` | counters, no stranded request, one owner per block, callbacks in their context, no lost completion, `AioService` implemented, every request and every wait ends | passes, 144 k |
| `refill_strays` | "miss and refill with LRU policy" | violated |
| `stamp_wraps` | the same comment, with truncated time stamps | violated |
| `table_shrinks` | start "first reset all states of the tracer" | violated |
| `enabled_lies` | `tlbtrace_enabled`: "0 indicates the tracer is not running" | violated |
| `same_minute` | start "creates a new trace file" | violated |
| `entry_invalidation` | "Invalidate single TLB entry." | violated |

The violations are disagreements of code and documentation:

1. **Refill outside the set.** A page of set *s* whose slots are all at least as
   new as slot 0 is refilled into slot 0. The search for set *s* never visits
   slot 0 (for *s* > 0), so the next data reference to that page misses again,
   and an entry of set 0 has been evicted. `ThirdTimeHits` is what remains true:
   the second refill lands in the right set. The simulator's five copies of the
   loop do the same. With one set there is no such case (`main_tlb_lru`).
2. **Time stamps wrap** after 2^32 references (the tracer stops at 1.5 * 10^11):
   then the entry just used has the smallest stamp and is the next victim.
3. **`last_ins_idx` survives `tlbtrace_start` and `tlbtrace_init`.** After an
   init with a smaller table, the fast path reads beyond it.
4. **`tlbtrace_enabled` reports toggles only**: 0 while a tracer started with
   `tlbtrace_start` runs.
5. **A second session in the same minute** opens the same name with `O_TRUNC`.
6. **Invalidation of a single entry** (c8, operation 1, `helper.c` 1627) drops the
   1 KB the address is in. A page of 4 KB that was used at several of its parts keeps
   the other entries, with the old frame and permissions, and so does the rest of a
   large page or section. `TranslationsCurrent` and `UnhookedIsReported` say what
   remains true.

Disagreements that have no run of their own:

* `tlb_trace.h` 34: an odd result of the walk is a page fault. `get_ptes` returns 1
  for a fault at the first level and for a section, 2 for a fault at the second level
  and 3 for a completed walk. The comment at `tlb_trace.c` 119 says "2 if the walk is
  completed". `tlb_trace.h` 37: *pa* is the output address; for a section it is 0.
* `tlb_trace.h` 53-55: `tlbtrace_init` returns a negative integer on failure. It
  always returns 0. The emulator's call passes no arguments at all.
* `tlb_trace.h` 31: the file contains 4-tuples. The results of `write`
  (`tlb_trace.c` 126 and 306) are not looked at, so that after a short write the file
  may end within a tuple, and what is written later is out of step
  (`TraceCompleteHolds` has `~ ShortWrites` as a hypothesis).
* `tlb_sim.c` 256 and 261: "hit * 0 + miss * 3". The code of `emulate_pwc3` counts
  one access per miss, as the description at `tlb_sim.h` 97-98 says, and so does
  `AccsMatchMisses`.
* `tlb_sim.h` 26, 130 and 132: all traces, each trace file one by one. The list ends
  at 128 files, in the order of `readdir` and before the sort. `tlb_sim.h` 136: the
  size filters the files. `strstr` (`tlb_sim.c` 428) lets `_64.16` pass for `_64.1`.
  `ResultsInOrder` says what remains: the results are selected files in strict
  order, and up to the limit every file asked for is among them.

What the emulator's modules say about the trace, beyond the properties:

* An access that translated code satisfies inline is not reported, although the
  comment at `softmmu_template.h` 113 reads as if every access were.
  `UnhookedIsReported` bounds the loss: the page was reported before, under the same
  ASID, since the start and since the last invalidation the tracer was told of,
  unless that was of a single entry in another part of its 4 KB. The recency of the
  main TLB's entries is thus older than the guest's.
* Not even that holds of the second page of an access that crosses pages, nor of
  pages filled by LDRT and STRT of the kernel (`silent`). Thumb code is not
  reported instruction by instruction. The translator's own reads of code are
  reported as data.
* A reference that faults enters the page in the main TLB, so that the retry hits
  and the successful translation is not in the trace.
* The frame of a section is not recorded. The low bits of a large page's frame are
  the descriptor's (`TraceMatchesTranslation` says "up to the low bits").
* Invalidation by MVA (c8, operation 3) flushes the emulator's TLB and is not
  forwarded to the tracer; the code prints that it is not supported.

### Bounds

* `main_tlb`: four slots as four sets of one, two sets of two and one set of
  four; three pages, so that both sets of two have pages, one of them more than
  it can hold with two ASIDs, and every set competes with set 0 for slot 0;
  two ASIDs, one of them the 0 that flushed entries carry; five references per
  session, which fill the table and evict, with restarts and flushes between.
  The limit (`StopAt`) is reached by the fifth reference.
* `main_tlb_lru`: three slots, four keys, five references: fills, hits that
  reorder, evicts and refills after flushes.
* `tracer`: a buffer of two tuples, so that four references fill it, write it
  out and leave a tail; two minutes, so that sessions share a file name or not;
  the limit is the fourth reference.
* `simulator`: walks that end at each level, descriptors in shared and in
  different frames and megabytes, caches smaller than the static tables, four
  tuples per trace, and any number of simulations one after the other. A
  directory with names out of order, of other sizes, with an associativity that
  only begins with the one asked for, and more of them than the cap of two; and one
  with fewer, where all that is asked for must come back.
* `emulator_tlb`, `entry_invalidation`: a TLB of two entries; a page of the guest's
  tables has two parts (`SubPages` is 2, in the code 4), enough for one part to be
  invalidated and another not. Parts 0 and 1 are of one page, parts 1 and 2, which
  accesses cross, of different ones, and parts 0 and 8 collide in the TLB. Two address
  spaces; small and large pages, sections and supersections, I/O memory, unmapped and
  read-only pages, and a page that changes its permissions but not its frame. A guest
  uses a few kinds of operations together; eight guests cover each kind and the
  pairs that interact (remapping with crossing stores, with execution, with LDRT;
  switching with MVA). Nothing else is bounded: the state space is finite.
* `aio_pool`: two threads, four blocks, up to three requests in flight, so that
  requests outnumber threads; synchronous reads by callbacks, also by one that runs
  during such a read (`MaxContext` is 2); one follow-up
  request per round of `main_loop`. The bound on follow-ups is needed because the
  scan starts again from the head of the list after each callback, and callbacks
  that always issue a request could keep it there.
* `TsMod` is above `MaxRefs` except in `stamp_wraps`, where it is 3.

Deadlock is not checked in the tracer runs: the process ends at the limit, and
the bound on references ends a session of the model. It is checked in
`simulator`, `emulator_tlb` and `aio_pool`.

### Fairness

Tracer and simulator are called synchronously and wait for nobody; the runs of
`MainTlb` and `Tracer` assume no fairness and claim no liveness. Elsewhere:

* `Driver` (`ListEnds`): weak fairness of the steps of the list. The simulator is
  one thread without waiting, and trace files are finite.
* `EmulatorTlb` (`AccessEnds`): weak fairness of the step of an access in
  progress: the emulator's thread does not stop inside a helper.
* `AioPool` (`RequestsEnd`, `MainReturns`): weak fairness of each worker (the
  kernel schedules it and its I/O finishes), of the delivery of a pending signal
  and of the main thread within an operation. Strong fairness of `MainSelects`:
  `main_loop` calls `main_loop_wait` after each `tcg_cpu_exec`, whatever device
  code does between. The time-out of an idle worker and what devices ask for are
  not assumed to happen.

## Proofs

All theorems hold for every set of pages, ASIDs, geometries, page tables,
threads and requests, every set index function below the step, every bound, and
any contents of fresh memory. The assumptions are the named ones of the modules:
addresses and bounds are naturals, associativity lies between 1 and the size, the
set index is below the number of sets, the buffer holds a whole number of tuples,
the software TLB has at least two entries, and no more threads are allowed than
there are and no more requests than blocks. `TablesAssumption` says of the page
tables that their words are descriptors, that a walk reads only them, and that a
second-level descriptor holds a frame. `OneSize` (all geometries the tracer is initialised with
have one size) excludes finding 3, and `NoWrap` (no time stamp is truncated)
excludes finding 2. Both are explicit hypotheses of the theorems that need them.

| Module | Theorems | Hypotheses |
|---|---|---|
| `MainTlbProofs` | `TypeCorrect` | |
| | `PlacementHolds`, `NoDuplicateHolds`, `HitIsLiveHolds`, `CountersAddUpHolds` | `OneSize` |
| | `ThirdTimeHitsHolds`, `MRUSurvivesHolds` | `OneSize`, `NoWrap` |
| | `TracerTypeCorrect`, `BufferHasRoomHolds`, `HooksAreSafeHolds`, `EveryMissRecordedHolds` | |
| | `TraceCompleteHolds` | `~ ShortWrites` |
| `MainTlbLRUProofs` | `ImplementsLRUHolds` | one set and no wrap (assumptions of `MainTlbLRU`) |
| `SimulatorProofs` | `SimulatorTypeCorrect`, `AccsMatchMissesHolds`, `LookUpsMatchWorkHolds`, `NeverDearerHolds`, `ColdStartHolds`, `CachesWellFormedHolds` | |
| | `DriverImplementsSimulator` | |
| `EmulatorTlbProofs` | `EmuTypeCorrect`, `TranslationsCurrentHolds`, `TraceMatchesTranslationHolds`, `UnhookedIsReportedHolds`, `NoPartialStoreHolds` | |
| `AioProofs` | `AioTypeCorrect`, `CountersMatchHolds`, `NoRequestStrandedHolds`, `OneOwnerHolds`, `ContextsIsolateHolds`, `CompletionIsNoticedHolds`, `ServiceSafeHolds` | |

*Main TLB.* `VictimFacts` says of the loop that its
victim is slot 0 or a visited slot older than slot 0, and that no visited slot is
older than the victim. Its core is that a non-empty set of naturals has a least
element, taken first of the time stamps and then of the slots.

`SafetyInv` adds two facts to the properties. `LastInsInBounds` is needed because
the fast path writes the slot it names. `ResidentIsLive` (whatever the table
holds was missed on after the last flush covering it) is what makes `HitIsLive`
inductive: a flush that missed a slot breaks it at once, a hit only later.
`ReferenceStep` says what a reference does to the table, once for all conjuncts;
`SafetyStep` has one step for each action.

`Recency` is the invariant about time: used slots have distinct stamps, none
above `systs`, and the slot of the last reference has the stamp `systs`. So
slot 0, when just refilled for another set, is newer than every slot of that
set, and the next victim is one of those slots. That is why `streak` never
reaches 3, and with it `MRUSurvives` follows.

*LRU refinement.* `Stamped` (a slot is used if and only if its stamp is positive)
joins `SafetyInv` and `Recency` in `TableInv`. With unique keys, the cached keys
are as many as the used slots, so that the cache is full when no slot is free;
the victim of the loop is then the oldest key. `StepMaps` has one step for each
action of `MainTlb`, a stutter or a step of `LRUCache`.

*Tracer.* `ControlInv` ties the table, buffer and file to `started` and to the
client's place in its protocol; `BufferInv` keeps `fbc` a multiple of four below
the size, which with a size that is a multiple of four leaves room for a tuple.
For the emulator without a geometry only the file and the buffer are claimed
(`NoGeometry`). `StepKind` says what each of the client's calls does to the file and
the buffer together: nothing, a reset, or one tuple more.

*Simulator.* A look-up changes one slot (`OneSlot`), keeps every other entry where
it can be found and known to this simulation (`Good`), and adds a line to a
`Ledger`: look-ups, misses, guest descriptors that missed, and accesses. `Kind` says
what each organisation makes of them: EPT walks and NTLB look-ups are as many as
missed descriptors and final addresses, and with an NTLB the EPT walks are its
misses. `Cost` adds the lines up for the walk of each organisation. The three
properties about counters are sums of ledgers; `ColdStart` and `CachesWellFormed`
follow from `Good`.

*Driver.* Each step of the list is a step of the simulator or leaves it alone, so
that `DriverSpec` implies the specification of `Simulator`, and all theorems about
one simulation hold in each of a list.

*Software TLB.* `EmuInv` adds three facts. An entry sits in the slot of its page
(`TableOK`), else an invalidation would miss it. A block lies on one page or on
two adjacent ones (`BlocksOK`), else dropping the blocks that begin on a page or
on the one before would not be enough. And `RequestOK` lists the stages of an
access: on the second page, the first is still in the TLB, because adjacent pages
have different slots (`NextIndex`), and if a block is being translated it was
reported. An invalidation by address needs one thing more, that the TLB and the jump
cache hold only pages the guest uses, so that all parts it leaves behind are in
`forgotten`; that is part of `CurrentInv`. `UnhookedIsReported` and `NoPartialStore`
follow, and the page walk stays opaque in their proof.

`CurrentInv` is about the walk. An entry of the TLB has the frame and the
permissions that a load would find now (`EntryOK`), and a block the frames
(`BlockOK`), unless the guest has yet to invalidate that 1 KB (`Fresh`). Both speak
of the registers as they are when the address space is not being switched
(`Here`): the write of the table base (c2) does not flush, only that of the context
(c13) does, and between the two the TLB still holds the old space, that of `asid`.
`TodoOK` says that an
access in progress is on pages the guest may use, so that what it fills is fresh.
Two lemmas know what a walk does. `WalkFacts` says that the frame and the
permissions of a walk that succeeds do not depend on the kind of access, so one
fill serves loads, stores and fetches; `TraceFacts` compares `get_ptes` with
`get_phys_addr`, descriptor type by descriptor type. A write to a descriptor keeps
each translation or makes its page stale, which is the definition of `Outdated`.

*Thread pool.* `PoolInv` has the lists, the workers, the stack and the contexts.
The depth of the stack in synchronous reads is `async_context`; the counters are
cardinalities of the sets of threads that are alive and idle; a thread waits or
exits only when it has seen an empty list under the lock; and a submission leaves
`cond_signal` to be done with somebody alive to receive it.

`ServiceInv` adds what the clients rely on. Frames of the stack follow each other
only as the code's calls allow, and a callback's context is the number of reads
around it (`Nesting`). A block is free, listed or in its callback, and on the
queue until a worker takes it (`Owned`). Workers at their I/O and blocks in
progress are paired (`Working`), and a block that is waited for by `paio_cancel`
stays listed (`Cancelling`). `Chains` is what makes the refinement go through: no
request belongs to a deeper context than the current one, a synchronous read has
one request at a time, and none once it is done. So when its wait ends, nothing of
its context is left, and the context can be popped. Each action is shown to keep
`ServiceInv` and to be a step of `AioService` or a stutter.

`Noticing` adds why no completion is lost. A finished request of the current
context has a signal or the pipe on its way, the bottom half of its context, a
scan on top that has not passed it, a cancel that waits for it, or a scan further
down with no synchronous read above it. That last scan will begin again from the
head of the list (`FromHead`), because it is inside a callback. A scan therefore
passes only requests that are not finished or belong to another context, and for
those `async_context_pop` schedules the bottom half.

Model-checked only:

* Liveness (`ListEnds`, `AccessEnds`, `RequestsEnd`, `MainReturns`), which is out
  of reach of the proof system.
* `ResultsInOrder`: what the sort and the selection return needs induction over
  sequences, also out of reach.

## Not modelled

* Most of the emulator: devices, display, the translator itself, block formats.
  Only what the table above names is modelled.
* Of the software TLB: the flags for dirty tracking, watchpoints and memory
  checking; FCSE and ARMv5 tables, which `get_ptes` does not know either. The
  jump cache drops a block when another takes its slot; the model keeps both,
  which only allows more.
* Of the pool: the I/O itself. An error `ECANCELED` from the I/O would release a
  block without its callback; the model's I/O does not return it. `ev_signo` is
  read after the unlock, and is the same for all requests.
* `tlbtrace_init(...)` with a size below the associativity (the step is then 0
  and the loop does not end) or associativity 0 (division by zero), and simulated
  caches above 512 entries: the API states no bounds and checks none. The
  assumptions exclude them.
* Failure of `malloc` (but for the emulator's table), `open` and `fopen`. None is
  handled.
* Exit of the emulator while tracing: the tracer is not called, and the tail of
  the trace is lost.
* Printing.

## Plan

Done: all parts of the TLB Analyzer's own code, the emulator's side of tracing,
and the thread pool, with the proofs above. Left is to follow a reference through
`EmulatorTlb` and `Tracer` together, to state how the order of misses in the trace
differs from the guest's.
