# TLA+ models of the ristretto cache engine

This directory holds TLA+ models of the Go sources under `src/`. It has
specifications, TLC configurations that model-check them, and TLAPS proofs.
`PROJECT.json` lists the components, the runs, the mutants that show each
property can fail, the source lines each definition models, the findings, the
hazards and the theorems.

## The system and what is in this tree

The repository is a snapshot of several versions of ristretto, so its parts
do not all come from one version.

| Part | Source | State | Operations |
|---|---|---|---|
| Cache coordinator | `src/cache.go` 17-113 | `data`, `policy`, `buffer`, reset counter `used`/`size` | `NewCache`, `Get`, `Set`, `Del` |
| Store | `src/store.go` | a `sync.Map` (`syncMap`, the default) or a Go map under a `sync.RWMutex` (`lockedMap`) | `Get`, `Set`, `Del`, `Run` |
| Policy (TinyLFU + sampled LFU) | not in tree, spec 4.1/4.2/4.5 | key->cost map, `used`, CM4 sketch, doorkeeper, mutex | `Add`, `Del`, `Push`, `Res`, `Cap` |
| Ring buffer (BP-Wrapper) | not in tree, spec 4.4 | striped lossy buffers | `Push` |
| Expiration wheel | `src/unnamed/part_001` (ttl.go) | bucket number -> (key -> conflict), under an RWMutex | `Add`, `Delete`, `CleanUp` |
| Sharded conflict-aware store | not in tree, spec 4.3; tests in `src/unnamed/part_000` | 256 locked maps of items with conflict and expiration | `Get`, `Set`, `Update`, `Del`, `Clear` |
| SuperFlag option parser | `src/cache.go` 114-272 (z/flags.go) | `map[string]string` | `parseFlag`, `NewSuperFlag`, `MergeAndCheckDefault`, `Has`, `Get*` |
| z.Buffer tests | `src/cache.go` 273-570 | none (z.Buffer is not in tree) | tests only |
| calloc shim | `src/z/calloc_nojemalloc.go` | atomic `numBytes` | `Calloc`, `Free` |
| Benchmark wrappers and cache tests | `src/bench/cache.go` | wrappers around third-party caches | `Get`, `Set`, `Del` per wrapper; `TestCache*` |

How the parts interact:

- `Cache.Get` pushes the key into the ring buffer, which may drop it or pass
  it on to the policy's sketch, and then reads the store.
- `Cache.Set` runs in the caller's goroutine (cache.go lines 86-104). It calls
  `policy.Add` under the policy mutex. If the key is rejected it returns. If
  admitted, it deletes each victim from the store and decrements `used`, then
  writes the store. Last, it increments `used`; when the increment returns
  exactly `size`, it stores `size/2` and calls `policy.Res`.
- `Cache.Del` calls `policy.Del`, then `data.Del`.
- None of these calls is atomic as a whole. Their steps interleave across
  goroutines.
- The expiration wheel is filled by the writer that sets items with an
  expiration. A ticker drives `CleanUp`, which detaches the previous bucket
  under the wheel's lock. It then deletes each key from the store outside
  the lock and reports it to `onEvict`.

## Modules

- **`Cache.tla`**: the coordinator, the store and the policy.
  - Variables:
    - `data`: the store.
    - `keyCosts`, `costUsed`, `sketch`, `door`: the policy's map, its cost
      counter, its frequency counters and its doorkeeper.
    - `plock`: the policy mutex.
    - `used`: `Cache.used`, kept modulo `UsedModulus`.
    - Per goroutine: `pc`, `args` (the call's arguments) and `victims` (the
      victims not yet deleted from the store).
  - Each call is split where the code's atomic boundaries are:
    - `Get`: one step. The push either reaches the policy (`Increment`) or is
      dropped, which is a stutter.
    - `policy.Add` is one step with four outcomes: `SetUpdate`, `SetAdmit`,
      rejection (a stutter), and `SetStartEvict`, which enters the eviction
      loop.
    - The loop runs one iteration per step, holding `plock`: `SetEvictOne`,
      `SetEvictAdmit`, `SetSampleReject`.
    - Then one step each for every victim delete (`SetEvictVictim`), for
      `data.Set` (`SetStore`), for the atomic add (`SetIncr`), the reset
      store (`SetReset`) and `policy.Res` (`SetRes`).
    - `Del` is `DelPolicy` then `DelData`.
  - The policy is modelled from spec 4.5:
    - A tracked key's cost is updated without eviction. The spec's step 1
      only says "possibly", and this is the reading the coordinator's early
      return on a re-Set relies on.
    - The sample is any `min(LfuSample, |tracked|)` tracked keys. Ties are
      broken nondeterministically.
    - The sketch is one saturating counter per key; hashing and the four rows
      of the CM4 are abstracted away.
  - `MCCache.tla` gives `UsedModulus` the value 16, standing in for 2^64,
    and declares the symmetry of goroutines and keys. Symmetry is sound
    because no definition names a particular goroutine or key.
- **`TTL.tla`**: the expiration wheel, with the writer and the sweeper that
  use it.
  - Time is whole seconds from a minute boundary, and `timeToBucket(t)` is
    `(t % 60) \div BucketSizeSecs`, as `t.Second()` gives.
  - The writer's `Set` and `Del` are spec-modelled (spec 4.3, 4.6). They run
    under the store's lock, so each is one step. A Set moves the key from
    its old expiration's bucket to the new one.
  - `Tick` advances the clock and fires the ticker at phase `TickPhase`.
  - `CleanUpDetach` is lines 77-82. `CleanUpKey` is one iteration of lines
    84-90.
  - The clock does not advance while a CleanUp is pending. This models a
    sweeper that keeps up with its ticker, the assumption under which the
    spec's removal bound can hold at all.
- **`Store.tla`**: the two implementations of the store interface.
  - `impl` is chosen at `Init`: `newSyncMap` or `newLockedMap`.
  - syncMap: `SyncWrite` is `Store` or `Delete`, one atomic step. `SyncRun`
    starts `Range`, which takes every key once as a candidate and passes it
    to `f` if it is present when reached. Concurrent writes are allowed.
  - lockedMap: the RWMutex is modelled with Go's writer preference.
    - `LockedAnnounce` is `Lock` taking the writer mutex and announcing
      itself (`wpending`). From then on, new `RLock` calls wait.
    - `LockedWrite` waits until no goroutine holds a read lock. It then
      assigns or deletes and unlocks, all in one step, because nothing can
      interleave with a held write lock.
    - `Get` is a call, then an RLock-read-RUnlock step.
    - `Run` takes the read lock (`LockedRunRLock`), visits the keys present
      (`RunVisit`), and releases the lock when it returns (`RunEnd`). It
      returns when `f` returns false or when every key has been visited.
  - For the implementations in `ReentrantImpls`, the callback calls `Get`
    on the store it iterates (`CallbackGet`). For lockedMap this is a
    recursive `RLock`.
  - Get's return value is not modelled, because it changes no state.
- **`SuperFlag.tla`**: `parseFlag` and `MergeAndCheckDefault` as a state
  machine, one loop iteration per step, with Go's random map order as a
  nondeterministic choice.
  - A flag string is abstracted to its segments: blank, bare (no `=`), or a
    pair of a raw key and a value.
  - A raw key is a name in some spelling. Normalisation (lines 132-134) maps
    every spelling to the name.
  - `RefParse`, `RefMerged` and `RefPanics` are the reference: closed-form
    definitions of what the functions should return.
  - The typed readers (lines 187-272) are operators on `m`: `GetString`,
    `Has`, and `GetBool`, `GetFloat64`, `GetInt64`, `GetUint64`, `GetUint32`,
    each returning its zero for an empty value and otherwise the strconv
    parse, or `Fatal` (log.Fatalf). A value is a text, a sequence of
    one-character strings. `ParseUint0`, `ParseInt0`, `ParseBool` and
    `ParseFloat` do what strconv does on the alphabet `0 1 8 x t -`: the
    base-0 prefixes, the Horner loop with its digit check, the sign, and
    ParseFloat's decimal reading (with no octal and no hex without a `p`
    exponent). `MCSuperFlag.tla` gives the texts. No run checks the
    readers against a reference; they record how the merged text is read,
    and the octal reading of a zero-padded value is a listed hazard.
  - `String` is left out: it only formats the panic message.
- **`Bench.tla`**: the six benchmark wrappers of `src/bench/cache.go`
  (lines 32-326), behind the `Cache` interface, under concurrent goroutines.
  - `wrapper` is chosen at `Init` by one of the constructors
    (`NewBenchRistretto`, ... `NewBenchGoburrow`).
  - The five thread-safe libraries are a key set `cache` that may drop any
    key on its own (`LibEvict`). Their capacity, expiry and admission
    policies are not in this tree.
  - A Set is `LibSetCall`, then with tracking the wrapper's check step
    (`BigCacheSetCheck`, ...), which logs a Hit or a Miss, then the write
    step (`RistrettoSet`, which the library may drop; `FreeCacheSetWrite`,
    which ends the benchmark through log.Panic for a large value; ...).
  - A Del is one step per wrapper. `BigCacheDel` of an absent key sets
    `panicked` (log.Panic).
  - BenchBaseMutex holds groupcache's `lru.Cache`, which is not safe for
    concurrent use, as an exact recency list `lru`. Get and Set take the
    mutex `mu` (`MutexLock`), make their LRU calls, and release it
    (`MutexLeave`). Del calls `lru.Remove` without the mutex
    (`MutexDelEnter`, `MutexDelLeave`). `LruGet`, `LruAdd` and the Del
    unlink the key's one list element, as `lru.Cache`'s map points at it
    (`RemoveFirst`). Two goroutines inside the LRU at once are a data race. Its outcome is undefined: `lruRaced` is set, and
    the list may be any list from then on.
- **`AtomicStore.tla`**: what the store interface promises, as an atomic
  store. It has the map `data` and, per goroutine, `iter`: the copy of the
  map its Run iterates, or `None` outside Run. `Write` (Set or Del) happens
  only while no Run is in progress. `RunBegin` copies the map, and `RunEnd`
  drops the copy. `Store.tla` maps onto it with `runIter`: a goroutine's
  snapshot while it is inside lockedMap's Run (its loop or its callback),
  and `None` otherwise.
- **`CacheProofs.tla`**, **`StoreProofs.tla`**, **`TTLProofs.tla`**,
  **`BenchProofs.tla`**: the TLAPS proofs about `Cache`, `Store`, `TTL` and
  `Bench`.

## Runs

| Run | Expect | What it shows |
|---|---|---|
| `cache_sequential` | pass | With one goroutine and unit costs, the store holds exactly the tracked keys after every call. This covers admissions, evictions, Res and counter saturation (CounterMax 15). |
| `cache_concurrent` | pass | With two goroutines and costs 1 and 2, the policy's counter equals the sum of the costs in its map (`CostAccounting`) in every interleaving of Sets, updates, evictions and Dels. |
| `cache_rejected_admission` | violation | A cost-2 key evicts a cost-1 victim, then is rejected. Cache.Set returns without deleting the victim. |
| `cache_set_del_race` | violation | A whole Set of k1 (`policy.Add`, `data.Set`) runs between a Del's `policy.Del` and `data.Del`. The key ends tracked by the policy but gone from the store. |
| `cache_double_reset` | violation | A victim decrement lets a second Set see `used == size` before the first has stored `size/2`. |
| `ttl_within_minute` | pass | Seconds 0-44, TTLs 0, 3 and 7, two keys, two conflicts, concurrent Set/Del/CleanUp. Every expiring item leaves the store within 2 bucket widths. |
| `ttl_last_bucket` | violation | An item expiring at second 55 is never cleaned. |
| `ttl_cleanup_race` | violation | A Set between the detach and the delete loses its fresh item. |
| `superflag_merge` | pass | All user and default strings of up to 2 segments, over 2 names, 2 spellings and 5 values (empty, `1`, `010`, `-1`, `0x1`), with and without a nil receiver. The merge equals the reference and panics exactly when the reference says so, in every map order. |
| `store_rwmutex` | pass | Both store implementations with two goroutines and two keys; syncMap's Run callback reads the map. A lockedMap Run always iterates the map it locked (`LockedRunSeesSnapshot`). No deadlock occurs. |
| `bench_wrappers` | pass | All six wrappers, two goroutines, three keys, a small and a large value, tracking on, LRU capacity 2, at most 3 Sets. Sets log at most once each (`TypeOK`). Whenever two goroutines are inside the LRU, one is in Del: the mutex keeps Gets and Sets apart (`OnlyDelRaces`). Under the fairness below, every call returns unless log.Panic ended the benchmark (`CallsReturn`). |
| `store_reentrant_run` | violation | A lockedMap Run callback that reads the map: Run holds RLock, a Set announces itself, and the callback's RLock then waits for the writer, which waits for Run (`NoReadLockCycle`). |

### Bounds, and why they are enough

- **`cache_concurrent`**:
  - Two goroutines are the fewest that can interleave.
  - Three keys with a budget of 2 and costs {1, 2} make the policy full.
    This gives single and multiple evictions and rejections.
  - `NumCounters = 3` makes a reset reachable.
  - `CounterMax = 1` keeps the frequency counters small, yet lets every
    comparison outcome (below, equal, above) occur. Saturation at 15 is
    checked in the sequential run.
- **`UsedModulus = 16`**: larger than `size`, so the equality test behaves as
  with 2^64. It still exercises the wrap below zero.
- **`ttl_within_minute`**: runs to second 44, so expirations reach second 51
  and every bucket 0-9 is filled and cleaned. `TickPhase = 2` makes the
  ticker fire mid-bucket, as a real ticker started at an arbitrary time
  does.
- **`bench_wrappers`**: two goroutines are the fewest that can contend for
  the mutex or race on the LRU. Capacity 2 holds a recency order, and a
  third key makes `lru.Add` evict. The keys give hits, misses and Dels of
  absent keys. `MaxSets = 3`
  bounds the Sets only: Gets and Dels are unbounded, so a goroutine can be
  overtaken forever, which is what strong fairness rules out.
- **`superflag_merge`**: two segments per string already give duplicates,
  unknown keys, blanks, and bare segments before and after pairs. Two names
  give both orders of both loops. The five values give an empty option and
  four distinct non-empty texts, so merged maps differ by value as well as
  by key.

## Properties

Per module:

- **`Cache`**:
  - `TypeOK`.
  - `StoreTrackedWhenIdle`: with no call in flight, the store holds exactly
    the keys the policy tracks.
  - `CostAccounting`.
  - `SingleResetTrigger`.
- **`TTL`**:
  - `TypeOK`.
  - `ExpiredRemovedInTime`: spec property 7.
  - `NoPrematureRemoval`: an action property, from spec 4.6.
  - `SweptKeysUntracked`: from spec 4.6 (not run; see below).
- **`SuperFlag`**:
  - `TypeOK`.
  - `MergeMatchesReference`.
- **`Bench`**:
  - `TypeOK`, with `hits + misses <= sets`: a tracked Set logs once.
  - `OnlyDelRaces`: two goroutines inside lru.Cache at once include one
    in Del. The mutex rules out every other race.
  - `CallsReturn`, a liveness property.
- **`Store`**:
  - `TypeOK`.
  - `LockedRunSeesSnapshot`: a lockedMap Run sees no write until it
    returns.
  - `NoReadLockCycle`: no goroutine waits for a read lock while it holds
    one and a writer is waiting.

Every property of a passing run has a mutant in `PROJECT.json`. A mutant is a
plausible bug in the modelled code, and TLC finds it under the run's own
configuration. The Cache mutants are:

- a counter that does not saturate;
- a victim left in the store;
- an update that keeps the old cost.

The Store mutants are a lockedMap Get that forgets its `defer RUnlock`,
and a Set that does not wait for the readers to leave.

The Bench mutants are a freecache Set that logs again on its write, a
mutex lock that does not wait, and a BenchBaseMutex call that keeps the
mutex.

### Fairness

Only `bench_wrappers` checks liveness, under `FairSpec`:

- Weak fairness of every step of a running goroutine: the check, the
  write, the LRU work and the unlock. Go's scheduler runs every runnable
  goroutine.
- Strong fairness of `MutexLock`: a goroutine that finds the mutex free
  again and again takes it. Go's sync.Mutex switches to starvation mode
  after a waiter has waited 1 ms and hands the lock to it. Under weak
  fairness alone, another goroutine's unbounded Gets could take the mutex
  every time.

The other runs check safety only.

## What is proved

Each proof module proves its theorems for every value of the constants that
satisfies the assumption of the module it extends. Each proof is the usual
one: an inductive invariant `IInv` with `Init => IInv`, a lemma with one
step per action showing `IInv /\ [Next]_vars => IInv'`, and a temporal
conclusion by `PTL`.

### Cache (`CacheProofs.tla`)

`CacheAssumption` requires:

- non-empty sets of goroutines and keys;
- natural costs and budget;
- a positive sample size;
- `NumCounters < UsedModulus`;
- sentinels outside their types.

The theorems:

- **`TypeCorrect`**: `Spec => []TypeOK`.
- **`StoreTrackedBetweenCalls`**: `Spec => []StoreTrackedWhenIdle`, under
  two hypotheses. `SingleCaller` says there is one goroutine. `UniformCost`
  says every item has the same cost.

The inductive invariant is `IInv = TypeOK /\ ArgsMatchPc /\
EvictionLoopExclusive`. `TypeOK` alone is not inductive. `SetStore`,
`SetEvictAdmit` and `DelData` read `args[p]`, and only the knowledge that a
goroutine inside Set holds Set arguments (and one inside Del holds Del
arguments) makes those reads well-typed. That knowledge is `ArgsMatchPc`.
`EvictionLoopExclusive` says a goroutine in the eviction loop holds the
policy mutex and its incoming key is untracked; `SetEvictAdmit` needs it to
keep `TypeOK`.

`StoreTrackedWhenIdle` needs `SeqIInv`: `IInv`, `costUsed <= PolicyMaxCost`,
and `StoreMatchesPolicy`. The last says, for each point of a call, how the
store differs from the policy's map:

- inside an admitted Set, the store lacks the incoming key and still holds
  its victims;
- inside a Del, the policy has dropped the key and the store has not.

The budget conjunct is what makes the first eviction candidate always
admit the key. With one cost, dropping any tracked key makes room, so
`SetEvictOne` is never enabled and at most one victim is taken
(`LoopStepsSeq`). A rejection therefore comes before any victim. The two
hypotheses are exactly what the violation runs show to be needed:

- `cache_set_del_race` breaks the property with two goroutines;
- `cache_rejected_admission` breaks it with costs 1 and 2.

`SeqIInv` was model-checked as an invariant before it was proved. It held
with costs {1} and with costs {2}, and was violated with costs {1, 2}.

### Store (`StoreProofs.tla`)

The theorems:

- **`StoreTypeCorrect`**: `Spec => []TypeOK`.
- **`RunSnapshot`**: `Spec => []LockedRunSeesSnapshot`.
- **`StoreRefinesAtomic`**: `Spec => AtomicStoreSpec`, the refinement of
  `AtomicStore.tla` under the mapping `runIter`. It is proved, not
  model-checked.

These hold for any goroutines, keys and values, and for both
implementations. `IInv` adds three conjuncts to `TypeOK` and the snapshot
property:

- `LockedPcs`: only lockedMap calls are at a lock step.
- `ArgsAtWrite`: a writer holds a key and a value.
- `ReadLockHeld`: a goroutine holds a read lock exactly while it is inside
  lockedMap's Run.

`ReadLockHeld` is the heart of the proof. `LockedWrite` waits until no
goroutine holds a read lock, and this conjunct turns that wait into "no Run
is in progress". That is what keeps the snapshot and makes the write an
`AtomicStore` `Write`.

The refinement proof maps each step as follows:

- `SyncWrite` and `LockedWrite` map to `Write`;
- `LockedRunRLock` maps to `RunBegin`;
- lockedMap's `RunEnd` maps to `RunEnd`;
- every other step, including all of syncMap's Run, leaves `data` and
  `runIter` unchanged.

### TTL (`TTLProofs.tla`)

The theorems:

- **`TTLTypeCorrect`**: `Spec => []TypeOK`. In particular, `timeToBucket`
  always names a bucket of the wheel.
- **`ExpiryInTime`**: `Spec => []ExpiredRemovedInTime`, under the hypothesis
  `WithinMinute`.

Both hold for every bucket width that divides 60, every ticker phase, and
every key and TTL set. `WithinMinute` says the clock bound plus every TTL
stays below 60. Past a minute, `t.Second()` wraps, and `ttl_last_bucket`
shows an item that is then never cleaned; the hypothesis excludes exactly
that.

The invariant `TimedInv` says where every item with an expiration `e` is:

- either still in bucket `timeToBucket(e)`, and the clock has not passed
  that bucket's detach time `(b+1)*BucketSizeSecs + TickPhase` (with the
  ticker due at that time);
- or in the sweeper's detached bucket, with the clock below
  `e + 2*BucketSizeSecs`.

`TickerIdle` adds that a due ticker fires at its phase with nothing
detached. This invariant was model-checked before it was proved.

### Bench (`BenchProofs.tla`)

`BenchAssumption` requires the wrappers to be among the six, a positive
capacity, a natural Set bound, tracking a Boolean, and a finite set of
goroutines (the proof counts them).

The theorems:

- **`BenchTypeCorrect`**: `Spec => []TypeOK`, so `hits + misses <= sets`
  in every interleaving.
- **`OnlyDelRacesHolds`**: `Spec => []OnlyDelRaces`.

`hits + misses <= sets` is not inductive: a tracked Set has been counted
in `sets` before its check logs. `IInv` adds:

- `ArgsMatchPc`: a goroutine in a call holds a call record, and one in
  the mutex section is in a Get or a Set;
- `LogBudget`: `hits + misses` plus the goroutines whose log is still to
  come (`PendingLogs`: at the track check, or in BenchBaseMutex.Set with
  tracking on) is at most `sets`.

`BudgetStep` turns each step of one goroutine into a change of
`Cardinality(PendingLogs)` by that goroutine's membership alone
(`CountStep`). For the list, `RemoveFirstInjective`, `ConsInjective` and
`FrontInjective` show that unlinking, pushing to the front and dropping
the back keep a list injective with the expected length. From them
`LruGetWellFormed`, `LruAddWellFormed` and `LruRemoveWellFormed` say that
each lru.Cache call keeps the list well formed. `LruAfterStep` covers the
race: it leaves the flag set, so nothing is claimed from then on. The
invariant was model-checked on the `bench_wrappers` instance and on
three goroutines before it was proved.

`OnlyDelRaces` rests on `MutexInv`, proved beside `IInv`. It says that
the goroutines inside lru.Cache are exactly those in the mutex section of
Get or Set or in Del, and that one in the section holds `mu`. Two
goroutines in the section would then both hold the mutex. `MutexLock`
waits for `mu = None`, and `None` is no goroutine, so no goroutine is in
the section when another enters it.

### What stays with TLC

- **Cost accounting.** `CostAccounting` is about `SumFunctionOnSet`. That is
  a fold defined by a recursive function over `CHOOSE`, and what it computes
  for every map needs induction over data.
- **The Cache store property with several goroutines or costs.** It does
  not hold, as the violation runs show.
- **Liveness.** `CallsReturn` in Bench is a liveness property under
  fairness, which is beyond the provers.
- **SuperFlag's properties.** These are about texts parsed by recursive
  operators and compared with reference definitions, and they need
  induction over data. `SuperFlag.tla` declares RECURSIVE operators,
  which a proof module may not reach.
- **`NoPrematureRemoval`.** This, and the TTL violation runs, are questions
  about the code, answered by counterexamples.

## Open question in the spec

The reset counter `used` can wrap below zero with two goroutines (hazard at
`cache.go:93`). Goroutine 1's `policy.Add` admits key k. Goroutine 2's
`policy.Add` then evicts k before goroutine 1 has incremented `used`
(line 99), and goroutine 2's victim decrement takes `used` from 0 to
`UsedModulus - 1`. From there the increments pass `size` without equalling
it, so the reset no longer fires, against spec 3 (a reset when the
increments since the last one reach NumCounters). TLC reaches this state in
the `cache_concurrent` model; one goroutine never does. No run states that
the reset eventually fires.

Spec 4.5 step 1 says an update of a tracked key "possibly" triggers eviction.
The model does not evict on update. Under that reading, an update that raises
a key's cost leaves the policy over budget with no call in flight. That
breaks spec property 2 and the `Cap() >= 0` check of `TestCacheSize`
(bench/cache.go 541-543): TLC finds it in seven steps with two keys and
MaxCost 2. Which reading the code follows cannot be settled from this tree,
because the policy is not in it.

## What is not modelled, and the plan

Not modelled:

- The z.Buffer tests, because z.Buffer is not in the tree.
- In `bench/cache.go`: the Get of the thread-safe wrappers, which changes
  no state, `bigCacheHasher`, a pure FNV-1a hash, and the tests of lines
  327-548, which drive an older Cache sequentially.
- A violation run for the `BenchBaseMutex.Del` race. The race is
  modelled as undefined behaviour (`lruRaced`), and `OnlyDelRaces` shows
  the mutex confines it to Del; what it does to the list depends on
  groupcache's `lru.Cache`, which is not in this repository.
- The calloc shim (`z/calloc_nojemalloc.go`): two atomic adds to one
  statistics counter, with no caller in this tree.
- `SuperFlag.String`, which formats a panic message.
- A run of the CleanUp/policy divergence.
  Spec 4.6 says CleanUp calls `policy.del` for each expired key. The code
  (part_001:86) only calls `policy.Cost`, so the policy keeps the expired
  key. `TTL.SweptKeysUntracked` states the spec's claim, and TLC finds it
  violated in a few steps when it is checked.
- The time-bucket divergence. `timeToBucket` uses `t.Second()`, where
  the spec uses epoch seconds. An expiration a minute or more away
  therefore shares a bucket with a near one. This is recorded as a hazard
  at `part_001:30`. The `ttl_cleanup_race` run checks
  `NoPrematureRemoval`, which this divergence also breaks (a 60 s TTL is
  deleted 53 s early) when TTLs of 60 s are enumerated.
- SuperFlag's panics on malformed input. `MergeMatchesReference` checks
  that the code panics exactly on such input. The tests in `flags_test.go`
  expect an error instead, but they target a later API
  (`newSuperFlagImpl`), so the panic is recorded as a hazard rather than
  a finding.

Next steps:

1. **Ring buffer.** Model it from spec 4.4: stripes, lossy handoff to the
   policy. Show by `INSTANCE ... WITH` that it refines the
   push-reaches-or-is-dropped abstraction in `Cache.Get`.
2. **Sharded conflict-aware store.** Model it from spec 4.3, with the
   collision rule checked against the scenarios of `store_test.go`. Compose
   it with `TTL`, so that CleanUp's `Del(key, 0)` meets real conflicts.
3. **Abstract policy.** Write an abstract specification of the policy (a map
   within budget), and show the eviction loop refines it.
4. **More proofs.** Prove `TypeOK` of `TTL` and `SuperFlag`, and
   `ExpiredRemovedInTime` within a minute. This needs the clock bound as an
   assumption and a strengthening that relates each stored expiration to
   its bucket.
5. **Liveness of the wheel.** Check that under weak fairness of the sweeper every expired
   item is eventually removed. Bucket 11 is expected to violate this.
