# Polaron: a verification development in TLA+

Polaron is a compiler and a runtime for a language with explicit regions,
`async` methods, channels and threads. This directory holds TLA+ models of the
parts of it whose correctness depends on the order in which things happen, or
on long runs of legal calls; TLC configurations that check them on small
instances; and TLAPS proofs of the results that matter most, for every value
of the parameters.

Paths are relative to the repository. `RT` is `runtime/polaron_rt.cpp`, `RC`
`runtime/polaron_region_core.pol`, `LO` `src/pir/lower.cpp`, `PA`
`src/pir/passes.cpp`, `AN`, `AS` and `AT` are `src/semantic/analyzer.cpp`,
`analyzer_stmt.cpp` and `analyzer_typeof.cpp`, `CO`, `CL` and `IP` are
`Concurrency.pol`, `Collections.pol` and `Ipc.pol` of `src/prelude/lib/`, and
"the guide" is `docs/reference/guide/`.

Contents: 1 the system; 2 what is modelled, part by part; 3 the runs; 4 the
proofs; 5 what the code does that its documentation does not say; 6 what is not
modelled; 7 the plan; 8 how to run it all.

## 1. The system

A program is parsed, analysed, lowered to an intermediate representation (PIR),
improved by passes and compiled; what runs is the compiled code, the library
written in Polaron itself (the *prelude*), and the runtime in C++. What several
actors share is in the runtime and in the code that the lowering emits around
it. What has to be right for every program is in the lowering, in the passes
and in the facts the analyzer keeps.

| Component | State it keeps | Operations | Who it works with | What makes it correct |
|---|---|---|---|---|
| Channels (RT:1424-1500) | ring of words, count, head, tail, two condition variables | new, send, receive, try_receive | every thread; `select`, semaphores, latches, barriers | FIFO; no thread asleep while it could go on |
| Task pool (RT:1253-1422, 4087), `async` lowering (LO:5640-6016, 18705) | ready ring, tasks (done, result, error, waiters), coroutine state objects | schedule, await, complete, complete_error, task_wait; a worker's loop | the compiled code calls the runtime, the runtime calls the compiled resume functions | each continuation resumed exactly once, on a result that is there; every call completes |
| Semaphore, CountdownLatch, Barrier, ReadWriteLock (CO) | channels used as token stores, atomic counts | acquire/signal, countDown/await, await, the four lock calls | channels | mutual exclusion, no early passage, no token lost |
| Parallel loops (CO) | none beyond the call; the slices of its hands | forRange, forChunks | threads | every index once, by one hand, before the return |
| Facts of variables (AN, AS, AT) | for each local: set, not null, moved, deleted | each statement; joins, loops | the lowering trusts them | no accepted program uses what is gone, unset or null |
| Scopes and cleanup (LO:9738-12265, 17300-17505, 24567) | lists of deferred blocks, objects, `try` bodies; flags in the frame | `defer`, objects, `using`, `finally`, `synchronized`, `delete`; jumps, returns, throws, landings | destructors; the unwinder | whatever way a block is left, all of it is taken down once, newest first |
| PIR passes (PA) | the program | removing checks, places in the frame, direct calls, reachability | the lowering before, LLVM behind | the program does what it did |
| Lazy fields and locals (LO:7283-7370) | a slot and a built flag | first read, later reads | threads, branches of the text | built once, before it is read |
| Regions (RC; LO for `new`, `delete`, `extract`, `mark`, `rollback`, `release`) | blocks, cursor, free-lists, destructor registry; a ring's slots | as named | destructors of the program | no byte handed out twice; each destructor once, newest first |
| Heap (`runtime/polaron_alloc_core.hpp`, RT:712) | size-class lists per thread, stamps, live counters | malloc, free, realloc | regions, strings, everything | a block on one list at most; the counts are right |
| Region block cache and arena (RT:568-675) | released blocks per thread; the arena's cursor | acquire, release, reserve | regions | a cached block is given out once, and big enough |
| Freestanding memory (`runtime/polaron_fs_region.pol`, `_fs_seed.pol`) | two bump arenas, the seeded memory | take, giveBack, resize, grow | regions without an operating system | blocks apart, and with their contents |
| Weak references (LO:15210-15410) | a list of nodes in each target | write, a holder's death, a target's death | destructors, `delete` | reads null once the target is gone |
| Code unloading (`runtime/polaron_fs_unload.pol`, RT:4137, LO:6189-7160) | vault of saved methods, alive flags, counts, tables | unimport, cascade unimport, reimport, guard | every call of a class | no call into code that is away |
| Inter-program calls (RT:1709-2030, IP, `src/parser/ipc.cpp`) | connections, objects served, grants, outstanding requests | connect, request, serve, create, call, release, ask | another process | a reply answers its own request; nothing without a grant |
| Bundles (`runtime/polaron_bundle.cpp`, LO:2128) | images in the temporary directory | load, build | other processes | an image found is as good as one made |
| Collections (CL) | arrays, links, heads, generations | the methods of each class | programs | what each class promises |
| Persistent objects (RT:783-955) | registry of slots | lookup at start-up | reload of a program | the same slot finds the same object |
| Package manager (`src/driver/deps.cpp`) | installed packages, the lock file | plug, unplug, plugAll | repositories of packages | an install reproduces its lock |
| `select` (LO:11305-11430) | none; a deadline | poll, time out | channels | takes from one arm only; looks at its deadline |
| Lexer, parser, the rest of the analyzer, code generation, driver, formatter, language server, the rest of the library | one pass, one message, or data only | | | see section 6 |

Hard behaviours, where they are: wakes made after an unlock, with spurious and
stolen ones (channels, task pool); state read outside a lock and used after it
(`await`'s fast path, the lazy flag, the start of the pool); a continuation
that another thread runs before the thread that parked it has returned
(`await`); one resource that all share (one condition variable for all tasks);
tokens that several threads pass on (latch, barrier, lock); arithmetic at the
edge of an int (parallel loops, generations); ways out of a block that its
compiler must foresee one by one (scopes); facts carried around loops and
joined (analyzer, passes); long runs of legal calls on one allocator or table
(regions, heap, vault, collections); objects that die while others do (weak
references); late answers, deaths and restarts of programs (inter-program
calls, bundles). `PROJECT.json` lists them, each at its line, with the property
that covers it or the reason why none does.

## 2. What is modelled

Three conventions hold everywhere.

*Grain.* What a lock guards and only touches under that lock is one action, up
to the unlock or the atomic unlock-and-sleep of a condition wait. Whatever the
code does outside the lock, above all each wake, is an action of its own.
Memory is sequentially consistent: the models say nothing about a machine that
reorders the unlocked read of `done` (RT:1407). Sequential code is one action
per operation.

*Faulty variants.* An operator named `X_m` or `X_n`, directly before `X`, is a
plausible mistake in `X`: a dropped guard, a wake left out, an off-by-one. No
specification uses it. Put in the place of `X`, it must violate the property
that `PROJECT.json` ("mutants") names; this is how each property is known to
be able to fail.

*Gaps.* Where the code is known to be wrong for some programs, the model has
the wrong behaviour too, behind a constant that names it (`Gaps`, `BelowMarks`,
`MovesTop`, `Ways`, `ToDying`, `Keeps`, ...). The passing runs leave those
programs out; section 5 says what each of them does. Put in, each breaks the
property in TLC; five of them have runs of their own.

### Channels: `Channel`, `BoundedFifo`, `ContainerProofs`

`buf`, `count`, `head`, `tail` are the fields of `polaron_chan`; a condition
variable is the set of threads whose `pc` says they sleep on it. `Send` begins
a call; then `SendBlocks` or `SendPuts` is the locked part and `SendWakes` the
`WakeConditionVariable` behind it; likewise `Receive`, `TryReceive`,
`ReceiveBlocks`, `TryMisses`, `Takes`, `ReceiveWakes`. A wake with nobody
asleep is lost, one with sleepers picks any, and `SpuriousWake` returns a
sleeper to its loop. A capacity below one is raised to one (`Cap`).

`BoundedFifo` is the queue the guide promises. `ImplementsFifo` maps it to the
`count` slots from `head` on. The wakes are the hard part: one per value,
made late, with other threads free to steal the value first. `WakesCover` says
why that is enough: while anybody sleeps, each value (`WakesCoverValues`) and
each free slot (`WakesCoverRoom`) has a wake to come or a thread awake for it.

### Task pool: `TaskPool`, `TaskPoolProofs`

A coroutine `c` stands for one call of an async method, with its task and its
state object. `created`, `done`, `outcome`, `waiters` are the tasks; `left` and
`awaiting` what the compiled state object knows; `ring`, `qhead`, `qtail` the
ready ring; `pc`, `cur`, `todo`, `after`, `on` where each thread is.

| Code | Actions |
|---|---|
| worker loop, RT:1275 | `Fetch`, `FetchSleeps` |
| `__polaron_schedule`, RT:1335 | `Push` (locked), `Signal` (the wake) |
| wrapper of an async method, LO:5896 | `BodyCalls`, `MainCalls` |
| `await` in an async body, LO:18705, and `__polaron_await`, RT:1402 | `AwaitBegins`, `AwaitChecks` (unlocked), `AwaitLinks` (locked), `AwaitResumes` |
| `__polaron_task_complete`, `_complete_error`, `_task_wake`, RT:1351-1394 | `Finish` (the write of the result), `Detach` (locked), `Push`/`Signal` per waiter, `Broadcast` |
| `__polaron_task_wait`, RT:4087 | `MainWaits`, `BodyWaits`, `WaitChecks`, `WaitReturns` |

`Awaits` is the program: which calls a body may make and await. `Parkers` are
the bodies with an `await` of their own, `Blockers` those whose awaits stand in
a plain method they call; such an await compiles to `task_wait` and blocks the
worker. A body may be both. `OutOfMemory` lets the allocation of a waiter fail.
`Ends` says how bodies end; no control depends on it, so the liveness run lets
them end with a value only.

`OwnedOnce` is the central property: a call that is under way is in exactly
one place (a slot of the ring, one task's waiters, one thread's list, one
thread), so it is neither lost nor run twice. `RingIsAmple` (fewer live calls
than `POLARON_QCAP`) is its condition: `__polaron_schedule` does not check the
ring for room. `NoWakeMissed` is two claims: each entry of the ring has a wake
to come or a worker awake for it (`WakesCoverWork`), and whoever sleeps on a
task that is done has a broadcast to come (`BroadcastOwed`).

### Synchronisers and loops: `CountdownLatch`, `Barrier`, `ReadWriteLock`, `SharedLock`, `Parallel`, `MCSync`

The library builds latch, barrier and lock from channels, used as stores of
tokens, and an atomic count. Here a channel is the number of tokens in it,
which is what `Channel` shows a channel of equal values to be; `Acquire` and
`Signal` are receive and send. A latch passes one token from each waiter to the
next; a barrier posts one token per party from its last arrival; the lock has a
mutex for the count of readers and a semaphore for the writer, which the first
reader takes while it holds the mutex. `SharedLock` is the abstract
reader/writer lock that `ReadWriteLock` implements (`ImplementsSharedLock`).

In `Parallel`, `Chunk`, `Lo` and `Hi` are the slice arithmetic of `forRange`,
in ints that wrap (`Half` is half the number of ints); `Enter` chooses the
number of hands, `Start` starts one, `RunBody(w)` is one call of the body,
`Join` a join. `forChunks` has the same slices.

(Proofs: `SyncProofs`.) `MCSync` runs latch, barrier, lock, loop and task pool side by side: `Init`
chooses one. `NobodyLockedOut` is the liveness of all five.

### `lazy`: `LazyField`

The test and the build of a lazy field by several threads, to show that both
may build (section 5). Nothing else is claimed of it.

### Memory: `Region`, `RingRegion`, `BumpArena`, `Heap`, `WeakList`, `CodeVault`, `Unimport`, composed in `MCMemory`

(Proofs: `RegionProofs`, `AllocatorProofs`, `UnimportProofs`, `MemoryProofs`.) Sizes are in grains of 16 bytes; an
address is a block (or an allocation of the
operating system's) and an offset. `MCMemory` runs the seven side by side: they
share no state, and three of them are here under their own names (EXTENDS), so
that what is proved of each is proved of the composition.

`Region` is a `pool` (or `fixedslot`, the same branches) or `stack` region held
in a field. `slot` holds the headers, `free` the free-lists of the head, `track`
the destructor registry, `marks` the checkpoints the program holds.

| Code | Actions |
|---|---|
| `new T in region`: popFree, tailWithRoom, chaining, the trap | `NewReuses`, `NewBumps`, `NewGrows`, `NewTraps` |
| `delete` (LO:15840): pool gives the slot back, stack only forgets | `Delete` |
| `extract` (LO:18996), `__polaron_region_free` | `Extract`, `RegionFree` |
| `mark`, `rollback`, `release` | `Mark`, `Rollback`, `Release` |

`born` and `destroyed` are history, kept for `EndedOnce` and `NewestFirst`. A
free-list is a sequence although its links live in the payloads of the slots;
`NothingOverlaps` says that nobody else writes there. Destructors are taken not
to use the region they are in.

`RingRegion` is the ring flavor: a new object evicts the oldest once the ring
is full, and what is left is always a window of the latest (`WindowOfTheLatest`,
part of `EndedOnce`). `BumpArena` is the memory under regions where there is no
operating system: blocks are taken from the top, given back only from the top,
resized in place or copied, and an arena that is full goes on in the seeded
memory; each byte says whose it is, and `BlocksKeepContents` compares.

`Heap` has one free-list per class, one slab and one pair of counters for every
thread; `Free` puts a block on the list of the thread that frees it, whoever
made it. `Cached` is the cache of released region blocks. Only the sum of the
threads' counters can be right, and `CountsAgree` says that it is.

`WeakList` is the list of nodes behind `weak`. A death is two actions, because a
destructor in between may do anything: `Begin` empties the list and starts the
destructor, `End` takes the object's own nodes off the lists of others and lets
the memory go. Deaths nest. A place is used again by the next object.

`CodeVault` saves and restores the code of methods in a vault too small for all
of them; `Unimport` has the flags, counts, dispatch tables and the overwritten
code of four classes, with calls that are still on the stack when their class
goes. `NeverInDestroyedCode` says no step runs in an overwritten method,
`WholeOrGone` that a class (and a saved method) goes and comes back whole.

### The compiler: `FlowFacts`, `Scopes`, `Passes`, `PirRun`, `BundleCache`, composed in `MCCompiler`

`FlowFacts` writes a method statement by statement. `facts` is what the
analyzer knows of one variable, joined and restored as `AS` does it for `if`,
`while`, `do`, `for`, `foreach`, `switch` and `try`; `values` is what the
variable can really be, worked out beside it. A statement the analyzer refuses
is not written. `FactsHold`: no accepted statement uses the variable while it
may be unset, null, moved or deleted.

`Scopes` lowers a method statement by statement with the compiler's own lists
(`deferred`, `scoped`, `lateDefers`, `lateObjects`) and then runs the code that
came out: a call may throw, a branch may go either way. `owed` is history, what
was set up and not yet taken down. `TakenDownInTurn`: whatever way the method
ends, nothing is left (`NothingLeft`), and each thing is taken down once, the
newest first (`InTurn`).

`Passes` has the intermediate representation as far as three passes look at it,
and what they decide: which checks go, which objects get a place in the frame, which
calls become direct and which functions lose their bodies. `PirRun` runs a program
as it was written next to those decisions; `GuardsSound`, `PlacesSound` and `CallsSound` say that the program
cannot tell. `MCPir` fills a few flow graphs with statements in every way.

`BundleCache` is the loader of bundles with its images: looked for, begun,
finished, opened, refused, built again; a loader may be killed at any step, the
program may be another build the next time, and the bundle may be replaced.
(Proofs: in `IpcProofs`.)

### Inter-program calls: `Ipc`, `RemoteCalls`

One program serves (`server`, `kept`: its objects, which of them are live, the
capabilities granted), others connect (`client`). A frame is two writes and two
reads, its length and its body; a link has what is on its way `up` and `down`,
and which ends are open. Actions follow the code: connect and accept, the
halves of a frame, the dispatcher's create, call, release and ask, the giving
up of either side, a client that leaves or is killed at any step, and a new
start of the server, whose addresses may be those of its first run. The server
stops only by a method that throws or by a write to a closed socket
(`SIGPIPE`); an `accept` that fails, which ends its loop (IP:294), and a kill
from outside are left out. The first `MaxAsks` requests have a number, and the
history speaks of them; after those a client may call methods for ever, without
one (`Further`), so that no bound of the model ends a session.
`RemoteCalls` is what a caller may rely on: a call it was told has succeeded was
carried out, once and for it; `ImplementsRemoteCalls` is that refinement. `RepliesMatch`: a
reply answers the request it is read for. `OnlyAllowed`: nobody holds a
capability that the policy refuses. `EveryoneIsServed`: a request ends, and a
connection is taken although another keeps silent, since reads time out. It
does not say that one is taken although another keeps *asking*: the session loop
(IP:303-321) ends only when a read does, so a client that always sends its next
request in time keeps everybody behind it out. `ConnectionsServed` therefore
supposes that nobody asks for ever on one connection (`SessionsAreFinite`) and
that no method runs for ever; without the first TLC finds a client that does.
The proofs are in `IpcProofs`.

### Collections: `HashTable`, `SearchTree`, `Deque`, `MinHeap`, `LruCache`, `SlotMap` against `Dictionary`, `Line`, `Recency`, composed in `MCCollections`, with `ContainerProofs`

The arrays and links of the classes of `CL`, one action per method.
`Dictionary` (a map), `Line` (a line with two ends) and `Recency` (entries by
last use) are what they promise; `AnswersAsPromised` is the refinement of each,
and for the slots that a handle answers for its own value only. `ShapesHold` is
what must hold between calls: no hole in a probe chain, a search tree with the
stored heights right and no more than one apart, a heap's order, a list whose
two directions agree. `HashSet` and `TreeSet` are the same code without values,
`Queue` and `IntHeap` the same as `Deque` and `PriorityQueue`.

## 3. The runs

| Run | Instance | What it shows |
|---|---|---|
| `channel` | 2 senders, 2 receivers, 2 values, capacity 2; 188,552 states | type, `WakesCover`, `ImplementsFifo`, and that no receiver or sender sleeps on (`NobodyLeftAsleep`) |
| `taskpool_safety` | 3 calls (`Diamond`), of which one also blocks its worker, 2 workers, 1 other thread, a ring of 4; 814,153 states | type, `OwnedOnce`, `AwaitersReadResults`, `NobodyParkedOnDone`, `NoWakeMissed`, `OutcomeIsFinal` |
| `sync` | 5 threads; latches of 0, 2, 3, 4; barriers of 1, 3, 5, 6; the lock; loops of up to seven items with one to five hands in ints of -16..15; 3 calls (`Pairs`), one of which blocks its worker, with allocations that fail; 107,251 states | type, `NobodyThroughEarly`, `TokensAccounted`, `HandsShareItems`, `AllItems`, `ImplementsSharedLock`, `NobodyLockedOut` |
| `memory` | see below; 545,000 states | type, `NothingOverlaps`, `RegistryIsTheLiving`, `EndedOnce`, `NewestFirst`, `CountsAgree`, `NeverInDestroyedCode`, `WholeOrGone`, `WeakNeverDangles` |
| `compiler` | see below; 2,005,000 states | `FactsHold`, `TakenDownInTurn`, `GuardsSound`, `PlacesSound`, `CallsSound`, `CacheNeverInTheWay` |
| `ipc` | 2 clients, 1 server that starts twice, 3 requests with a number and any number of calls after them, 1 object, 2 connections, 2 capabilities of which 1 is allowed; pipes and sockets; 517,739 states | type, `RepliesMatch`, `OnlyAllowed`, `ImplementsRemoteCalls`, `EveryoneIsServed` |
| `collections` | see below; 173,644 states | type, `ShapesHold`, `AnswersAsPromised` |
| `lazyfield_race` | two threads, two objects | violation of `BuiltOnce` |
| `pir_recount` | every program of `MCPir`, loops included that recount their index | violation of `GuardsSound` |
| `synchronized_jump` | methods of four statements, a `synchronized` block left by a jump or an exception | violation of `HeldOnlyInside` |
| `defer_skipped` | methods of four statements, an exception through the method | violation of `DefersRun` |
| `ipc_late` | a client that keeps its connection after a request that failed | violation of `RepliesMatch` |

### Bounds, and why they are enough

- *channel*: two threads a side is the least with which a wake can be stolen or
  go to the wrong sleeper, and capacity two the least at which a channel is
  neither full nor empty. For every number of threads and every capacity the
  theorem `WakesSuffice` does what the run cannot.
- *taskpool_safety*: in `Diamond` one task has two awaiters, one awaiter awaits
  two tasks, and one of the tasks is itself waiting, parked or in `task_wait`:
  every way a waiter can be parked, woken and resumed. Two workers are the
  least that can both hold continuations of one task; they are interchangeable
  (`Symmetry`, safety only). A ring of four wraps, because four entries are
  pushed and popped more than once around, and holds three calls, so
  `RingIsAmple` is always true.
- *sync*: latches smaller than, equal to and larger than the number of
  counters, and barriers with fewer, as many and more parties than threads: the
  cases that differ in how many tokens exist. A barrier of three for five
  threads is the one where a second round begins while the first is leaving.
  Ranges on both sides of zero, empty and inverted ones too, with fewer, as many
  and more hands than items. One blocking body against two workers is the most
  for which the calls must complete; the awaits form no cycle.
- *memory*. Region: sizes 1 | 2, 2, 3 fall on both sides of `PoolMax`; two
  objects of one size reuse each other's slots, the third size must be passed
  over in the large list; nine grains let three objects in and never four (a
  slot is a grain larger than its payload), so the region grows or traps. Ring:
  three slots and eight objects, more than twice around. Heap: two classes of
  blocks and two sizes above them, two threads, two blocks out at a time, a
  slab that two blocks leave a grain of. Arenas: three grains of static blocks,
  two of registries, six seeded, so that each arena outgrows itself. Vault: four
  methods of different length, room for three at a time and not every three.
  Unimport: a base, what extends it, a class for itself and one with a static
  method, three objects, five statements. Weak references: three objects, four
  weak fields, so that lists of every order arise and a node leaves from the
  head, the middle and the end.
- *compiler*. Facts: methods of up to four statements, those inside others
  counted (57,500 states): a loop in a loop, a branch in a loop, a loop behind a
  branch. Scopes: methods of up to five statements in up to three blocks, which
  is the least in which a `try` holds a block that holds something to take down
  behind something else. Passes (51,000 states): about 1,900 programs of four
  shapes (a straight line, a branch, a loop, two blocks one behind the other)
  with every filling of up to three statements in each. Bundles: three builds
  of a program, two bundles, one loader, killed any number of times.
- *ipc*: two clients are the least of which one can be silent while the other
  waits; two starts the least in which an address of one run is another object
  in the next; three requests let a call, its release and an answer that comes
  too late be of three kinds. `MaxAsks` bounds only what is numbered.
- *collections*. Table (4,300 states): five keys in a table of four that grows
  to sixteen, with every hash the mixing can give, so that probe chains run
  over the end. Tree (10,700): seven keys, enough for each double rotation
  below the root. Deque (67,800): a first array of two and up to five items, two
  doublings from any position of the head. Heap: seven items of three ranks.
  Cache (1,300): four keys for three slots. Slots (87,900): two slots that
  double, each used in two generations.

`MaxBlocks`, `MaxMarks`, `MaxMade`, `MaxOut`, `MaxDrift`, `MaxPieces`,
`MaxStatements`, `MaxDepth`, `MaxSize`, `MaxObjects`, `MaxAsks`, `MaxCreates`,
`MaxLinks`, `MaxStarts`, `MaxItems`, `MaxHeap`, `MaxTableCap`, `LastSlots` and
`Generations` are bounds of the models; the code has none of them (but for the
2^20 generations of a slot).
`CHECK_DEADLOCK FALSE` because a released region, a finished loop or method,
an opened latch and a program past its bound have nothing more to do.

### Fairness

Weak fairness of each thread's steps *inside* a call, and nothing else: the
operating system runs every thread that is not asleep, a body of a task comes
to its end, and the holder of a lock unlocks it. No thread owes the start of a
call, no spurious wake is owed to anyone, and no lock or channel is fair to
the thread that waited longest; so what is promised of a lock is that
*somebody* gets in, and of a latch or barrier that everybody comes through.
That every call of an async method completes rests on awaits without a cycle
and on fewer bodies blocking in `task_wait` than there are workers; both are
facts about the instance.

In `ipc` a client that has begun a request goes on with it (it reads with a
time-out), and the server's own loop goes on; a method of the program that the
server runs may take for ever, and nobody owes a death, a start or a request.
Nor does anybody owe the end of a session: that sessions and methods end is a
premise of `ConnectionsServed` and not part of the specification.

## 4. The proofs

All proofs are checked by `tlapm`. They hold for every value of the constants
that satisfies the module's assumption.

**`ContainerProofs`**, of the channel (assumes `ChannelAssumption`: finite, disjoint sets of
threads, an integer capacity, `None` not a value).
`TypeCorrect`: the indices and the count stay consistent, `tail` being `count`
slots past `head`. `WakesSuffice`: `WakesCover`, from `ValuesCovered` and
`RoomCovered`. The inductive invariant of the first is `TypeOK /\
WakesCoverValues`: a put adds one value and one owed wake; a take uses up a
value and the receiver that was awake for it; a wake turns an owed wake into an
awake receiver, or finds nobody asleep; a receiver that goes to sleep has just
seen the ring empty. The second is its mirror image, with free slots for values
and senders for receivers; `try_receive` owes a wake to a sender only.
`ChannelIsFifo` is the refinement of `BoundedFifo`, step by step: a put appends
to what the ring holds from `head` on, a take gives its first, every other step
leaves it alone.

Of the deque (`DequeAssumption`: a first array that is not empty):
`DequeIsLine`, the refinement of `Line`. `Along` reads the items from `head`
on, around the end of the array; an addition at either end, a removal and a
growth, which copies them to the front of an array twice as long, each change
`Along` as the line changes. `DequeTypeCorrect` is its type.
Of the slot map (`SlotAssumption`): `HandlesReach` and `StaleForGood`. The
invariant `Sound` says that the free list names each vacant slot once, that the
slots in use and the free ones are all there are, that each handle given out
names a generation its slot has reached (and has left, if the slot is vacant),
and that what is in a slot is what was inserted for the handle that reaches it.
That as many handles reach something as there are things is the bijection of
those handles with the slots in use. `Generations` stands for the code's 2^20; a
slot given out more often than that is outside both theorems.
Of the cache (`CacheAssumption`: it has room for one entry at least):
`LinksStayAgreed` and `CacheIsRecency`, the refinement of `Recency`. The
invariant `Holds(cache, q)` has a witness, the line `q` of slots that the links
make both ways, from the head and from the tail; the slots of `q` are those
below the size, and the map leads from the key of each to it. Unlinking a slot
omits it from `q` (`OmittedIsListed`) and pushing one puts it first
(`HeadedIsListed`), whatever is done between; `AllBut` is what holds between
the two, when one slot is on neither the list nor the map. That following the
links, which the model does with a recursive function, gives `q` back is
`ChainIs`: the first place where the two differed would have to differ from
what the one before leads to.

**`TaskPoolProofs`** (assumes `TaskPoolAssumption`; the theorems are under
`[]RingIsAmple`, because the code does not check the ring).
`OwnedOnce` quantifies over a set of places, which is no good to induct on, so
the invariant says it place by place: `EachHeldIsLive` (what is held anywhere
is under way), `HeldOncePerKind` and `KindsAreApart` (no two places hold the
same coroutine), `EachLiveIsHeld` (none is lost), and `Discipline` (a thread
has a coroutine exactly while it is in a body, and a list exactly while it is
scheduling). `IInv` is the conjunction with `TypeOK`; `ResumedOnce` and
`TypeCorrect` follow. The arithmetic of the ring (`Popped`, `Pushed`,
`RoomToPush`) is kept apart from the rest; `RoomToPush` is where
`RingIsAmple` enters: the occupied slots hold distinct live coroutines, and
the one to be pushed is another.
`ResultsAreThere` and `NobodyLeftParked` add `RInv` (who is parked is parked on
an undone task; who is back from an await is back from a done one; what is done
is written) and assume `~OutOfMemory`, since the code returns from `await`
without a result when the allocation fails. `NoWakeIsMissed` counts: an entry of
the ring is a wake that is owed or a worker that is awake for it, and a task that
is done has a broadcast to come while somebody sleeps on it. `OutcomeKept` is
the action property `OutcomeIsFinal`.

**`SyncProofs`**, of `MCSync` and so of any number of threads, counters and
parties. A latch, a barrier and a lock are each a sum of tokens: `LatchInv`,
`BarrierInv` and `LockInv` say where every token is (in a channel, or in the
hands of a thread between two steps), and that who is past the wait took one.
`NobodyEarly` (`NobodyThroughEarly`), `TokensKept` (`TokensAccounted`), and
`LockIsShared`, the refinement of `SharedLock`.

Of the loop (`Parallel`; under `ParallelAssumption` and the constant-level
condition `RangesFit`: the length and the end of each range stay below the
largest int by the number of hands), `IInv` says how far each hand and the
caller are; from it follow `TypeCorrect`, `CallsAreItems` and
`HandsAreDisjoint`, together `ItemsAreShared` (`HandsShareItems`), and
`EveryItemIsCalled` (`AllItems`). The one fact of arithmetic is that the slices
of `ceil(n / hands)` cover `n`.

`SyncTypeCorrect` (`SyncTypeOK`) puts the types of all five together, under
`RangesFit` and `[]RingIsAmple`. The calls of the pool are those of
`TaskPoolProofs` with another name for the place of a call: `SameTasks` says
that the two instances agree, operation by operation.

**`IpcProofs`** (assumes `IpcAssumption`). `Base` is the type with what each side
of a link may be doing given which ends are open; `Talking` says where the one
request of a client and its reply are (on the way, half read, being handled),
and `Told` that what a client was told is of a request it no longer waits for, as
far as requests are numbered. `TypeCorrect` and `NoneWithoutLeave`
(`OnlyAllowed`) hold as they stand. `RepliesAreOwn` (`RepliesMatch`) and
`CallsAreRemote` (the refinement of `RemoteCalls`) assume `Keeps = {}`: a client
gives its connection up after an exchange that failed. Without that they are
false, which is finding 5 below. The same module has the images of `BundleCache`
(assumes `CacheAssumption`, `OneOfAnInterface` and `OneLoader`; the last two are gaps of the
code, section 5, *Bundles*): a finished image has the name of what it was made
from (`NamedForWhatItIs`), and who builds did not find one and opens his own
(`OpensHisOwn`; so a second build after a refusal is the last). `CacheInv` is these
with the property, for any bundles, interfaces and hosts; `ImagesAreAsGoodAsNew`
(`CacheNeverInTheWay`) follows.

**`RegionProofs`** (assumes `RegionAssumption` and `BelowMarks = FALSE`, without
which the cursor falls below a checkpoint; section 5, *Memory*). `RegistryIsTheLiving`
is not inductive: that a destructor is registered once rests on slots that do
not overlap, that on free-lists that hold each free slot once and no living
one, and a rollback is right only when the registry and the cursors of a
checkpoint were once true together. `IInv` is `TypeOK /\ Ground /\ Ledger`:
`Ground` has the geometry (where slots lie, what stamps they have, what the
free-lists hold), `Ledger` the registry, the objects' births and deaths and what
each checkpoint remembers of them. `TypeCorrect`, `RegistryHoldsTheLiving`,
`DestructorsRunOnce` (`DestructedOnce`), `NoByteIsTwoOwners` (`SlotsApart`) and
the action property `TheNewestGoFirst` (`NewestFirst`) follow.

**`AllocatorProofs`** (assumes `HeapAssumption` and `ArenaAssumption`) has the
two allocators below everything else, for any sizes, threads and bounds. Of the heap, `Sound` says
where blocks may lie: each in what was taken from the system, beside all others,
a large one alone (`Laid`); nothing yet in the part of a slab its thread still
carves, which no other thread carves (`Carvable`); and what is not out on one
list, in one place, under its class, with the stamp that stops a second free
(`Listed`). `malloc` and `free` are shown to keep it as functions of the heap
(`MallocGives`, `FreeKeeps`), so that `realloc`, which is both in one step, and
the cache need no argument of their own about where blocks lie; `CachedOnce` is what the cache adds.
`BlocksAreApart` follows. The counters need sums. What
`Total` is, whatever the set, is shown in terms of the least counterexample
(`AnyOrder`: a sum is any of its terms and the sum of the rest, although the set is taken
apart in an order of its own); then `malloc` and `free` change both sides
of each equation by the same (`MallocTallies`, `FreeTallies`), and a large block that
moves and keeps its size replaces one payload by an equal one. `CountInv` is
`CountsAgree` with the blocks finitely many, and `CountersAgree` follows. Of the arenas, where a block lies says little: when the
block a cursor stands behind is given back after the arena went on elsewhere, the
cursor can fall below its arena's base. What holds is that no byte an arena
still has to give is anybody's or the other's (`NobodysToGive`), and no byte is
two blocks' (`EachToOne`). `BlocksKeepWhatTheyHold` assumes `MovesTop = FALSE`;
the other value is a gap of the code (section 5, *Memory*) and refutes it.

**`UnimportProofs`** (assumes `UnimportAssumption`, `LeavesNoOrphans` and
`KeepsItsStatics`; the last two are gaps of the code, section 5, *Memory*) has any classes,
statements and number of objects. The classes above a class are what is in every set with it
that is closed upward (`Upward`): so induction along them is the choice of a closed set.
`ImplementationIs`: among the classes that declare an inherited method one is nearest.
`ImportInv` adds to `WholeOrGone` what it rests on: that
what no statement names is never touched, that what is there has what it extends
(`BasesThere`; one guard then vouches for a whole chain of constructors), and
that the code of a static method, which nothing guards, stays (`StaticsStay`).
`FamilyIdle`: a class without objects has no subclass with one, so a cascade
never stops half way. `ClassesGoWhole` follows.

**`MemoryProofs`** has the ring, the vault of unloaded code and the composition.
`RingInv` numbers what stands in the ring: the k-th slot from the head has the
object `made - held + k`, stamped unless it was extracted, and what has ended is
what came before, in order; `Circle` is the arithmetic of wrapping.
`LatestStay`: a ring is a window of its latest objects, for any number of slots
and objects. `VaultInv` adds to `CodeIsKept` that the rows are of the methods
that are gone, one each, and that they lie apart in the vault below its cursor
(else saving one method could overwrite another). `NoCodeIsLost` follows; the
one fact of the method table is that methods do not overlap (`MethodsApart`).
`NoneDangles` (`WeakNeverDangles`) assumes `WeakAssumption`, `Ways \subseteq
Emptying` and `ToDying = FALSE`; each of the last two is needed, and is a gap of
the code (section 5, *Memory*). `Linkage` says of each place that some sequence
of distinct nodes, those that refer to it, is its list; linking, unlinking and
emptying a list keep it, and so does unlinking an object's own nodes one by one.
`WeakInv` adds that the nodes of an object that is gone refer to nothing (else a
list would go on through memory that is somebody else's) and that a node refers
to living objects only (else the second of two nested deaths could follow a
list that was emptied). `EachByItself` and `AllocatorsByThemselves`: a behaviour of `MCMemory` is one of
`Region`, of `RingRegion`, of `CodeVault`, of `WeakList`, of `Heap` and of
`BumpArena`, and of `Unimport` (`ClassesByThemselves`); so `EachIsEndedOnce` (`EndedOnce`), and from `RegionProofs` and
`AllocatorProofs` together `NothingIsTwice` (`NothingOverlaps`), and `CountersTell`
(`CountsAgree`); from
`UnimportProofs` `NoTrapIsSprung` (`NeverInDestroyedCode`) and, with the vault,
`CodeGoesWhole` (`WholeOrGone`); from all of them the type of the seven,
`MemoryTypeCorrect`.

**Only model-checked**: everything under fairness (`NobodyLeftAsleep`,
`NobodyLockedOut`, `EveryoneIsServed`), which is beyond this prover. `FlowFacts`,
`Scopes`, the passes, the hash table, the search tree and the heap of a priority
queue are recursive over programs or trees, and what a recursive definition
computes for every input is beyond this prover too. `CollectionsTypeOK`, `ShapesHold` and `AnswersAsPromised` are of six
collections at once, and so stay with TLC although the deque's, the slot map's
and the cache's parts of them are proved.

## 5. Where code and documentation disagree

With a run that shows it (`PROJECT.json`, "findings"):

1. A `synchronized` block left by a throw, return, break or continue keeps its
   mutex (LO:10576; the comment at LO:10547; the guide, 09:342):
   `synchronized_jump`.
2. An exception passes a method that has no `try` without running its deferred
   blocks or destructors (LO:24568; the guide, 05:443): `defer_skipped`.
3. Two threads can both build a lazy field: `__polaron_lazy_lock` is called
   from nowhere (LO:7363; RT:1225; the guide, 10:610): `lazyfield_race`.
4. A bounds check is taken out although the index was stored to since the check
   that dominates it, over three blocks (PA:724; the comment at PA:734):
   `pir_recount`.
5. A late reply to a request that timed out answers the next request (IP:157;
   the comment at IP:142): `ipc_late`.

The rest has no run of its own. What the constants for gaps leave out of the
passing runs is marked with the constant; TLC finds the violation when it is
put in.

*Analyzer* (`FlowFacts`, `Gaps`):

- "proof": behind a `while` or `for` the facts of before its condition come
  back, also a proof that the body has falsified; the walk that kills proofs
  does not enter `try`, `switch`, `match` or `using` (AS:4293-4331, 4366-4378).
- "head": the update of a `for` is analysed before its body (AS:4362), and the
  condition with the facts of the first run only.
- "jump": a `break` or `continue` drops what it knows instead of joining it with
  where it goes (AS:4138-4145).
- "foreach": its body's facts hold behind it although it may not run
  (AS:3211-3219). "switch": each case starts where the last ended
  (AS:3221-3231). "try": a `catch` starts from the facts before the body, or
  those behind a `catch` are forgotten (AS:5069-5092).
- A redeclaration in an inner scope does not clear what is known of the outer
  name's move; an immutable variable whose first value comes later may be
  given one twice; a deferred block is analysed where it stands (AS:4962). The
  guide (04:356) says there is no flow-sensitive narrowing; the analyzer narrows.
- The guide (05) lets any flavor but the ring be growable; the analyzer rejects
  a growable stack (AS:3397).

*Scopes* (`Scopes`, `Gaps`):

- "locked" and "through" are 1 and 2 above.
- "late": the flag of a `defer` in a `try` starts as not-run, so a landing runs
  also a `defer` that was never reached; and it is never reset, so that a
  `defer` in a loop is skipped by the landing once it has run.
- "caught": what a `catch` body declares stays on the lists to the end of the
  scope around. "catch": a return, throw, break or continue in a `catch`, or an
  exception out of a call there, skips the `finally` (the guide, 08:143-179).
- "deleted": `delete` takes its object off the lists for good, so that an
  exception before it, or a branch around it, leaves the object undestroyed;
  lengths that open blocks remember are then past the end of the list
  (`unwindObjects_.begin() + outer`, LO:17343, 15923).
- A struct's destructor has no null test on a landing.

*Tasks and threads*:

- `await` in a plain method called from an async body holds a pool worker
  (LO:18754; the guide, 09:149, says a worker never sleeps on a task). With as
  many such bodies as workers, the pool stands still.
- The ready ring has no check for a full ring (RT:1338): at `POLARON_QCAP`
  entries its indices meet and all of them are lost, against the comment at
  RT:1350. The theorems name the condition.
- `await` goes on as if the task were done when the waiter cannot be allocated
  (RT:1413), against the guide, 09:253.
- The pool's start sets its flag before it makes the lock and the workers
  (RT:1316), so two first callers race, against the guide, 09:147.
- A parallel loop whose range ends near the largest int calls its body for
  negative indices (CO:83); one wider than half the ints has a negative length,
  and the body is not called at all.
- A lazy local whose first read in the text is in a branch that is not taken is
  read unbuilt (LO:7292; the guide, 10:587).

*Memory*:

- `BelowMarks`: extracting the top object of a stack region below a held
  checkpoint lets the cursor fall beneath the checkpoint; a later rollback
  misses the destructor of what was allocated since, and raises the cursor into
  it (RC:452; the guide, 05:637).
- `extract` from a bump region held in a field calls the slot allocator's free
  on an object without a header (LO:18996; the guide, 05:621).
- `MovesTop`: the block on top of an arena that must grow from the seed is given
  back first and comes back elsewhere, without its contents
  (`runtime/polaron_fs_region.pol:118`, "the same address, more of it").
- `Ways`: only `delete` and the scope of a heap object empty a weak list; `delete
  ... from` a region (LO:15838), the release, rollback or turn of a region, and
  the end of a frame object's scope do not, and leave references to what is gone
  (the guide, 05:347, 17:57: "emptied when its target dies"). `ToDying`: a
  reference set to an object during its own destructor stays. `extract` moves
  an object's bytes and leaves its nodes on the old addresses; an exception that
  skips a holder's destructor leaves its nodes on the list.
- `realloc` of a large block does not correct the count of live bytes (RT:726).
- The restore of a region snapshot compares numbers of registry entries, which
  a delete and a new in between leave equal; no statement is lowered to it yet.
- Growth of the persistent registry hashes keyed entries the indexed way
  (RT:829); the keyed functions are called by no lowering.
- Cascade unimport takes direct subclasses only (LO:6330; the comment at 6319);
  a subclass may come back before its base; static methods have no guard
  (LO:22798); a class whose static method is running may go; the counter of
  instances is not atomic (LO:7877); `unimport` of a class whose base's
  constructor still runs counts wrong (LO:24789; the guide, 10:466).

*PIR passes*: an object handed to a callee that drops it keeps its drop;
a signed `i < length` is taken to prove an unsigned check; a check is named by
its slot, also when the value was loaded before a store; `foldConstants` adds in
64 bits whatever the type's width (PA:300-362).

*Programs that call each other*: `SIGPIPE` is not handled (RT:1956); a time-out
in the middle of a frame leaves its rest to be read as the next length
(RT:1988); a request that timed out may still be carried out; the release of an
object lent twice takes it from both; a null handle makes a new object; a call
chain that comes back to the first program waits until it times out; an
exception that a handler does not catch ends the server.

*Bundles*: the name of an image has the hash of the interface, which is what the
fingerprint is a hash of (`src/bundle/polb.h:68`), and not of the code; a
bundle compiled anew with the same interface is never compiled to an image
again, and programs go on with the old code, against the comment at
`runtime/polaron_bundle.cpp:223` ("a changed one is never mistaken for it"). Of
two loaders one may find the other's half-written image, remove it and build
over it, and the other's load then fails ("A cache ... may never be the reason a
correct program cannot run", 256). TLC finds both when `Bundles` has two of one
interface, or `Loaders` two members.

*Package manager* (`src/driver/deps.cpp`): `plugAll` should "reproduce the pinned
install exactly" (233), but a range of a transitive dependency that is walked
first is resolved anew, the pinned entry is then passed over (98), and the lock
is written anew; a package that one requirer got is not compared with the next
requirer's range; a dependency without a version is recorded without one;
`unplug` leaves the lock's entry, so that `plugAll` brings the package back; a
shared dependency that is cloned again leaves others compiled against the old
one; a failed install removes what worked before, and what it installed on the
way is in no lock.

*Collections*: `HashMap.get` of a removed key returns the old value, its comment
says zero or null; `BiMap.put` leaves the entry of the old value behind; at 2^20
generations a handle of `SlotMap` is one of the next slot; a range of stride 0,
or past the largest int, never ends; the comment on `TreeMap` says it is
unbalanced; an `LruCache` of capacity 0 writes slot -1.

## 6. What is not modelled

Within the modelled parts: weak memory orders (the unlocked read of `done`); the
start of the pool; bump regions (an inline cursor), local regions without a
registry, snapshots; destructors that use their own region; the class arenas and
the failure reporter of programs without an operating system; the reserved
arena under the heap; weak references between threads; `goto` and labels, the
landing around an async body, `else`, `switch` and `foreach` in `Scopes`, whose
cleanup neither throws nor jumps; fields, aliases, borrows, lambdas, `defer`,
`match` and `finally` in `FlowFacts`; the other passes (constant folding,
immutable slots, dead code, purity) and the verifier; callbacks while a request
waits, and a time-out within half a frame; what is in the empty slots of a
`HashTable`, the growth of the array in `MinHeap`.

`select` polls `try_receive` of its channels in turn, which `Channel` models;
the order of its arms and the deadline are sequential and left out. What the
package manager promises does not hold of it (section 5); what does hold is
little more than a map updated in order. The registry of persistent objects is a
list read at start-up.

Components left out for good, unless a reason turns up: the lexer, the parser
and the monomorphiser (one pass from text to trees), types and overloads in
semantic analysis (too large to be shorter as a model than as a program), code
generation to LLVM, the driver and command line (they run the tools in order),
diagnostics, formatter and documentation (wording and layout), files, sockets,
subprocesses and terminal (thin wrappers over the operating system), text,
mathematics and data formats of the library (functions, tested where they are),
the test runner. The map of definitions to lines therefore covers a small part of the
repository: the parts above are most of its lines.

## 7. The plan

Done, with proofs: `Channel`; `TaskPool`; the synchronisers; `Parallel`; `Ipc`
against `RemoteCalls`; `Region` and `RingRegion`; `Heap` and `BumpArena`;
`CodeVault`; `Unimport`; `WeakList`; `BundleCache`; `Deque`; `SlotMap`; `LruCache`.
Done, checked by TLC: `LazyField`; `Scopes`; `FlowFacts`; three PIR passes; the
other three collections.

Next, the most consequential first:

| What | Models | Properties |
|---|---|---|
| `TaskPool`: start | `pool_start` with two first callers | nobody works without a lock |
| `FlowFacts`: `match`, `defer`, `finally` | the rest of the statements | `FactsHold` |
| `Ipc`: callbacks | a request inside a request, on one connection | `RepliesMatch` |
| sorting, graphs | `Algorithms.pol` | against reference definitions |

Composition: `MCSync`, `MCMemory`, `MCCompiler` and `MCCollections` each put
components side by side. A module of abstract behaviour stands beside
each component that promises one (`BoundedFifo`, `SharedLock`, `RemoteCalls`,
`Dictionary`, `Line`, `Recency`). Modules that are to be proved about declare no
`RECURSIVE` operator; recursion is by functions or folds.

## 8. Running it

In this directory, with the community modules on the path of both tools:

    tlc -workers 2 -config Channel.cfg Channel
    tlapm ContainerProofs.tla

and likewise for each run in `PROJECT.json`. The longest runs are `sync` and `ipc` (two
and a half minutes), `collections`, `compiler` and `memory` (one and a half to
two minutes each); the longest proofs are `MemoryProofs` (about
five minutes), `RegionProofs`, `AllocatorProofs` and `ContainerProofs` (three to four),
`IpcProofs` (two to three).
