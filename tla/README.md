# TLA+ models of mutty

mutty is a C++ network library in the style of muduo. It has three parts, and they hardly touch one another:

* **`src/buffer`** is a port of Netty's jemalloc-style pooled allocator:
  * `SizeClasses` are the size-class tables.
  * A `PoolArena` holds `PoolChunkList`s of `PoolChunk`s.
  * A chunk carves runs of pages and `PoolSubpage`s out of 16 MiB of memory.
  * Each thread has a `PoolThreadCache` of recently freed regions.
  * `PooledByteBuf` is the buffer object handed out, and the `Recycler` pools those objects.
  * `PooledByteBufAllocator` picks an arena per thread.
  * `LongAdder` counts statistics.
  * `Buffer` is a separate muduo-style byte vector.
* **`src/timer`** is a Kafka-style hierarchical timing wheel:
  * `Timer` owns a `TimingWheel` of `TimerTaskList` buckets.
  * A `DelayQueue` orders buckets by expiration.
  * A tick thread polls due buckets, advances the wheel clocks and flushes each bucket. Flushing re-adds every entry: entries that are due go to the thread pool, the others to a finer bucket.
* **`src/*.cpp`, `src/base`** are the muduo reactor:
  * `EventLoop` with its `Channel`s and `EPollPoller`.
  * Cross-thread calls go through `runInLoop`/`queueInLoop` and a wakeup fd.
  * `TcpConnection` is a four-state connection machine.
  * `TcpServer`, `Acceptor`, `Connector` and `EventLoopThreadPool` manage connections and loops.
  * `http` is a header-only shell over them.

The allocator is the largest and the most intricate part, so it is modelled first.

## Inventory

**Buffer allocator.**

* **`SizeClasses`** (SizeClasses.cpp) is computed once in the constructor and never changes. It is:
  * the table of size classes (index, log2Group, log2Delta, nDelta, isMultiPageSize, isSubpage, log2DeltaLookup);
  * `sizeIdx2sizeTab`, `pageIdx2sizeTab` and `size2idxTab`;
  * the lookups `size2SizeIdx`, `pages2pageIdx[Floor]` and `normalizeSize`.

  Hazard: off-by-one at every class boundary, and at the switch from table lookup to computation.
* **`PoolChunk`** state:
  * `runsAvail`: one priority queue of free-run handles per page class;
  * `runsAvailMap`: offset → handle, for the first and the last page of a free run;
  * `subpages[]` and `freeBytes`.

  Operations:
  * `allocate`, which goes through `allocateRun` (`runFirstBestFit`, `splitLargeRun`) or `allocateSubpage`;
  * `free`, which goes through the subpage free, or `collapsePast`/`collapseNext` then `insertAvailRun`;
  * `initBuf`.

  A handle packs offset, pages, used, subpage and bitmapIdx into 64 bits.
* **`PoolSubpage`**: a bitmap of equal elements in one run, `nextAvail`, `numAvail`, and a place in the arena's per-size doubly linked pool list, whose head carries a mutex. Operations: `allocate`, `free` (re-join the pool, keep the sole subpage, or release the run), `addToPool`, `removeFromPool`.
* **`PoolArena`** has two kinds of lock:
  * the arena mutex, around `allocateNormal` and `freeChunk`;
  * one mutex per subpage-pool head: the fast path of `tcacheAllocateSmall`, and inside chunk subpage allocate/free.

  Its chunk lists are qInit, q000, q025, q050, q075 and q100. Chunks move between them on usage thresholds after every allocation and free, and a chunk that leaves q000 downward is destroyed. Huge requests get an unpooled chunk.
* **`PoolThreadCache`**: per-size `MemoryRegionCache` queues of (chunk, handle) entries. Operations are add on free, allocate on allocate, trim and free. `PooledByteBuf::deallocate` hands the buffer's allocating-thread cache to `PoolArena::free`.

**Counters.** `LongAdder` (`Striped64<long>`) adds by a CAS on `m_base`. Under contention it adds by a CAS on one of a table of `Cell`s, `m_cells` of `nCells` slots, picked by the thread-local probe. The table is created with two slots, a Cell is attached to a null slot, and the table is doubled up to NCPU, all under the spin lock `m_cellsBusy`. `m_cells` and `nCells` are plain fields. `PoolArena` keeps four such counters.

**Timer.** A bucket list with a recursive mutex and an `atomic_flag` that guards its expiration. `setExpiration` tells whether to offer the bucket to the `DelayQueue`. `flush` re-adds all entries through `Timer::addTimerTaskEntry`. Overflow wheels are created on demand. A shared mutex separates `add` (shared) from `advanceClock` (unique).

**Reactor.**
* `EventLoop::loop` polls, handles events and runs pending functors.
* `quit` sets a flag and wakes the loop.
* `TcpConnection` moves kConnecting → kConnected → kDisconnecting → kDisconnected:
  * `send`, `shutdown` and `forceClose` may be called from any thread;
  * `handleRead`, `handleWrite`, `handleClose`, `connectEstablished` and `connectDestroyed` run in the loop thread.

The hazards that a model checker reaches and a test hardly does are listed, each at its source line, in `PROJECT.json` under `hazards`. The worst are:
* free runs that never coalesce (PoolChunk.cpp:391), and the abort or negative `freeBytes` this causes later (PoolChunk.cpp:153, 170) on a chunk that qInit keeps when emptied;
* timing-wheel buckets that all share one list (TimingWheel.cc:14 with the copy constructor of TimerTaskList);
* a flag that makes `setExpiration` give up under contention (TimerTaskList.cc:116);
* thread caches that grow without bound and return regions only when their own thread allocates again (PoolThreadCache.cpp:220, 67);
* a lost `quit` (EventLoop.cpp:120), and functors dropped when the loop quits (EventLoop.cpp:122);
* unsynchronised state changes of TcpConnection (TcpConnection.cpp:165, 176), which can re-register a destroyed connection's channel and close a connection twice;
* a `LongAdder` that drops counts: a thread pairs a new `m_cells` with an old `nCells` and doubles the table a second time (Striped64.h:100); and slots of `new Cell<T>*[n]` that are never written and are then dereferenced (Striped64.h:189);
* a missed wakeup between `doPendingFunctors` finding the queue empty and clearing its flag (EventLoop.cpp:155, the hazard listed at that line).

## Modules

### `SizeClasses.tla` (modelled)

The size-class table is built by `SizeClass`, `FirstGroup` and `LaterGroups`, in the order of `SizeClasses::sizeClasses`: first group, then groups until the size reaches the chunk. `LaterGroups` and `size2idxTab` are written in closed form (the least row count that reaches the chunk, and each block start as a count), not recursively, because PoolArena reaches them through an INSTANCE, where TLC re-evaluates them at every use. Each field keeps its name, and each code path of the lookups is kept:
* the `size2idxTab` table below `lookupMaxSize`;
* the log/shift computation above it;
* the floor adjustment of `pages2pageIdxCompute`.

`normalizeSize` also evaluates `normalizeSizeCompute`, because the code asserts that they agree.

`MCSizeClasses.tla` checks the default geometry (8 KiB pages, 16 MiB chunk). A single state variable `query` ranges over three kinds of query:
* every size up to `lookupMaxSize + 1`;
* every class size and its two neighbours;
* every page count up to the chunk.

This turns each check into an invariant evaluated per query.

### `PoolChunk.tla` (modelled)

A chunk is a record. Its fields are:
* `runsAvail`, the set of free-run handles. Queue *i* is the subset whose floor page class is *i*, and `poll` takes the least offset, as the min-heap does.
* `runsAvailMap`, a function from offsets to handles. It has `unordered_map::insert` semantics: an existing key is kept.
* `subpages`, `freeBytes`.

A handle is a record with the five fields of the bit layout. `NoValue` is the record that `-1` decodes to: offset -1, 0x7fff pages, both flags set.

Every chunk operation is an operator from (chunk, pools) to the new pair, so a later arena module can apply it to any chunk. The subpage pools are sequences with head insertion. "prev == next" is a pool of length one.

The specification drives one chunk the way the arena does. Each action is one locked section of the code, whole:

| Action | Code |
|---|---|
| `Allocate(sizeIdx)` | `PoolArena::allocateNormal` → `PoolChunk::allocate` (run or new subpage) → `initBuf` |
| `AllocateFromPool(sizeIdx)` | pool branch of `tcacheAllocateSmall`: `head->next->allocate()` → `initBufWithSubpage` |
| `Free(b)` | `PooledByteBuf::deallocate` → `PoolArena::freeChunk` → `PoolChunk::free(handle, maxLength)` |

The actions have these inputs and state:
* `bufs` is the bag of live buffers (handle, offset, maxLength).
* The constant `Asserts` says whether the build keeps `assert()`. With it, a failed assertion sets `aborted` and the process stops. Without it, the code carries on with what it computed.

### `PoolArena.tla` (modelled, with PoolChunk)

The arena holds several chunks. It reuses PoolChunk's operators through `PC == INSTANCE PoolChunk WITH chunk <- chunks`: only constant-level operators of PoolChunk are used, so the substitution of its variables is immaterial. State:
* `chunks`: a function from the addresses of live chunks (`ChunkIds`, model values) to chunk records;
* `lists`: for each of qInit, q000, q025, q050, q075 and q100, the sequence of chunk ids from `m_head` (`add0` inserts at the head; `m_parent` is the list that holds the chunk);
* `pools`: the subpage pools, refs now naming their chunk;
* `bufs`: live pooled buffers (chunk id, handle, offset, maxLength, `length` for `m_length`, `obj`, the address of the `PooledByteBuf` object, and `cache`, the thread whose cache `m_cache` points to); `huge`: live huge buffers (memory allocated, length given, object);
* `stacks[t]`: thread t's `Recycler<PooledByteBuf>::tStack`, top last. Object addresses (`Objs`) are model values; `newObject()` takes one that no buffer and no stack holds;
* `caches[t][i]`: thread t's `MemoryRegionCache` for size index i, its `m_queue` as a sequence of entries (chunk id, handle, normCapacity), front first; `cacheAllocs[t][i]` is its `m_allocations`, `allocations[t]` the `PoolThreadCache`'s;
* `aborted`: as in PoolChunk. The arena adds the asserts of `PoolChunkList::move` (usage below prevList's maxUsage), `move0` (usage 0 when q000 gives a chunk up) and `assert(success)` for a new chunk.

The thresholds are computed as the code computes them: `static_cast<int>(chunkSize * (100.0 - usage + 0.99999999) / 100L)` is one less than an exact quotient, the floor of any other positive one, and the truncation toward zero of a negative one (q100's freeMinThreshold). `maxCapacity` and `usage` are translated directly.

| Action | Code |
|---|---|
| `Allocate(t, sizeIdx)` | `PoolArena::allocate(cache, reqCapacity, maxCapacity)` of a pooled size on thread t: `newByteBuf` takes an object with `Recycler::get` (pop t's stack, or `newObject()` when it is empty); then `ArenaAllocate`, `allocate(cache, buf, reqCapacity)`. First `PoolThreadCache::allocate` on the size's cache: pop the front entry and `initBuf` from it, count, and `trim` every cache of the thread when the count reaches the sweep threshold (each frees `m_size - m_allocations` entries through `freeChunk`). Then the states `allocate` may end in, the union of three paths: `CacheHit`; `PoolAfterMiss`, the pool branch of `tcacheAllocateSmall` under the head lock; `NormalAfterMiss`, where under `m_mtx` `allocateNormal` tries q050, q025, q000, qInit, q075 (`PoolChunkList::allocate`: maxCapacity test, each chunk in order, then `remove` + `nextList->add` if the chunk is now too full), else a new chunk goes through `qInit->add`. `Allocate` commits one of them |
| `AllocateHuge(t, size)` | an object from `Recycler::get`, then `allocateHuge(buf, normalizeSize(size))`: `newUnpooledChunk`, `initUnpooled` |
| `Free(b, u)` | `PooledByteBuf::deallocate` on thread u → `PoolArena::free` with the buffer's `m_cache`: `PoolThreadCache::add` queues the region when its size has a cache (it never refuses), else `freeChunk`: under `m_mtx`, `m_parent->free` (`PoolChunk::free`, then `remove` + `move0` if too empty), and `destroyChunk` if no list kept it; then `recycle()` pushes the object on u's stack |
| `FreeHuge(h, u)` | `deallocate` of a huge buffer (`m_handle` 0): `PoolArena::free` destroys the unpooled chunk, then `recycle()` |
| `Capacity(b, u, c)` | `PooledByteBuf::capacity(c)` on thread u: in place (`resizesInPlace`: growing within `m_maxLength`, or shrinking to more than half of it when `m_maxLength > 512`), else `PoolArena::reallocate(buf, c, true)`: one of the states `ArenaAllocate` may end in (into the same object, through u's cache), then `freeOld` frees the old chunk, handle and `m_maxLength` with `buf->cache()`, which initBuf has just set to u's cache |

`tcacheAllocateSmall` releases the head lock before it takes `m_mtx`, so another thread can refill the pool in between. `NormalAfterMiss` therefore does not require the pool to be empty. `destroyChunk` runs after the lock is released. It is folded into `Free`: no other thread can reach a chunk that is in no list and has no live buffer or pooled subpage, and `NoDanglingChunkRef` checks exactly that.

The cache steps and the arena calls they lead to are one action. The cache is thread-local, so only the arena calls interleave with other threads, and each of those is a locked section. A trim that frees several entries takes and releases `m_mtx` once per entry; the model runs them back to back. Another thread's step in between touches only the arena, under the lock, so it cannot change what the trim frees. The one cross-thread access to a cache is `Free` of a buffer allocated on another thread, which pushes onto the owner's unsynchronized `std::queue`. That is a data race, and the model makes the push atomic.

The actions pass a record of the whole state from step to step, and `Bind` evaluates each intermediate state once. TLC's coverage mode does not cache operator arguments, so without `Bind` each use re-evaluates the whole chain.

### `TimingWheel.tla` (modelled)

Time is counted in ticks of the first wheel. Wheel *l* has tick `WheelSize^l`; at most `Levels` wheels exist. Each task is added once, by its own thread, and its entry is named by the task.

State and how it maps to the code:
* `lists[l]` is the one linked list that all buckets of wheel *l* share. `m_buckets.resize(wheelSize, TimerTaskList())` copy-constructs every bucket from one temporary, and the copy constructor copies the `shared_ptr`s `root`, `m_mtx` and `m_setFlag`. Only `m_expiration` is per bucket (`bexp`).
* `owner[t]` is `entry->list`, the bucket the entry was added through. `remove` unlinks only entries whose `list` is that bucket.
* `flag[l]` is the shared `m_setFlag`, holding the thread inside `setExpiration`.
* `dq` is the delay queue, a bag of (bucket, expiration) records. `poll` takes an entry of least expiration if it is not after `now`.
* `readers` and `writer` are `m_rwMutex`: `add` holds it shared, `advanceClock` holds it unique.
* `cur` and `nWheels` are the wheels' `m_currentTime` and the overflow chain. `fired` is the set of tasks handed to the thread pool.

| Action | Code |
|---|---|
| `Add(t, d)` | `addByDelay` → `Timer::add`: shared lock, `TimingWheel::add` (run at once if due, else create overflow wheels and `bucket.add`) |
| `TrySetFlag(t)` | `setExpiration`: `test_and_set`; if the flag is held it returns false and the bucket is not offered |
| `SetExpiration(t)` | `setExpiration` with the flag held: store, clear, `offer` if the expiration changed |
| `Unlock(t)` | `Timer::add` returns |
| `Poll` | `m_delayQueue->poll()` before the lock |
| `Lock` | the unique lock, when no adder holds it shared |
| `Advance` | `advanceClock(bucket->getExpiration())` through the overflow chain |
| `FlushStep` | one iteration of `flush`: `remove(head)`, `addTimerTaskEntry(head)` |
| `FlushFreed` | the iteration after a linked entry was deleted: undefined behaviour, not followed further |
| `FlushEnd` | the list is empty: `m_expiration = -1` |
| `Repoll` / `Release` | `poll` again under the lock: another due bucket, or unlock |
| `Tick` | the clock advances, up to `MaxTime` |

`getExpiration` has no return when the flag is held. That cannot happen: it is called only under the unique lock, and only adders, which hold the lock shared, ever hold the flag.

### `Reactor.tla` (partly: EventLoop, EventLoopThread, Channel/EPollPoller, TcpConnection, TcpServer)

One I/O `EventLoop` of a `TcpServer` with a pool of one `EventLoopThread`, from `setIoLoopNum` to `~TcpServer`, serving at most one `TcpConnection`, and the threads around it. The module's header explains the choice of steps. The loop thread's handler and every call it makes are one step: the callbacks, `Channel::update` into the poller, and the `runInLoop` that runs in place. A step of another thread is one load, one store or one system call.

State:
* `conn`: the connection's `state_` and `outputBuffer_` length, its `Channel`'s events and `index_`, whether `EPollPoller::channels_` holds it, and what epoll has registered.
* `sock`: the kernel's side. It holds unread bytes, the peer's FIN, the room left in the send buffer, and `SHUT_WR`.
* `funcs`, `wake`, `calling`, `quit`: `funcs_`, the eventfd counter being non-zero, `callingPendingFuncs_` and `quit_`.
* `lpc`, `active`: where `loop()` is, and the `activeChannels_` still to dispatch.
* `upc`, `ufun`, `uops`: the user thread.
* `removals`, `inConns`: the server loop's queued `removeConnectionInLoop` calls and `connections_`.
* `spc`: where the server's thread is, from the `EventLoopThread` constructor to `thread_.join()`.
* `loopPtr`, `runSet`, `loopRunning`: `loop_` being non-null, `promiseForRun_` set, and `promiseForLoop_` set by the loop's first functor.
* `accepted`: the connection has been accepted; before that, the peer does not act.

| action | code |
|---|---|
| `Poll` / `LoopExit` | the `while (!quit_)` test and `epoll_wait`: every ready channel in any order, or nothing after the timeout |
| `HandleWakeup` | `EventLoop::handleRead` drains the eventfd |
| `HandleConn` | `Channel::handleEvent`: HUP without IN → `handleClose`; IN → `handleRead` (message callback: drop, echo by `send`, or `shutdown`; 0 bytes → `handleClose`); OUT → `handleWrite` |
| `EventsHandled`, `RunFunctor`, `FunctorsDrained`, `PendingDone` | `doPendingFunctors`: set the flag, run functors, find the queue empty, clear the flag |
| `ThreadFuncStart`, `LoopStart`, `ThreadFuncEnd` | `threadFunc`: build the loop, queue the functor that sets `promiseForLoop_`, publish `loop_`; wait for `promiseForRun_`, then `loop()` (which clears `quit_`); `loop_ = NULL` and return |
| `UserSend`, `UserShutdown`, `UserForceClose` | the user thread's load of `state_` |
| `UserSetState`, `UserEnqueue`, `UserWakeup` | the store of kDisconnecting, `funcs_.enqueue`, and `wakeup()` under `queueInLoop`'s condition |
| `CtorReturns`, `RunSetPromise`, `RunReturns` | `EventLoopThread`'s constructor gets `loop_`; `EventLoopThreadPool::start` → `run()`: set `promiseForRun_`, wait for `promiseForLoop_` |
| (helpers) `updateChannel`, `removeChannel`, `update` | `EPollPoller::updateChannel` and `removeChannel` choose EPOLL_CTL_ADD, MOD or DEL from `index_`; `update` is the `epoll_ctl` call that changes what epoll has registered |
| `NewConnection`, `NewConnectionWakeup` | `newConnection`: `connections_[name] = conn`, `runInLoop(connectEstablished)` from another thread (enqueue, wakeup) |
| `ServerDestroy`, `DtorWakeup` | `~TcpServer`: `runInLoop(connectDestroyed)` for a connection still in `connections_` |
| `DtorQuit`, `DtorQuitWakeup`, `Join` | `~EventLoopThread`: `loop_->quit()` (store, wakeup), `thread_.join()` |
| `RemoveConnectionInLoop` | the server loop erases the connection |
| `PeerSend`, `PeerRead`, `PeerClose` | the peer writes a byte, empties our send buffer, or sends FIN |

`handleClose` is the whole chain: `state_ = kDisconnected`, `disableAll`, `TcpServer::removeConnection` (queue the removal on the server loop, then `connectDestroyed`: `channel_->remove()`). `sendInLoop` writes directly when nothing is buffered. A write can be partial (the send buffer's room), `EWOULDBLOCK`, or `EPIPE` after our `SHUT_WR`. The rest is buffered and POLLOUT is enabled. A write-complete callback is queued from the loop thread, so `queueInLoop` runs inside `doPendingFunctors`.

The initial state is `setIoLoopNum(1)`: the pool's `EventLoopThread` has started `threadFunc`, and its constructor waits for the loop pointer. ~EventLoopThread is the only caller of `quit` (the user thread has no reference to the loop). The user thread gets the connection from the connection callback, so it acts only after `connectEstablished`.

### `LongAdder.tla` (partly: LongAdder::add and Striped64::longAccumulate) and `AtomicCounter.tla`

`AtomicCounter` is what a statistics counter promises. Each `add(x)` takes effect once, at one instant between its call and its return: `Call(t)`, then `Add(t)`. `LongAdder` is the code, step by step, with one shared access per step:
* a load, a store or a CAS; `compare_exchange_weak` does not fail spuriously on x86;
* accesses that the lock holder alone can interfere with are merged;
* a test `!m_cellsBusy && casCellsBusy()` is one step, because it fails the same way at the load and at the CAS.

State and how it maps to the code:
* `base`, `busy`, `cellsRef`, `nCells` are `m_base`, `m_cellsBusy`, `m_cells` and `nCells`.
* `tables` holds every table ever allocated, as slot → Cell id, `Null` or `Stray`.
* `cellVal` holds each attached Cell's value.
* `probe[t]` is the thread-local probe. Only its low bits are used, and `localinit` and `advanceProbe` choose them freely.
* `pc[t]` and `l[t]` are the position and the locals (`cs`, `n`, `c`, `v`, `index`, `wasUncontended`, `collide`, `created`/`init`) of `add` and `longAccumulate`.

The memory the code reads without having written is the interesting case. `StrayValues` gives what such memory reads as: `nullptr` or a stray pointer, or only `nullptr` when `StrayReadsNull`. Such memory is:
* a slot of `new Cell<T>*[n]`;
* a slot past the end of `cs`, read with a newer, larger `nCells`.

A thread that dereferences a stray pointer goes to `"wild"` and stops.

| Action | Code |
|---|---|
| `Call` | `add`: `cs = m_cells`, `m = nCells - 1`, `index = probe` |
| `AddLoadBase`, `AddCasBase` | `casBase(b + x, b = m_base.load())`; on failure `EnterLA` (`localinit` when the probe is 0) |
| `AddReadSlot`, `AddLoadCell`, `AddCasCell` | `c = m_cells[index & m]`, `c->value.load()`, `casCellValue` |
| `LaReadCells`, `LaReadN` | the loop's `cs = m_cells` and `n = nCells`, two loads |
| `LaReadSlot` | `c = cs[(n-1) & index]`; null slot, `!wasUncontended` (rehash) or on to the CAS |
| `LaAttach`, `LaAttachUnlock` | take the lock, re-read `m_cells`/`nCells`, store a new Cell if the slot is still null; release; break if created |
| `LaLoadCell`, `LaCasCell` | `casCellValue(v + x, v = c->value.load(), c->value)` |
| `LaCollide` | `n >= NCPU \|\| m_cells != cs`, `!collide`, or on to doubling |
| `LaExpandLock`, `LaCopy`, `LaExpandN`, `LaExpandUnlock` | lock; if `m_cells == cs`: `m_cells = new Cell<T>*[n << 1]`, copy `cs[0..n-1]`, `nCells = n << 1`; unlock |
| `LaInitTry`, `LaInitLock`, `LaInitN`, `LaInitPublish`, `LaInitUnlock` | `!busy && m_cells == cs`, lock and re-check, `nCells = 2` and the private `rs` with one Cell, `m_cells = rs`, unlock |
| `LaLoadBase`, `LaCasBase` | the fallback `casBase` |

The refinement `AC == INSTANCE AtomicCounter WITH ...` maps the state as follows:
* `count` is `Counted`: `m_base` plus every Cell reachable from `m_cells`, and from `cs` while a doubling is between publishing the new table and copying into it. That is what a quiescent `sum()` reads.
* An add takes effect at its successful CAS, or when its Cell is stored in a table (`created`).

`AdderIsCounter` is `AC!SafeSpec`: the implementation's steps are the counter's steps or stutters. `CountExact` is its data part: the count equals X times the adds that have taken effect.

### Runs

| run | cfg | checks | shows |
|---|---|---|---|
| sizeclasses | MCSizeClasses.cfg | SizeTableShape, Size2SizeIdxIsLeastFit, NormalizeSizeIsClassSize, PageIdxBracketsPages | The tables increase and end at the chunk size. Lookups give the least fitting class, and `pages2pageIdx[Floor]` brackets every page count. The table path and the computed path of `normalizeSize` agree. |
| chunk_small | MCPoolChunk.cfg | TypeOK, PagesPartitioned, RunsAvailIndexed, FreeBytesAccounted, SubpagesConsistent, NoAliasing | 8-page chunk, sizes 4 KiB (small, two per page) and 32 KiB (4-page run), at most 3 live buffers. Every page belongs to exactly one free run, used run or subpage. Queues and the offset map agree. `freeBytes` equals the free pages plus the free subpage elements. Pool lists hold exactly the subpages with free elements (or the sole one). Live buffers never overlap. |
| arena | MCPoolArena.cfg | TypeOK, ChunksListedOnce, ListsMatchUsage, NoDanglingChunkRef, NoAbort, RegionsHeldOnce, ObjectsHeldOnce, LengthWithinRegion | Two 8-page chunks and one thread with caches of one entry, trimmed every second allocation. Requests are 16 KiB (a 2-page subpage, cached), 32 KiB (cached) and 64 KiB (not cached), plus one huge size, with at most 2 live buffers and two buffer objects; `capacity(40 KiB)` reallocates the smaller buffers into a 5-page run and shrinks the whole-chunk one in place. Every live chunk is linked once, in one list. Each chunk's `freeBytes` lies in the band (freeMinThreshold, freeMaxThreshold] of its list, even though `add` checks only the lower bound and `move` only the upper one. q000 destroys a chunk only when no buffer, cached region or pooled subpage refers to it. No region is held by two buffers, by a buffer and a cache entry, or by two entries, reallocate's free of the old region through the new cache included. No buffer object is held by two buffers, or by a buffer and a recycler stack. Every buffer's `m_length` fits its `m_maxLength`. No assert fails. |
| arena_qinit_abort | MCPoolArena_qinit.cfg | NoAbort (violation) | A 4 KiB subpage keeps a chunk in qInit, under 25% use. Freeing it empties the chunk, qInit keeps it, and collapseNext leaves it as two free runs. The next 32 KiB request reaches it and `runFirstBestFit`'s assert fails. |
| timer_one | MCTimingWheel_one.cfg | EveryTaskFires, FlushEnds | One task with delay 0, 1, 2 or 4 ticks reaches either wheel, cascades and runs; every flush returns. The type invariant and NoEarlyFire are checked by timer_two, whose two tasks include every behaviour of this run. |
| timer_two | MCTimingWheel.cfg | TypeOK, LinksMatchOwners, NoEarlyFire | Two concurrent adders: each entry is linked once, in the list its `list` pointer names, and no task runs before its expiration. |
| timer_livelock | MCTimingWheel_livelock.cfg | FlushEnds (violation) | Tasks due at ticks 1 and 2 sit in two buckets of the first wheel. Flushing bucket 1 runs the first task and then meets the second, not due: it is re-appended to the list being walked, and the loop never ends. The looping step leaves the state unchanged, so TLC shows it as stuttering with `tpc = "flush"`. |
| timer_dangling | MCTimingWheel_dangling.cfg | NoDanglingEntry (violation) | The tick thread polls the bucket of tick 2 before the bucket of tick 1 is offered. Flushing it runs the tick-1 task, which it cannot unlink, and deletes it while still linked. |
| reactor | MCReactor.cfg | TypeOK, NoLostWakeup, PollerConsistent, WriteSideOrdered, ClosedConnectionReleased, QuitEndsLoop | The loop never blocks in `epoll_wait` with functors queued and no wakeup pending. That rests on `queueInLoop`'s condition and on `doPendingFunctors` re-checking the queue before it clears its flag. The poller's map, the channel index and epoll's interest list agree through close and double close. While the channel is registered, buffered bytes mean POLLOUT is watched and the socket is not shut for writing. A peer's FIN leads to the connection's removal from `connections_`, unless the loop quits first. `~EventLoopThread`'s quit always ends the loop: `loop()` clears `quit_` when it starts, and only `run()` waiting for the loop's first functor keeps that quit from being lost. |
| reactor_erase_twice | MCReactor_erase.cfg | ConnectionErasedOnce (violation) | Two `forceClose` calls: the second stores kDisconnecting after `handleClose`, its queued `forceCloseInLoop` runs `handleClose` again, and `removeConnectionInLoop` erases the connection twice; `assert(n == 1)` (TcpServer.cpp:116) fails. |
| longadder | MCLongAdder.cfg | TypeOK, AdderIsCounter | Three threads (2, 2 and 1 adds), NCPU = 4, unwritten memory reading as nullptr. The run covers the table's creation, attaching, one doubling, the fallback on `m_base` and the lock contended in each. Every add takes effect exactly once, inside its call, as in an atomic counter. |
| longadder_lost | MCLongAdder_lost.cfg | CountExact (violation) | Three threads of three adds. One reads the new `m_cells` of a doubling and the old `nCells`, doubles the four-slot table again from n = 2, and drops the Cell in slot 2 with its count. |

The allocator violations are code bugs:
* `collapseNext` (PoolChunk.cpp:391) reads the next run's offset with `calculateRunPages`, so runs are merged forwards only when a run's page count happens to equal its offset. With the default 2048-page chunk, any allocation of p pages with p ≠ 2048 − p, once freed, leaves the chunk fully free but in two runs.
* `runFirstBestFit` (PoolChunk.cpp:153) then sends the whole-chunk request to the empty last queue. The next allocation that reaches the chunk aborts a debug build. With `NDEBUG` it uses NO_VALUE as a run of 0x7fff pages at offset -1 and drives `freeBytes` negative. q000 destroys the chunks it empties, so in the arena only a chunk emptied in qInit meets this. That is a chunk that never passed 25% use, so any workload of small buffers meets it (arena_qinit_abort).
* `newUnpooledChunk` (PoolArena.cpp:256) allocates `m_chunkSize` bytes for every huge chunk, so every huge buffer is longer than its memory. Every huge request meets this, so no search is needed to find it: `HugeFits` in PoolArena.tla states it and the first `AllocateHuge` violates it. No run checks it, to leave the run slots to the interleavings.
* `PooledByteBufAllocator::initialValue` picks `leastUsedArena` under `m_lockThreadcache`, but the `PoolThreadCache` constructor increments `m_numThreadCaches` after the lock is released (PoolThreadCache.cpp:13), so two threads starting together can bind to the same arena. This affects load balance, not the safety of an arena; the model has one arena, and the hazard is listed without a run.

The reactor violation is a code bug: `forceClose` (TcpConnection.cpp:176) tests and stores `state_` from the user thread without compare-and-swap and always queues `forceCloseInLoop`, so `handleClose` can run twice for one connection (reactor_erase_twice).

Two more reactor asserts fail in the same instance. They are stated as properties in Reactor.tla and listed as hazards, but no run slot is free for them:
* `RemovedChannelIdle` (Channel.cpp:36): `~TcpServer`'s `connectDestroyed` on a connection the user is closing removes a channel that still has events.
* `ServerFunctorsRun` (EventLoop.cpp:122): `~TcpServer` queues `connectDestroyed`, then `~EventLoopThread` stores `quit_`, and `loop()` can test `quit_` before it runs the functor. The connection is then destroyed in kConnecting or kConnected, and its destructor's assert fails.

The timer violations are code bugs:
* the shared bucket list makes `flush` spin for ever with the write lock held (TimingWheel.cc:14; timer_livelock);
* a flush deletes entries of other buckets that are still linked (Timer.cc:68; timer_dangling).

Two more timer bugs are stated in TimingWheel.tla. TLC violates both with MCTimingWheel.cfg's bounds, but their runs were given up for the LongAdder runs:
* `BucketQueued`: the shared flag drops offers (TimerTaskList.cc:116);
* `QueuedOnTime`: buckets are queued with their first entry's expiration (TimingWheel.cc:50).

The LongAdder violation is a code bug. `longAccumulate` reads `m_cells` and `nCells` as two plain loads (Striped64.h:100), and a doubling stores `m_cells` (line 166) before `nCells` (line 171). A thread can therefore pair the new four-slot table with n = 2. That passes `n < NCPU` and `m_cells == cs`, so after the first doubling releases the lock the thread doubles the table again to 4 slots, copying only slots 0 and 1. A Cell attached meanwhile in slot 2 or 3 is lost with its count (longadder_lost). Java's Striped64 takes n from `cs.length`, and cannot mix the two.

The run restricts every probe's low bits to 2, to keep the search short. `localinit` seeds the probe from `random_device` and `advanceProbe` is a xorshift, so such a run of low bits occurs for some seeds, and the behaviour is one the code has.

A second LongAdder bug has no run slot. `new Cell<T>*[2]` (Striped64.h:189) and `new Cell<T>*[n << 1]` (line 166, published before its copy) leave slots unwritten. Both `add` and `longAccumulate` test a slot only against `nullptr` and dereference anything else. `NoWildCell` states it. With `StrayReadsNull = FALSE`, TLC violates it in 15 states: the table is created with slot 0 unwritten, and another thread's `add` dereferences that slot. The LongAdder runs therefore assume unwritten memory reads as `nullptr`. Under that assumption the refinement holds with three threads of (2, 2, 1) adds, and fails only through the stale `nCells`.

Every property of a passing run has a mutant in `PROJECT.json`. A mutant is a plausible slip in the code the property is about, and TLC finds it. Examples: a split that overlaps the allocated part, a removal that forgets the last-page key, free credited with the collapsed size, a subpage that does not re-join its pool, a subpage handle without the element offset.

### Bounds

* Page size 8 KiB is the code's default; only the chunk is made small.
* An 8-page chunk holds a 4-page run, a subpage and their remainders. That is enough for splits and merges in both directions, subpage pools with one and two subpages, and a full subpage. 4 KiB elements fill a page in two, so "full", "re-joins the pool" and "sole subpage kept" all occur within 3 live buffers.
* `MaxBufs = 3` bounds the live buffers of chunk_small. A fourth buffer only repeats shapes already seen, and quadruples the 30 s run.
* The arena run has `MaxBufs = 2`, one thread, cache queues of `m_size` 1 (`SmallCacheSize = NormalCacheSize = 1`, the code's 256 and 64 scaled down) and a sweep threshold of 2 (the code's 8192). With the objects and `capacity(40 KiB)` that is 319,352 states, about 2 min 45 s to 3 min 30 s with coverage on; without `capacity` it is 124,375. Two object addresses are enough for two live buffers on one thread, whose stack hands back what it took. With these values a trim follows every second allocation, so trims that free nothing, free one entry, or empty a chunk through q000 all happen within the bound. A second thread only adds an independent cache, and it takes the state space past the time bound.

* Arena: two 8-page chunks. The requests are 16 KiB (25%: a new chunk leaves qInit at once), 32 KiB (50%: q025 or q050) and 64 KiB (100%: only qInit's maxCapacity admits it, and `add` passes the chunk on to q100). Freeing walks back down through `move`, to q000 and destruction. Every request is at least a quarter of a chunk, so no chunk is emptied while in qInit. That path aborts (arena_qinit_abort), and the pass run would only show the abort again. Chunk addresses are symmetric model values: nothing compares them.

* Reactor: one connection, which the server may accept and may destroy at any point; the user thread makes at most 2 calls (send of 2 bytes, shutdown, forceClose); the peer writes at most 1 byte; the send buffer holds 1 byte, so a 2-byte send or echo is partly written, buffered and finished by `handleWrite`. That is 376,196 states in about 80 s with coverage on. Two user calls are enough for every cross-thread race here: each race is one call against the loop thread, and the double erase needs two. A 1-byte send and a second peer byte only repeat shapes the 2-byte send already reaches, and take the run past 6 minutes.

* Timer: `WheelSize = 3`, `Levels = 2`, `MaxTime = 6` and delays {0, 1, 2, 4}. These reach the immediate run, both wheels, overflow-wheel creation, the cascade from the second wheel and two buckets of one wheel. Two tasks are enough for every timer finding: each needs exactly two entries, or two adders.

* LongAdder: three threads. The base fallback needs two threads that fail `casBase` while a third creates the table. A doubling needs three failed cell CASes by one add. NCPU = 4 lets the table double once, from 2 to 4 slots. With (2, 2, 1) adds that is 872,040 states, about 70 s with coverage on. The lost count needs about ten failed CASes spread over three threads, so its run has three adds each, and probes fixed as above.

Fairness: the allocator and LongAdder runs check only safety. LongAdder's `Spec` states weak fairness of each thread inside `add`, which the OS scheduler gives. Checking that every add returns under it takes the LongAdder run past 9 minutes, so no run checks it. The timer assumes weak fairness of:
* the tick thread, which `startTick` runs in a loop while the timer is running;
* each adding thread once it is inside `add`;
* the clock.

Starting an `add` is the caller's choice and is not fair. The reactor assumes weak fairness of the loop thread, which `epoll_wait`'s 10 s timeout keeps from blocking for good, of the server loop's removal, and of the server thread's steps once it has begun them (`ServerProgress`: the constructor, `run()`, the wakeups, the destructor's quit and join, each of which only waits on a promise or a thread the model makes progress on). Accepting a client and destroying the server are the environment's choice and are not fair, nor are the user and the peer. `CHECK_DEADLOCK FALSE` holds there: after `~TcpServer` the loop thread has returned and been joined, and a server that is never destroyed may idle. `CHECK_DEADLOCK FALSE` holds for the timer runs: when every task has run and the clock is at `MaxTime`, the real tick thread polls an empty queue for ever, and the model's silence is that.

## Not modelled yet, and the plan

Sittings to come, in this order:

1. **Timer refinement**: an abstract timer (a set of pending tasks, each fired once, not before its expiration) as a refinement target of `TimingWheel`. It can be checked on the single-task configuration, because the two-task one breaks it.
2. **Allocator refinement**: an abstract allocator spec (a set of disjoint live regions) refined by PoolChunk through a mapping from handles to byte intervals.
3. **Thread caches, further**: a second thread in a smaller configuration. The cross-thread free is modelled atomically, so a second thread would add another cache and no new interleaving. It would let buffer objects migrate between recycler stacks: `Recycler::recycle` (Recycler.h:39) pushes without a bound (its `assert(tStack.size() <= INITIAL_CAPACITY)` is commented out), so a thread that frees what others allocate grows its stack for ever while the allocating threads keep calling `newObject()`.
4. **Server teardown, further**: the violations of `RemovedChannelIdle` and `ServerFunctorsRun` as runs of their own, if run slots allow.
5. **EventLoopThread, further**: the `loop_ != NULL` check of `~EventLoopThread` racing `threadFunc`'s `loop_ = NULL` is unreachable while `~EventLoopThread` is the only caller of `quit`; a second quitter would reach it.
6. **LongAdder, further**: the progress property (every add returns) on a two-thread instance, and `NoWildCell` as a run if a run slot frees.
7. **TcpServer/Connector**: several connections and I/O loops, the round-robin choice, and the Connector's retry back-off.

The following are left out on purpose:
* Socket and InetAddress: system calls. epoll itself is the model's environment (level-triggered readiness), and POLLERR and ECONNRESET are not modelled.
* Buffer and the index arithmetic of PooledByteBuf (reader and writer indices, `writeBytes`, `retrieve`, the byte copy of `reallocate`): sequential, and reached by unit tests. `~PooledByteBuf` calls `deallocate`, which recycles the object being destroyed; nothing in the repository deletes a buffer, so that path is not modelled. `capacity()` of a huge buffer is left out too.
* The allocator's statistics counters (`m_allocations*`, `m_activeBytesHuge`): no decision reads them.
* LongAdder: `sum()` is not an action. It reads while adds run, and it is exact only when quiescent, which is what `Counted` is. The Cell leaked when `casCellsBusy` fails after `new Cell<T>(x)` (Striped64.h:109), the destructor, and `DoubleAdder` are also left out. `DoubleAdder` is the same code over `double`.
* http: no state of its own.
* The thread pool and the MPSC queue: they are not in the repository.
