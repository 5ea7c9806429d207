----------------------------- MODULE PoolArena -----------------------------
(***************************************************************************)
(* The arena of src/buffer/PoolArena.cpp with its six PoolChunkLists       *)
(* (src/buffer/PoolChunkList.cpp): several chunks, each in the list its    *)
(* usage belongs to, moved forward by PoolChunkList::allocate/add and back *)
(* by PoolChunkList::free/move/move0, and destroyed when q000 lets go of   *)
(* an empty one.  The chunks themselves are PoolChunk's operators, applied *)
(* to the chunk a list picks.  Huge requests get an unpooled chunk.        *)
(*                                                                         *)
(* Every action is one call made under the lock that guards it: the      *)
(* arena lock m_mtx for allocateNormal and freeChunk, the subpage pool's  *)
(* head lock for the pool branch of tcacheAllocateSmall.  Each thread has *)
(* the PoolThreadCache of src/buffer/PoolThreadCache.cpp: a FIFO of freed  *)
(* regions per cached size index, tried before the arena and trimmed back *)
(* to it every FreeSweepAllocationThreshold allocations.  A thread's cache *)
(* steps and the arena calls they lead to form one action.                *)
(***************************************************************************)
EXTENDS SizeClasses, SequencesExt, Bags, BagsExt

CONSTANTS
  Asserts,      \* TRUE: built without NDEBUG, a failed assert() aborts
  ReqSizeIdxs,  \* pooled size indices requested by callers
  HugeSizes,    \* request sizes above ChunkSize
  ChunkIds,     \* addresses a new chunk may get (bounds the live chunks)
  MaxBufs,      \* bound on live buffers
  Threads,      \* threads, each with its own PoolThreadCache
  SmallCacheSize, NormalCacheSize, MaxCachedBufferCapacity,
  FreeSweepAllocationThreshold, \* the PoolThreadCache constructor's arguments
  Objs,         \* addresses a new PooledByteBuf object may get
  NewCapacities \* arguments of PooledByteBuf::capacity (pooled sizes)

VARIABLES
  chunks,    \* live pooled chunks: id -> PoolChunk record
  lists,     \* PoolChunkList name -> sequence of chunk ids from m_head
  pools,     \* m_smallSubpagePools: size index -> refs from head->next
  bufs,      \* live pooled buffers [cid, handle, offset, maxLength, cache]
  huge,      \* live huge buffers [memory, length]
  caches,    \* thread -> cached size index -> MemoryRegionCache m_queue
  cacheAllocs, \* thread -> cached size index -> MemoryRegionCache m_allocations
  allocations, \* thread -> PoolThreadCache m_allocations
  stacks,    \* thread -> Recycler<PooledByteBuf>::tStack, top last
  aborted    \* an assert() has stopped the process

vars == <<chunks, lists, pools, bufs, huge, caches, cacheAllocs, allocations, stacks, aborted>>

PC == INSTANCE PoolChunk WITH chunk <- chunks

NoValue == PC!NoValue

(***************************************************************************)
(* The lists built by the PoolArena constructor: minUsage, maxUsage,       *)
(* nextList and prevList ("none" for nullptr).                             *)
(***************************************************************************)
ListNames == {"qInit", "q000", "q025", "q050", "q075", "q100"}

minUsage == [qInit |-> -8192, q000 |-> 1, q025 |-> 25, q050 |-> 50,
             q075 |-> 75, q100 |-> 100]
maxUsage == [qInit |-> 25, q000 |-> 50, q025 |-> 75, q050 |-> 100,
             q075 |-> 100, q100 |-> 8192]
nextList == [qInit |-> "q000", q000 |-> "q025", q025 |-> "q050",
             q050 |-> "q075", q075 |-> "q100", q100 |-> "none"]
prevList == [qInit |-> "qInit", q000 |-> "none", q025 |-> "q000",
             q050 |-> "q025", q075 |-> "q050", q100 |-> "q075"]

(* Mutant: the threshold taken as the exact quotient, without the 1 the  *)
(* double's truncation loses when chunkSize*(101-usage) divides by 100.   *)
thresholdExact(usage) ==
  IF usage = 100 THEN 0
  ELSE IF ChunkSize * (101 - usage) > 0
    THEN (ChunkSize * (101 - usage)) \div 100
  ELSE -((ChunkSize * (usage - 101)) \div 100)

(* static_cast<int>(chunkSize * (100.0 - usage + 0.99999999) / 100L): the  *)
(* double lies just below chunkSize*(101-usage)/100, so truncation toward  *)
(* zero gives one less than an exact positive quotient, the floor of any   *)
(* other positive one, and minus the floor of the magnitude when negative. *)
threshold(usage) ==
  IF usage = 100 THEN 0
  ELSE IF ChunkSize * (101 - usage) > 0
    THEN IF (ChunkSize * (101 - usage)) % 100 = 0
           THEN (ChunkSize * (101 - usage)) \div 100 - 1
         ELSE (ChunkSize * (101 - usage)) \div 100
  ELSE -((ChunkSize * (usage - 101)) \div 100)

freeMinThreshold(l) == threshold(maxUsage[l])
freeMaxThreshold(l) == threshold(minUsage[l])

(* PoolChunkList::calculateMaxCapacity *)
maxCapacity(l) ==
  IF minUsage[l] = 100 THEN 0
  ELSE (ChunkSize * (100 - (IF minUsage[l] > 0 THEN minUsage[l] ELSE 0))) \div 100

(* PoolChunk::usage *)
usage(c) ==
  IF c.freeBytes = 0 THEN 100
  ELSE IF (c.freeBytes * 100) \div ChunkSize = 0 THEN 99
  ELSE 100 - (c.freeBytes * 100) \div ChunkSize

(***************************************************************************)
(* The list surgery of PoolChunkList, on the lists function.               *)
(***************************************************************************)
(* PoolChunkList::add0: link at the head (and set m_parent).               *)
add0(ls, l, cid) == [ls EXCEPT ![l] = <<cid>> \o @]

(* Mutant: remove unlinks the chunk only when it is m_head.              *)
removeHeadOnly(ls, l, cid) ==
  IF ls[l] /= << >> /\ Head(ls[l]) = cid THEN [ls EXCEPT ![l] = Tail(@)] ELSE ls

(* PoolChunkList::remove *)
remove(ls, l, cid) == [ls EXCEPT ![l] = SelectSeq(@, LAMBDA x : x /= cid)]

(* Mutant: add links the chunk here without checking freeMinThreshold.   *)
addNoForward(ls, l, cid, freeBytes) == add0(ls, l, cid)

(* PoolChunkList::add: pass a chunk on while it is too full for the list. *)
RECURSIVE add(_, _, _, _)
add(ls, l, cid, freeBytes) ==
  IF freeBytes <= freeMinThreshold(l)
    THEN add(ls, nextList[l], cid, freeBytes)
  ELSE add0(ls, l, cid)

(* PoolChunkList::move0 and move, as one recursion: hand the chunk to     *)
(* prevList p while it is too empty for p (move asserts usage < p's       *)
(* maxUsage).  kept is FALSE when q000, which has no prevList, gives it   *)
(* up to be destroyed (move0 asserts usage 0).                             *)
RECURSIVE move0(_, _, _, _)
move0(ls, l, cid, c) ==
  LET p == prevList[l]
  IN IF p = "none"
       THEN [lists |-> ls, kept |-> FALSE, aborted |-> Asserts /\ usage(c) /= 0]
     ELSE IF Asserts /\ usage(c) >= maxUsage[p]
       THEN [lists |-> ls, kept |-> TRUE, aborted |-> TRUE]
     ELSE IF c.freeBytes > freeMaxThreshold(p)
       THEN move0(ls, p, cid, c)
     ELSE [lists |-> add0(ls, p, cid), kept |-> TRUE, aborted |-> FALSE]

(***************************************************************************)
(* A state st is a record of the variables the arena and the caches share *)
(* (all but huge), with the thread that acts, ok, and the buffer an       *)
(* allocation produced.                                                    *)
(***************************************************************************)
Cur(t) == [chunks |-> chunks, lists |-> lists, pools |-> pools, bufs |-> bufs,
           caches |-> caches, cacheAllocs |-> cacheAllocs,
           allocations |-> allocations, stacks |-> stacks, aborted |-> aborted,
           thread |-> t, ok |-> FALSE, buf |-> NoValue, obj |-> NoValue, req |-> 0]

Failed(st) == [st EXCEPT !.ok = FALSE]

(* F applied to the value of e, e evaluated once: the steps of one call   *)
(* are chained through Bind so that each intermediate state is computed   *)
(* once.                                                                   *)
Bind(e, F(_)) == CHOOSE y \in {F(x) : x \in {e}} : TRUE

(* The buffer init0 builds in the object st.obj for handle of chunk cid,  *)
(* with m_cache the calling thread's cache and m_length the request.      *)
newBuf(st, cid, c, handle) ==
  [cid |-> cid, cache |-> st.thread, obj |-> st.obj, length |-> st.req] @@ PC!initBuf(c, handle)

(***************************************************************************)
(* Recycler<PooledByteBuf> (src/buffer/Recycler.h): a thread-local stack  *)
(* of objects, filled by PooledByteBuf::recycle on the thread that calls   *)
(* deallocate and emptied by PooledByteBuf::newInstance on the thread that *)
(* allocates.                                                              *)
(***************************************************************************)
(* The objects a live buffer, pooled or huge, or a stack holds.           *)
HeldObjs ==
  {b.obj : b \in BagToSet(bufs)} \cup {h.obj : h \in BagToSet(huge)}
    \cup UNION {Range(stacks[t]) : t \in Threads}

(* Mutant: get returns tStack.top() and leaves it on the stack.          *)
recyclerGetNoPop(st) ==
  IF st.stacks[st.thread] = << >>
    THEN {[st EXCEPT !.obj = x] : x \in Objs \ HeldObjs}
  ELSE {[st EXCEPT !.obj = Last(st.stacks[st.thread])]}

(* Recycler::get on st.thread: pop the top of tStack, or newObject() at   *)
(* an address no object has when the stack is empty.                       *)
recyclerGet(st) ==
  IF st.stacks[st.thread] = << >>
    THEN {[st EXCEPT !.obj = x] : x \in Objs \ HeldObjs}
  ELSE {[st EXCEPT !.obj = Last(st.stacks[st.thread]),
                   !.stacks[st.thread] = Front(@)]}

(* Recycler::recycle on thread u: push the object on u's tStack.          *)
recycle(st, u, x) == [st EXCEPT !.stacks[u] = Append(@, x)]

(* PoolChunk::allocate on chunk cid of list l returned r: on success the  *)
(* buffer is initialised, and a chunk now too full for l is removed and   *)
(* added to nextList (PoolChunkList::allocate, the body of the loop).      *)
chunkAllocated(st, l, cid, r) ==
  [st EXCEPT
     !.chunks[cid] = r.chunk,
     !.pools       = r.pools,
     !.lists       = IF r.handle /= NoValue /\ r.chunk.freeBytes <= freeMinThreshold(l)
                       THEN add(remove(@, l, cid), nextList[l], cid, r.chunk.freeBytes)
                     ELSE @,
     !.ok          = r.handle /= NoValue,
     !.aborted     = r.aborted,
     !.buf         = IF r.handle = NoValue THEN NoValue ELSE newBuf(st, cid, r.chunk, r.handle)]

(* The loop of PoolChunkList::allocate from the i-th chunk of list l, and *)
(* its step once that chunk's allocate gave the outcome o.                 *)
RECURSIVE tryChunks(_, _, _, _), nextChunk(_, _, _, _)
tryChunks(st, l, i, sizeIdx) ==
  IF i > Len(st.lists[l]) THEN Failed(st)
  ELSE Bind(PC!chunkAllocate(st.chunks[st.lists[l][i]], st.lists[l][i], st.pools, sizeIdx),
            LAMBDA r : Bind(chunkAllocated(st, l, st.lists[l][i], r),
                            LAMBDA o : nextChunk(o, l, i, sizeIdx)))
nextChunk(o, l, i, sizeIdx) ==
  IF o.ok \/ o.aborted THEN o ELSE tryChunks(o, l, i + 1, sizeIdx)

(* PoolChunkList::allocate *)
listAllocate(st, l, sizeIdx) ==
  IF sizeIdx2size(sizeIdx) > maxCapacity(l) THEN Failed(st)
  ELSE tryChunks(st, l, 1, sizeIdx)

(* The order in which PoolArena::allocateNormal tries the lists.           *)
AllocOrder == <<"q050", "q025", "q000", "qInit", "q075">>

RECURSIVE tryLists(_, _, _), nextList0(_, _, _)
tryLists(st, k, sizeIdx) ==
  IF k > Len(AllocOrder) THEN Failed(st)
  ELSE Bind(listAllocate(st, AllocOrder[k], sizeIdx), LAMBDA o : nextList0(o, k, sizeIdx))
nextList0(o, k, sizeIdx) ==
  IF o.ok \/ o.aborted THEN o ELSE tryLists(o, k + 1, sizeIdx)

(* allocateNormal's last resort: a new chunk at address cid allocates     *)
(* (assert(success)) and is added to qInit with qInit->add.                *)
newChunkAllocated(st, cid, r) ==
  [st EXCEPT
     !.chunks  = (cid :> r.chunk) @@ @,
     !.pools   = r.pools,
     !.lists   = add(@, "qInit", cid, r.chunk.freeBytes),
     !.ok      = TRUE,
     !.aborted = r.aborted \/ (Asserts /\ r.handle = NoValue),
     !.buf     = IF r.handle = NoValue THEN NoValue ELSE newBuf(st, cid, r.chunk, r.handle)]

(* The pool branch of tcacheAllocateSmall: the subpage at ref allocated a *)
(* (s->allocate()), initBufWithSubpage.  m_freeBytes does not change, so  *)
(* no list moves.                                                          *)
poolAllocated(st, ref, a) ==
  [st EXCEPT
     !.chunks[ref.chunk].subpages[ref.runOffset] = a.subpage,
     !.pools = a.pools,
     !.ok    = TRUE,
     !.buf   = newBuf(st, ref.chunk,
                      [st.chunks[ref.chunk] EXCEPT !.subpages[ref.runOffset] = a.subpage],
                      a.handle)]

(***************************************************************************)
(* freeChunk: PoolChunkList::free on the chunk's m_parent, under m_mtx.   *)
(***************************************************************************)
(* The list that holds chunk cid: its m_parent.                            *)
parentIn(ls, cid) == CHOOSE l \in ListNames : cid \in Range(ls[l])

(* The end of freeChunk once PoolChunkList::free has moved the chunk (m): *)
(* a chunk no list kept is destroyed after the lock is released.           *)
freedMoved(st, cid, r, m) ==
  IF m.aborted THEN [st EXCEPT !.aborted = TRUE]
  ELSE [st EXCEPT
          !.chunks = IF m.kept THEN [@ EXCEPT ![cid] = r.chunk]
                     ELSE [x \in DOMAIN @ \ {cid} |-> @[x]],
          !.lists  = m.lists,
          !.pools  = r.pools]

(* PoolChunkList::free in list l after PoolChunk::free returned r: a chunk *)
(* now too empty for l is removed and moved down with move0.               *)
listFreed(st, cid, l, r) ==
  IF r.chunk.freeBytes > freeMaxThreshold(l)
    THEN Bind(move0(remove(st.lists, l, cid), l, cid, r.chunk),
              LAMBDA m : freedMoved(st, cid, r, m))
  ELSE freedMoved(st, cid, r, [lists |-> st.lists, kept |-> TRUE, aborted |-> FALSE])

(* PoolArena::freeChunk *)
freeChunk(st, cid, handle, normCapacity) ==
  Bind(PC!chunkFree(st.chunks[cid], cid, st.pools, handle, normCapacity),
       LAMBDA r : listFreed(st, cid, parentIn(st.lists, cid), r))

(***************************************************************************)
(* PoolThreadCache and MemoryRegionCache.                                  *)
(***************************************************************************)
(* MathUtil::nextPowerofTwo, for val >= 1: the least power of two >= val. *)
RECURSIVE ceilPow2(_, _)
ceilPow2(p, val) == IF p >= val THEN p ELSE ceilPow2(2 * p, val)
nextPowerofTwo(val) == ceilPow2(1, val)

(* createSubPageCaches and createNormalCaches, named by size index: one  *)
(* cache per small size, and per normal size up to                        *)
(* min(m_chunkSize, maxCachedBufferCapacity).                              *)
SmallCacheIdxs ==
  IF SmallCacheSize > 0 /\ nSubpages > 0 THEN 0..nSubpages - 1 ELSE {}
NormalCacheIdxs ==
  IF NormalCacheSize > 0 /\ MaxCachedBufferCapacity > 0
    THEN {i \in nSubpages..nSizes - 1 :
            sizeIdx2size(i) <= IF ChunkSize < MaxCachedBufferCapacity
                                 THEN ChunkSize ELSE MaxCachedBufferCapacity}
  ELSE {}
CacheIdxs == SmallCacheIdxs \cup NormalCacheIdxs

(* MemoryRegionCache m_size *)
cacheSize(i) ==
  nextPowerofTwo(IF i \in SmallCacheIdxs THEN SmallCacheSize ELSE NormalCacheSize)

(* genCache: cacheForSmall / cacheForNormal and cache(), which returns    *)
(* nullptr (NoCache) past the end of the vector.                           *)
NoCache == -1
genCache(sizeIdx, small) ==
  IF small THEN IF sizeIdx \in SmallCacheIdxs THEN sizeIdx ELSE NoCache
  ELSE IF sizeIdx \in NormalCacheIdxs THEN sizeIdx ELSE NoCache

(* Mutant: MemoryRegionCache::allocate reads m_queue.front() but does not *)
(* pop it.                                                                  *)
entryAllocatedNoPop(st, i, e) ==
  [st EXCEPT !.cacheAllocs[st.thread][i] = @ + 1,
             !.ok  = TRUE,
             !.buf = newBuf(st, e.cid, st.chunks[e.cid], e.handle)]

(* MemoryRegionCache::allocate once the queue held entry e at its front:  *)
(* pop it, initBuf from its chunk and handle, ++m_allocations.            *)
entryAllocated(st, i, e) ==
  [st EXCEPT !.caches[st.thread][i] = Tail(@),
             !.cacheAllocs[st.thread][i] = @ + 1,
             !.ok  = TRUE,
             !.buf = newBuf(st, e.cid, st.chunks[e.cid], e.handle)]

(* MemoryRegionCache::allocate *)
mrcAllocate(st, i) ==
  IF st.caches[st.thread][i] = << >> THEN Failed(st)
  ELSE entryAllocated(st, i, Head(st.caches[st.thread][i]))

(* MemoryRegionCache::freeEntry of the entry e just popped: freeChunk.    *)
freeEntry(st, i, e) ==
  freeChunk([st EXCEPT !.caches[st.thread][i] = Tail(@)], e.cid, e.handle, e.normCapacity)

(* MemoryRegionCache::free(max, false): pop and free up to max entries.   *)
RECURSIVE freeEntries(_, _, _)
freeEntries(st, i, max) ==
  IF max <= 0 \/ st.caches[st.thread][i] = << >> \/ st.aborted THEN st
  ELSE Bind(freeEntry(st, i, Head(st.caches[st.thread][i])),
            LAMBDA n : freeEntries(n, i, max - 1))

(* PoolThreadCache::trim: MemoryRegionCache::trim on every cache of the  *)
(* thread, small caches first, then normal ones, in index order: each     *)
(* resets m_allocations and frees m_size - m_allocations entries, allocs  *)
(* being the counts before the reset.  Only caches with entries can free  *)
(* anything, so the others only reset.                                     *)
RECURSIVE trimCaches(_, _, _)
trimCaches(st, allocs, order) ==
  IF order = << >> THEN st
  ELSE Bind(freeEntries(st, Head(order), cacheSize(Head(order)) - allocs[Head(order)]),
            LAMBDA n : trimCaches(n, allocs, Tail(order)))

trim(st) ==
  Bind(SetToSortSeq({i \in CacheIdxs : st.caches[st.thread][i] /= << >>},
                    LAMBDA x, y : x < y),
       LAMBDA order : trimCaches([st EXCEPT !.cacheAllocs[st.thread] = [i \in CacheIdxs |-> 0]],
                                 st.cacheAllocs[st.thread], order))

(* The end of PoolThreadCache::allocate: ++m_allocations, and a trim      *)
(* once it reaches m_freeSweepAllocationThreshold.                         *)
swept(st) ==
  IF st.allocations[st.thread] + 1 >= FreeSweepAllocationThreshold
    THEN Bind([st EXCEPT !.allocations[st.thread] = 0], LAMBDA s0 : trim(s0))
  ELSE [st EXCEPT !.allocations[st.thread] = @ + 1]

(* cache->allocateSmall / allocateNormal: PoolThreadCache::allocate on    *)
(* the size's cache, false without counting when there is none.            *)
threadCacheAllocate(st, sizeIdx) ==
  IF genCache(sizeIdx, sizeIdx <= smallMaxSizeIdx) = NoCache THEN Failed(st)
  ELSE Bind(mrcAllocate(st, sizeIdx), LAMBDA m : swept(m))

(* PoolArena::free of a pooled buffer b with its m_cache: cache->add,     *)
(* which always queues the region when the size has a cache, else         *)
(* freeChunk.  The size class is the handle's; the size index is         *)
(* normCapacity's (m_maxLength).                                           *)
cacheAdd(st, b, i) ==
  IF i = NoCache THEN freeChunk(st, b.cid, b.handle, b.maxLength)
  ELSE [st EXCEPT !.caches[b.cache][i] =
          Append(@, [cid |-> b.cid, handle |-> b.handle, normCapacity |-> b.maxLength])]
arenaFree(st, b) == cacheAdd(st, b, genCache(size2SizeIdx(b.maxLength), b.handle.isSubpage = 1))

(***************************************************************************)
(* The specification.                                                      *)
(***************************************************************************)
Init ==
  /\ chunks      = << >>
  /\ lists       = [l \in ListNames |-> << >>]
  /\ pools       = [i \in PC!SmallIdxs |-> << >>]
  /\ bufs        = EmptyBag
  /\ huge        = EmptyBag
  /\ caches      = [t \in Threads |-> [i \in CacheIdxs |-> << >>]]
  /\ cacheAllocs = [t \in Threads |-> [i \in CacheIdxs |-> 0]]
  /\ allocations = [t \in Threads |-> 0]
  /\ stacks      = [t \in Threads |-> << >>]
  /\ aborted     = FALSE

(* Room for one more live buffer, and the process is still running.       *)
CanAllocate == ~aborted /\ BagCardinality(bufs) + BagCardinality(huge) < MaxBufs

(* Commit the state st an action reached; a failed assert stops the       *)
(* process where it was.                                                   *)
Commit(st) ==
  IF st.aborted
    THEN aborted' = TRUE
         /\ UNCHANGED <<chunks, lists, pools, bufs, huge, caches, cacheAllocs, allocations, stacks>>
  ELSE /\ chunks'      = st.chunks
       /\ lists'       = st.lists
       /\ pools'       = st.pools
       /\ bufs'        = IF st.buf = NoValue THEN st.bufs ELSE BagAdd(st.bufs, st.buf)
       /\ caches'      = st.caches
       /\ cacheAllocs' = st.cacheAllocs
       /\ allocations' = st.allocations
       /\ stacks'      = st.stacks
       /\ UNCHANGED <<huge, aborted>>

(* PoolArena::reallocate's end once allocate has re-initialised the      *)
(* object (n): free the old memory with buf->cache(), the cache of the     *)
(* reallocating thread that initBuf has just stored.                       *)
freeOld(b, n) ==
  IF n.aborted THEN n ELSE arenaFree(n, [b EXCEPT !.cache = n.thread])

(* A thread's cache served the request (PoolArena::tcacheAllocateSmall /  *)
(* tcacheAllocateNormal return at once); o is PoolThreadCache::allocate's *)
(* outcome, trim included.  Each of the operators below is the set of     *)
(* states PoolArena::allocate may end in along one of its paths.           *)
CacheHit(o) == IF o.ok THEN {o} ELSE {}

(* allocateNormal after the lists: a new chunk if no list could serve.    *)
AllocatedNormal(o, sizeIdx) ==
  IF o.ok \/ o.aborted THEN {o}
  ELSE {Bind(PC!chunkAllocate(PC!NewChunk, cid, o.pools, sizeIdx),
             LAMBDA r : newChunkAllocated(o, cid, r)) : cid \in ChunkIds \ DOMAIN o.chunks}

(* After the cache missed (o): PoolArena::allocateNormal under m_mtx.     *)
NormalAfterMiss(o, sizeIdx) ==
  IF o.ok THEN {}
  ELSE IF o.aborted THEN {o}
  ELSE Bind(tryLists(o, 1, sizeIdx), LAMBDA o2 : AllocatedNormal(o2, sizeIdx))

(* After the cache missed (o): the pool branch of tcacheAllocateSmall,    *)
(* under head->m_mtx, s = head->next = ref.                                *)
PoolAfterMiss(o, sizeIdx) ==
  IF ~o.ok /\ sizeIdx <= smallMaxSizeIdx /\ o.pools[sizeIdx] /= << >>
  THEN LET ref == Head(o.pools[sizeIdx])
       IN {poolAllocated(o, ref,
             PC!subpageAllocate(o.chunks[ref.chunk].subpages[ref.runOffset], o.pools, ref))}
  ELSE {}

(* PoolArena::allocate(cache, buf, reqCapacity) of a pooled size from the *)
(* state st (tcacheAllocateSmall or tcacheAllocateNormal): the thread's    *)
(* cache first; on a miss the subpage pool for a small size, or            *)
(* allocateNormal.  allocateNormal is also open to a small size whose pool *)
(* is not empty: tcacheAllocateSmall releases the head lock before it     *)
(* takes m_mtx, so another thread may have refilled the pool in between.  *)
ArenaAllocate(st, sizeIdx) ==
  Bind(threadCacheAllocate(st, sizeIdx),
       LAMBDA o : CacheHit(o) \cup PoolAfterMiss(o, sizeIdx) \cup NormalAfterMiss(o, sizeIdx))

(* PooledByteBufAllocator::buffer(reqCapacity) on thread t, a pooled size: *)
(* PoolArena::allocate takes an object (newByteBuf, Recycler::get) and     *)
(* allocates its memory.                                                   *)
Allocate(t, sizeIdx) ==
  /\ CanAllocate
  /\ \E g \in recyclerGet([Cur(t) EXCEPT !.req = sizeIdx2size(sizeIdx)]) :
       \E o \in ArenaAllocate(g, sizeIdx) : Commit(o)

(* PoolArena::allocate of a huge size on thread t: an object from        *)
(* Recycler::get, newUnpooledChunk(normCapacity) and initUnpooled(chunk,   *)
(* normCapacity).  newUnpooledChunk allocates m_chunkSize bytes of memory  *)
(* for the chunk whatever the capacity.                                    *)
AllocateHuge(t, reqCapacity) ==
  /\ CanAllocate
  /\ \E g \in recyclerGet(Cur(t)) :
       /\ huge'   = BagAdd(huge, [memory |-> ChunkSize, length |-> normalizeSize(reqCapacity),
                                  obj |-> g.obj])
       /\ stacks' = g.stacks
  /\ UNCHANGED <<chunks, lists, pools, bufs, caches, cacheAllocs, allocations, aborted>>

(* PooledByteBuf::deallocate of a huge buffer on thread u: PoolArena::free *)
(* destroys the unpooled chunk (m_handle is 0), then recycle.              *)
FreeHuge(h, u) ==
  /\ ~aborted
  /\ BagIn(h, huge)
  /\ huge'   = BagRemove(huge, h)
  /\ stacks' = [stacks EXCEPT ![u] = Append(@, h.obj)]
  /\ UNCHANGED <<chunks, lists, pools, bufs, caches, cacheAllocs, allocations, aborted>>

(* PooledByteBuf::deallocate on thread u: PoolArena::free with the        *)
(* buffer's m_cache, the cache of the thread that last allocated it, then  *)
(* recycle onto u's stack.                                                 *)
Free(b, u) ==
  /\ ~aborted
  /\ BagIn(b, bufs)
  /\ \E st \in {[Cur(b.cache) EXCEPT !.bufs = BagRemove(@, b)]} :
       \E n \in {recycle(arenaFree(st, b), u, b.obj)} : Commit(n)

(* Mutant: growing in place without the m_maxLength bound.             *)
resizesInPlaceUnbounded(b, newCapacity) ==
  \/ newCapacity > b.length
  \/ /\ newCapacity < b.length
     /\ newCapacity > b.maxLength \div 2
     /\ (b.maxLength > 512 \/ newCapacity > b.maxLength - 16)

(* The test of PooledByteBuf::capacity that keeps the memory: growing     *)
(* within m_maxLength, or shrinking by less than half of it.               *)
resizesInPlace(b, newCapacity) ==
  \/ newCapacity > b.length /\ newCapacity <= b.maxLength
  \/ /\ newCapacity < b.length
     /\ newCapacity > b.maxLength \div 2
     /\ (b.maxLength > 512 \/ newCapacity > b.maxLength - 16)

(* PooledByteBuf::capacity(newCapacity) on thread u: in place, or         *)
(* PoolArena::reallocate(buf, newCapacity, true), which allocates new     *)
(* memory into the same object through u's cache and frees the old.       *)
Capacity(b, u, newCapacity) ==
  /\ ~aborted
  /\ BagIn(b, bufs)
  /\ newCapacity /= b.length
  /\ \/ /\ resizesInPlace(b, newCapacity)
        /\ bufs' = BagAdd(BagRemove(bufs, b), [b EXCEPT !.length = newCapacity])
        /\ UNCHANGED <<chunks, lists, pools, huge, caches, cacheAllocs, allocations, stacks, aborted>>
     \/ /\ ~resizesInPlace(b, newCapacity)
        /\ \E o \in ArenaAllocate([Cur(u) EXCEPT !.bufs = BagRemove(@, b), !.obj = b.obj,
                                                !.req = newCapacity],
                                 size2SizeIdx(newCapacity)) :
             Commit(freeOld(b, o))

Next ==
  \/ \E t \in Threads, i \in ReqSizeIdxs : Allocate(t, i)
  \/ \E t \in Threads, s \in HugeSizes : AllocateHuge(t, s)
  \/ \E b \in BagToSet(bufs), u \in Threads : Free(b, u)
  \/ \E h \in BagToSet(huge), u \in Threads : FreeHuge(h, u)
  \/ \E b \in BagToSet(bufs), u \in Threads, c \in NewCapacities : Capacity(b, u, c)

Spec == Init /\ [][Next]_vars

(***************************************************************************)
(* Properties.                                                             *)
(***************************************************************************)
Bufs    == [cid : ChunkIds, handle : PC!Handles, offset : Nat, maxLength : Nat \ {0},
            cache : Threads, obj : Objs, length : Nat]
Entries == [cid : ChunkIds, handle : PC!Handles, normCapacity : Nat \ {0}]

(* The cache entries of the threads, each with where it sits.              *)
Cached == UNION {{[thread |-> t, idx |-> i, pos |-> k, entry |-> caches[t][i][k]] :
            k \in DOMAIN caches[t][i]} : t \in Threads, i \in CacheIdxs}

TypeOK ==
  /\ DOMAIN chunks \subseteq ChunkIds
  /\ lists \in [ListNames -> Seq(ChunkIds)]
  /\ pools \in [PC!SmallIdxs -> Seq([chunk : ChunkIds, runOffset : 0..ChunkPages - 1])]
  /\ BagToSet(bufs) \subseteq Bufs
  /\ BagToSet(huge) \subseteq [memory : Nat, length : Nat, obj : Objs]
  /\ caches \in [Threads -> [CacheIdxs -> Seq(Entries)]]
  /\ cacheAllocs \in [Threads -> [CacheIdxs -> Nat]]
  /\ allocations \in [Threads -> 0..FreeSweepAllocationThreshold - 1]
  /\ stacks \in [Threads -> Seq(Objs)]
  /\ aborted \in BOOLEAN

(* add0/remove in PoolChunkList::allocate, add and move0 keep every live  *)
(* chunk linked in exactly one list, once, and no list links a chunk that *)
(* freeChunk has destroyed: m_parent is always the list that holds it.    *)
ChunksListedOnce ==
  /\ \A l \in ListNames : Range(lists[l]) \subseteq DOMAIN chunks
  /\ \A cid \in DOMAIN chunks :
       MapThenSumSet(LAMBDA l : Cardinality({k \in DOMAIN lists[l] : lists[l][k] = cid}),
                     ListNames) = 1

(* After every allocate and free, each chunk sits in a list whose usage   *)
(* band holds it: freeMinThreshold < m_freeBytes <= freeMaxThreshold.  A  *)
(* chunk moved by add is checked against the lists it passes; one moved   *)
(* by move0/move is checked only against freeMaxThreshold, so this rests  *)
(* on the bands of neighbouring lists overlapping.                         *)
ListsMatchUsage ==
  \A l \in ListNames : \A k \in DOMAIN lists[l] :
    /\ freeMinThreshold(l) < chunks[lists[l][k]].freeBytes
    /\ chunks[lists[l][k]].freeBytes <= freeMaxThreshold(l)

(* q000 gives a chunk up to destroyChunk only when nothing of it is in    *)
(* use: no live buffer, no region a thread cache holds and no subpage in  *)
(* m_smallSubpagePools refers to a destroyed chunk.                        *)
NoDanglingChunkRef ==
  /\ \A b \in BagToSet(bufs) : b.cid \in DOMAIN chunks
  /\ \A x \in Cached : x.entry.cid \in DOMAIN chunks
  /\ \A i \in PC!SmallIdxs : \A k \in DOMAIN pools[i] : pools[i][k].chunk \in DOMAIN chunks

(* The bytes of a cached region: a run's pages, or the bitmapIdx-th       *)
(* element of normCapacity bytes in a subpage.                             *)
entryExtent(e) ==
  IF e.handle.isSubpage = 1
    THEN [cid |-> e.cid, offset |-> e.handle.runOffset * PageSize + e.handle.bitmapIdx * e.normCapacity,
          length |-> e.normCapacity]
  ELSE [cid |-> e.cid, offset |-> e.handle.runOffset * PageSize,
        length |-> e.handle.runPages * PageSize]

(* Every region is held once: by one live buffer or by one entry of one   *)
(* thread cache, never by two of them.  MemoryRegionCache::allocate hands *)
(* the front entry to a buffer and must drop it from the queue; free must *)
(* queue a region only once it leaves its buffer; trim must pop what it   *)
(* returns to the chunk, which may give the bytes to someone else.         *)
RegionsHeldOnce ==
  LET held == {[who |-> <<"buf", b>>, cid |-> b.cid, offset |-> b.offset,
                length |-> b.maxLength] : b \in BagToSet(bufs)}
              \cup {[who |-> <<x.thread, x.idx, x.pos>>] @@ entryExtent(x.entry) : x \in Cached}
  IN /\ \A b \in BagToSet(bufs) : bufs[b] = 1
     /\ \A h1, h2 \in held :
          h1.who /= h2.who /\ h1.cid = h2.cid =>
            \/ h1.offset + h1.length <= h2.offset
            \/ h2.offset + h2.length <= h1.offset

(* Every PooledByteBuf object has at most one owner: one live buffer,     *)
(* pooled or huge, or one slot of one thread's recycler stack.             *)
(* Recycler::get must pop what it hands to newInstance, deallocate must    *)
(* recycle only the object it takes out of use, and reallocate must keep   *)
(* re-initialising the same object, never handing it to a second buffer.   *)
ObjectsHeldOnce ==
  \A x \in Objs :
    LET inBufs  == MapThenSumSet(LAMBDA b : IF b.obj = x THEN bufs[b] ELSE 0, BagToSet(bufs))
        inHuge  == MapThenSumSet(LAMBDA h : IF h.obj = x THEN huge[h] ELSE 0, BagToSet(huge))
        inStack == MapThenSumSet(LAMBDA t : Cardinality({k \in DOMAIN stacks[t] : stacks[t][k] = x}),
                                 Threads)
    IN inBufs + inHuge + inStack <= 1

(* A live buffer's capacity (m_length) fits in the region it holds       *)
(* (m_maxLength), so writeBytes up to capacity() stays in its own bytes:  *)
(* init0 from a request of the size's class, capacity() resizing in      *)
(* place only within m_maxLength, and reallocate re-initialising the      *)
(* object with the new region and the new length together.               *)
LengthWithinRegion ==
  \A b \in BagToSet(bufs) : 0 < b.length /\ b.length <= b.maxLength

(* No legal sequence of calls fails an assert(): those of PoolChunk, the  *)
(* usage checks of PoolChunkList::move and move0, allocateNormal's         *)
(* assert(success).                                                        *)
NoAbort == ~aborted

(* The memory of a huge buffer holds its length: initUnpooled gives the    *)
(* buffer normCapacity bytes of the chunk newUnpooledChunk allocated.      *)
HugeFits == \A h \in BagToSet(huge) : h.length <= h.memory

====
