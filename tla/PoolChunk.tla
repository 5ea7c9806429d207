----------------------------- MODULE PoolChunk -----------------------------
(***************************************************************************)
(* One pooled chunk of src/buffer/PoolChunk.cpp with the PoolSubpage       *)
(* objects carved out of it (src/buffer/PoolSubpage.cpp) and the arena's   *)
(* per-size subpage pools they are linked into.                            *)
(*                                                                         *)
(* The chunk operations are written as operators from a chunk record (and *)
(* the pools) to the new record, so that PoolArena can apply them to any   *)
(* of its chunks.  The specification at the end drives a single chunk the  *)
(* way the arena does: PoolChunk::allocate and PoolChunk::free under the   *)
(* arena lock, and the pool branch of PoolArena::tcacheAllocateSmall.      *)
(*                                                                         *)
(* A handle (64 bits in the code: runOffset | pages | used | subpage |     *)
(* bitmapIdx) is a record with the same five fields.  The LongPriorityQueue *)
(* runsAvail[i] is the set of free-run handles whose page count has       *)
(* pages2pageIdxFloor = i: insert and both removals compute the index the  *)
(* same way, and poll takes the least handle, i.e. the least offset.       *)
(***************************************************************************)
EXTENDS SizeClasses, FiniteSetsExt, Bags, BagsExt, TLC

CONSTANT
  Asserts   \* TRUE: built without NDEBUG, a failed assert() aborts

(* LongPriorityQueue::NO_VALUE (-1) read through the handle accessors:      *)
(* offset -1 (arithmetic shift), pages 0x7fff, both flag bits set.         *)
NoValue == [runOffset |-> -1, runPages |-> 32767, isUsed |-> 1,
            isSubpage |-> 1, bitmapIdx |-> -1]

(* PoolChunk::toRunHandle *)
toRunHandle(runOffset, runPages, inUsed) ==
  [runOffset |-> runOffset, runPages |-> runPages, isUsed |-> inUsed,
   isSubpage |-> 0, bitmapIdx |-> 0]

lastPage(runOffset, pages) == runOffset + pages - 1

(* PoolChunk constructor: one free run of every page at offset 0.          *)
NewChunk ==
  LET initHandle == toRunHandle(0, ChunkPages, 0)
  IN [freeBytes    |-> ChunkSize,
      runsAvail    |-> {initHandle},
      runsAvailMap |-> (0 :> initHandle) @@ (ChunkPages - 1 :> initHandle),
      subpages     |-> << >>]          \* partial: runOffset -> subpage

(* The queue runsAvail[i]. *)
Queue(c, i) == {h \in c.runsAvail : pages2pageIdxFloor(h.runPages) = i}

(* std::unordered_map::insert keeps the value already under the key.      *)
MapInsert(m, k, v) == IF k \in DOMAIN m THEN m ELSE (k :> v) @@ m
MapErase(m, k)     == [x \in DOMAIN m \ {k} |-> m[x]]

(* PoolChunk::insertAvailRun / insertAvailRun0 *)
insertAvailRun(c, runOffset, pages, handle) ==
  LET m1 == MapInsert(c.runsAvailMap, runOffset, handle)
  IN [c EXCEPT !.runsAvail    = @ \cup {handle},
               !.runsAvailMap = IF pages > 1
                                  THEN MapInsert(m1, lastPage(runOffset, pages), handle)
                                  ELSE m1]

(* Mutant: the last-page key of a multi-page run is left in the map.     *)
removeAvailRunKeepLast(c, handle) ==
  [c EXCEPT !.runsAvail    = @ \ {handle},
            !.runsAvailMap = MapErase(@, handle.runOffset)]

(* PoolChunk::removeAvailRun: remove from the queue, erase both keys.      *)
removeAvailRun(c, handle) ==
  LET m1 == MapErase(c.runsAvailMap, handle.runOffset)
  IN [c EXCEPT !.runsAvail    = @ \ {handle},
               !.runsAvailMap = IF handle.runPages > 1
                                  THEN MapErase(m1, lastPage(handle.runOffset, handle.runPages))
                                  ELSE m1]

(* PoolChunk::getAvailRunByOffset *)
getAvailRunByOffset(c, runOffset) ==
  IF runOffset \in DOMAIN c.runsAvailMap THEN c.runsAvailMap[runOffset] ELSE NoValue

(* PoolChunk::runFirstBestFit: an untouched chunk answers the last queue  *)
(* without looking at it.                                                  *)
runFirstBestFit(c, pageIdx) ==
  IF c.freeBytes = ChunkSize THEN nPSizes - 1
  ELSE LET fit == {i \in pageIdx..nPSizes - 1 : Queue(c, i) /= {}}
       IN IF fit = {} THEN -1 ELSE Min(fit)

(* LongPriorityQueue::poll: least handle, NO_VALUE when empty.              *)
poll(q) == IF q = {} THEN NoValue
           ELSE CHOOSE h \in q : \A g \in q : h.runOffset <= g.runOffset

(* Mutant: the trailing free run starts one page early.                   *)
splitLargeRunOverlap(c, handle, needPages) ==
  LET remPages    == handle.runPages - needPages
      availOffset == handle.runOffset + needPages - 1
  IN IF remPages > 0
       THEN [chunk  |-> insertAvailRun(c, availOffset, remPages,
                                       toRunHandle(availOffset, remPages, 0)),
             handle |-> toRunHandle(handle.runOffset, needPages, 1)]
       ELSE [chunk |-> c, handle |-> [handle EXCEPT !.isUsed = 1]]

(* PoolChunk::splitLargeRun: the result is [chunk, handle].                *)
splitLargeRun(c, handle, needPages) ==
  LET remPages    == handle.runPages - needPages
      availOffset == handle.runOffset + needPages
  IN IF remPages > 0
       THEN [chunk  |-> insertAvailRun(c, availOffset, remPages,
                                       toRunHandle(availOffset, remPages, 0)),
             handle |-> toRunHandle(handle.runOffset, needPages, 1)]
       ELSE [chunk |-> c, handle |-> [handle EXCEPT !.isUsed = 1]]

(* The rest of allocateRun: poll the queue, remove the handle, split it   *)
(* and charge freeBytes.  With asserts on, an empty queue or a used handle *)
(* aborts the process; without them poll's NO_VALUE flows on and          *)
(* freeBytes is charged for its 0x7fff pages.                              *)
pollRun(c, pages, queue) ==
  LET handle == poll(queue)
      c1     == removeAvailRun(c, handle)
      split  == IF handle /= NoValue THEN splitLargeRun(c1, handle, pages)
                ELSE [chunk |-> c1, handle |-> handle]
  IN IF Asserts /\ (queue = {} \/ handle.isUsed = 1)
       THEN [chunk |-> c, handle |-> NoValue, aborted |-> TRUE]
     ELSE [chunk   |-> [split.chunk EXCEPT !.freeBytes =
                          @ - split.handle.runPages * PageSize],
           handle  |-> split.handle,
           aborted |-> FALSE]

allocateRunFrom(c, pages, queueIdx) ==
  IF queueIdx = -1 THEN [chunk |-> c, handle |-> NoValue, aborted |-> FALSE]
  ELSE pollRun(c, pages, Queue(c, queueIdx))

(* PoolChunk::allocateRun: [chunk, handle, aborted].  The queue is found  *)
(* by runFirstBestFit; pollRun does the rest.                              *)
allocateRun(c, runSize) ==
  LET pages == runSize \div PageSize
  IN allocateRunFrom(c, pages, runFirstBestFit(c, pages2pageIdx(pages)))

(* PoolChunk::calculateRunSize(sizeIdx): the least multiple of the page  *)
(* size that the element size divides, capped at maxElements elements.    *)
RECURSIVE GrowRun(_, _)
GrowRun(runSize, elemSize) ==
  LET rs == runSize + PageSize
      n  == rs \div elemSize
  IN IF n < 2 ^ (PageShifts - LOG2_QUANTUM) /\ rs /= n * elemSize
       THEN GrowRun(rs, elemSize) ELSE rs

RECURSIVE ShrinkRun(_, _)
ShrinkRun(runSize, elemSize) ==
  IF runSize \div elemSize > 2 ^ (PageShifts - LOG2_QUANTUM)
    THEN ShrinkRun(runSize - PageSize, elemSize) ELSE runSize

calculateRunSize(sizeIdx) ==
  ShrinkRun(GrowRun(0, sizeIdx2size(sizeIdx)), sizeIdx2size(sizeIdx))
(***************************************************************************)
(* PoolSubpage.  A subpage is a record kept in chunk.subpages[runOffset];  *)
(* bitmap is the set of bits set in m_bitmap.  A pool is the sequence of  *)
(* refs [chunk, runOffset] after the head of PoolArena's smallSubpagePools *)
(* list of its size; addToPool inserts right after the head.              *)
(***************************************************************************)
SmallIdxs == 0..smallMaxSizeIdx

(* PoolSubpage constructor, before its closing addToPool. *)
NewSubpage(sizeIdx, runOffset, runSize) ==
  [sizeIdx      |-> sizeIdx,
   runOffset    |-> runOffset,
   runSize      |-> runSize,
   elemSize     |-> sizeIdx2size(sizeIdx),
   maxNumElems  |-> runSize \div sizeIdx2size(sizeIdx),
   bitmap       |-> {},
   nextAvail    |-> 0,
   numAvail     |-> runSize \div sizeIdx2size(sizeIdx),
   doNotDestroy |-> TRUE]

addToPool(pools, sizeIdx, ref) == [pools EXCEPT ![sizeIdx] = <<ref>> \o @]
removeFromPool(pools, sizeIdx, ref) ==
  [pools EXCEPT ![sizeIdx] = SelectSeq(@, LAMBDA r : r /= ref)]

(* PoolSubpage::findNextAvail / findNextAvail0: the lowest clear bit      *)
(* below maxNumElems, -1 if none.                                          *)
findNextAvail(s) ==
  LET clear == {i \in 0..s.maxNumElems - 1 : i \notin s.bitmap}
  IN IF clear = {} THEN -1 ELSE Min(clear)

(* Mutant: the cached index is used but not reset to -1.                   *)
getNextAvailNoReset(s) ==
  IF s.nextAvail >= 0 THEN [idx |-> s.nextAvail, nextAvail |-> s.nextAvail]
  ELSE [idx |-> findNextAvail(s), nextAvail |-> s.nextAvail]

(* PoolSubpage::getNextAvail: use and reset the cached index, else search. *)
getNextAvail(s) ==
  IF s.nextAvail >= 0 THEN [idx |-> s.nextAvail, nextAvail |-> -1]
  ELSE [idx |-> findNextAvail(s), nextAvail |-> s.nextAvail]

(* Mutant: the page count is taken from runSize without the page shift. *)
toHandleUnshifted(s, bitmapIdx) ==
  [runOffset |-> s.runOffset, runPages |-> s.runSize,
   isUsed |-> 1, isSubpage |-> 1, bitmapIdx |-> bitmapIdx]

(* PoolSubpage::toHandle *)
toHandle(s, bitmapIdx) ==
  [runOffset |-> s.runOffset, runPages |-> s.runSize \div PageSize,
   isUsed |-> 1, isSubpage |-> 1, bitmapIdx |-> bitmapIdx]

(* PoolSubpage::allocate: [subpage, pools, handle].  An exhausted subpage *)
(* leaves the pool.                                                        *)
subpageAllocate(s, pools, ref) ==
  IF s.numAvail = 0 \/ ~s.doNotDestroy
    THEN [subpage |-> s, pools |-> pools, handle |-> NoValue]
  ELSE LET n  == getNextAvail(s)
           s1 == [s EXCEPT !.bitmap = @ \cup {n.idx}, !.nextAvail = n.nextAvail,
                           !.numAvail = @ - 1]
       IN [subpage |-> s1,
           pools   |-> IF s1.numAvail = 0 THEN removeFromPool(pools, s.sizeIdx, ref)
                       ELSE pools,
           handle  |-> toHandle(s, n.idx)]

(* Mutant: a subpage that was full is not linked back into its pool.     *)
subpageFreeNoRejoin(s, pools, head, ref, bitmapIdx) ==
  LET s1 == [s EXCEPT !.bitmap = @ \ {bitmapIdx}, !.nextAvail = bitmapIdx,
                      !.numAvail = @ + 1]
  IN IF s.numAvail = 0 /\ s.maxNumElems > 1
       THEN [subpage |-> s1, pools |-> pools, inUse |-> TRUE]
     ELSE IF s1.numAvail /= s1.maxNumElems \/ Len(pools[s.sizeIdx]) = 1
       THEN [subpage |-> s1, pools |-> pools, inUse |-> TRUE]
     ELSE [subpage |-> [s1 EXCEPT !.doNotDestroy = FALSE],
           pools   |-> removeFromPool(pools, s.sizeIdx, ref),
           inUse   |-> FALSE]

(* PoolSubpage::free: [subpage, pools, inUse].  A subpage that was full   *)
(* rejoins the pool of head; one that becomes empty is destroyed unless    *)
(* it is the only subpage of its pool (prev == next, both the head).      *)
subpageFree(s, pools, head, ref, bitmapIdx) ==
  LET s1 == [s EXCEPT !.bitmap = @ \ {bitmapIdx}, !.nextAvail = bitmapIdx,
                      !.numAvail = @ + 1]
      p1 == IF s.numAvail = 0 THEN addToPool(pools, head, ref) ELSE pools
  IN IF s.numAvail = 0 /\ s.maxNumElems > 1
       THEN [subpage |-> s1, pools |-> p1, inUse |-> TRUE]
     ELSE IF s1.numAvail /= s1.maxNumElems \/ Len(p1[s.sizeIdx]) = 1
       THEN [subpage |-> s1, pools |-> p1, inUse |-> TRUE]
     ELSE [subpage |-> [s1 EXCEPT !.doNotDestroy = FALSE],
           pools   |-> removeFromPool(p1, s.sizeIdx, ref),
           inUse   |-> FALSE]

(***************************************************************************)
(* PoolChunk::allocate: [chunk, pools, handle, aborted].  Small sizes get  *)
(* a fresh run of calculateRunSize bytes made into a subpage               *)
(* (allocateSubpage); the rest get a run of the class size.  m_cachedBuffers *)
(* is never filled, so the buffer memory always comes from the chunk.       *)
(***************************************************************************)
(* PoolChunk::allocateSubpage after its allocateRun r: the new subpage is  *)
(* linked into the pool of sizeIdx and allocates its first element.        *)
allocateSubpage(r, cid, pools, sizeIdx) ==
  LET off == r.handle.runOffset
      ref == [chunk |-> cid, runOffset |-> off]
      a   == subpageAllocate(NewSubpage(sizeIdx, off, r.handle.runPages * PageSize),
                             addToPool(pools, sizeIdx, ref), ref)
  IN IF r.aborted \/ r.handle = NoValue
       THEN [chunk |-> r.chunk, pools |-> pools, handle |-> NoValue,
             aborted |-> r.aborted]
     ELSE [chunk   |-> [r.chunk EXCEPT !.subpages = (off :> a.subpage) @@ @],
           pools   |-> a.pools,
           handle  |-> a.handle,
           aborted |-> FALSE]

(* A run allocation r leaves the pools as they are. *)
withPools(r, pools) ==
  [chunk |-> r.chunk, pools |-> pools, handle |-> r.handle, aborted |-> r.aborted]

chunkAllocate(c, cid, pools, sizeIdx) ==
  IF sizeIdx <= smallMaxSizeIdx
    THEN allocateSubpage(allocateRun(c, calculateRunSize(sizeIdx)), cid, pools, sizeIdx)
  ELSE withPools(allocateRun(c, sizeIdx2size(sizeIdx)), pools)

(* Mutant: a subpage element's offset leaves out bitmapIdx * elemSize.    *)
initBufNoElemOffset(c, handle) ==
  IF handle.isSubpage = 0
    THEN [handle |-> handle, offset |-> handle.runOffset * PageSize,
          maxLength |-> handle.runPages * PageSize]
  ELSE [handle |-> handle, offset |-> handle.runOffset * PageSize,
        maxLength |-> c.subpages[handle.runOffset].elemSize]

(* Mutant: a run's length counts one page more than the run.             *)
initBufLongRun(c, handle) ==
  IF handle.isSubpage = 0
    THEN [handle |-> handle, offset |-> handle.runOffset * PageSize,
          maxLength |-> (handle.runPages + 1) * PageSize]
  ELSE LET elemSize == c.subpages[handle.runOffset].elemSize
       IN [handle |-> handle,
           offset |-> handle.runOffset * PageSize + handle.bitmapIdx * elemSize,
           maxLength |-> elemSize]

(* PoolChunk::initBuf / initBufWithSubpage: the buffer's byte extent.     *)
initBuf(c, handle) ==
  IF handle.isSubpage = 0
    THEN [handle |-> handle, offset |-> handle.runOffset * PageSize,
          maxLength |-> handle.runPages * PageSize]
  ELSE LET elemSize == c.subpages[handle.runOffset].elemSize
       IN [handle |-> handle,
           offset |-> handle.runOffset * PageSize + handle.bitmapIdx * elemSize,
           maxLength |-> elemSize]

(* PoolChunk::collapsePast on p = [chunk, handle]: merge the free runs   *)
(* ending just before the handle.                                          *)
RECURSIVE collapsePast(_)
collapsePast(p) ==
  LET pastRun == getAvailRunByOffset(p.chunk, p.handle.runOffset - 1)
  IN IF pastRun /= NoValue /\ pastRun /= p.handle
        /\ pastRun.runOffset + pastRun.runPages = p.handle.runOffset
       THEN collapsePast([chunk  |-> removeAvailRun(p.chunk, pastRun),
                          handle |-> toRunHandle(pastRun.runOffset,
                                       pastRun.runPages + p.handle.runPages, 0)])
       ELSE p

(* PoolChunk::collapseNext, as written: nextOffset is read with           *)
(* calculateRunPages (line 391), so the next run is merged only when its  *)
(* page count happens to equal its offset.                                 *)
RECURSIVE collapseNext(_)
collapseNext(p) ==
  LET nextRun    == getAvailRunByOffset(p.chunk, p.handle.runOffset + p.handle.runPages)
      nextOffset == nextRun.runPages
  IN IF nextRun /= NoValue /\ nextRun /= p.handle
        /\ p.handle.runOffset + p.handle.runPages = nextOffset
       THEN collapseNext([chunk  |-> removeAvailRun(p.chunk, nextRun),
                          handle |-> toRunHandle(p.handle.runOffset,
                                       p.handle.runPages + nextRun.runPages, 0)])
       ELSE p

(* PoolChunk::collapseRuns *)
collapseRuns(c, handle) == collapseNext(collapsePast([chunk |-> c, handle |-> handle]))

(* Mutant: free credits the pages of the collapsed run (the code's own   *)
(* comment at this line warns against it).                                 *)
releaseRunCreditCollapsed(col, pools, handle) ==
  LET finalRun == [col.handle EXCEPT !.isUsed = 0, !.isSubpage = 0]
      c1       == insertAvailRun(col.chunk, finalRun.runOffset, finalRun.runPages, finalRun)
  IN [chunk |-> [c1 EXCEPT !.freeBytes = @ + finalRun.runPages * PageSize],
      pools |-> pools]

(* The end of PoolChunk::free once the run is collapsed into col: clear   *)
(* the used and subpage bits (bitmapIdx stays), insert, and credit the     *)
(* pages of the freed run itself, not of the collapsed one.                *)
releaseRun(col, pools, handle) ==
  LET finalRun == [col.handle EXCEPT !.isUsed = 0, !.isSubpage = 0]
      c1       == insertAvailRun(col.chunk, finalRun.runOffset, finalRun.runPages, finalRun)
  IN [chunk |-> [c1 EXCEPT !.freeBytes = @ + handle.runPages * PageSize],
      pools |-> pools]

(* The run half of PoolChunk::free. *)
freeRun(c, pools, handle) == releaseRun(collapseRuns(c, handle), pools, handle)

(* PoolChunk::free: a small handle goes to its subpage first, under the   *)
(* head lock of the pool normCapacity maps to; the run is released only   *)
(* when the subpage gives it up.                                           *)
chunkFree(c, cid, pools, handle, normCapacity) ==
  IF handle.isSubpage = 1
    THEN LET sIdx == handle.runOffset
             f    == subpageFree(c.subpages[sIdx], pools, size2SizeIdx(normCapacity),
                                 [chunk |-> cid, runOffset |-> sIdx], handle.bitmapIdx)
         IN IF f.inUse
              THEN [chunk |-> [c EXCEPT !.subpages[sIdx] = f.subpage], pools |-> f.pools]
            ELSE freeRun([c EXCEPT !.subpages = MapErase(@, sIdx)], f.pools, handle)
  ELSE freeRun(c, pools, handle)
(***************************************************************************)
(* A single chunk driven by its callers.  bufs is the bag of live buffers *)
(* (PooledByteBuf::init0 .. deallocate); a bag, so that two buffers handed *)
(* the same memory stay two.  ThisChunk names the chunk in pool refs.      *)
(***************************************************************************)
CONSTANTS
  ReqSizeIdxs,  \* size indices requested by callers
  MaxBufs       \* bound on live buffers

ThisChunk == 1

VARIABLES chunk, pools, bufs, aborted

vars == <<chunk, pools, bufs, aborted>>

Init ==
  /\ chunk   = NewChunk
  /\ pools   = [i \in SmallIdxs |-> << >>]
  /\ bufs    = EmptyBag
  /\ aborted = FALSE

(* Room for one more live buffer, and the process is still running.       *)
CanAllocate == ~aborted /\ BagCardinality(bufs) < MaxBufs

(* The arena's side of a chunk allocation r: an assert() failure stops   *)
(* the process; otherwise the chunk and pools take r's values and a handle *)
(* other than NO_VALUE becomes a live buffer (initBuf).                    *)
Allocated(r) ==
  IF r.aborted
    THEN aborted' = TRUE /\ UNCHANGED <<chunk, pools, bufs>>
  ELSE /\ chunk' = r.chunk
       /\ pools' = r.pools
       /\ bufs'  = IF r.handle = NoValue THEN bufs
                   ELSE BagAdd(bufs, initBuf(r.chunk, r.handle))
       /\ UNCHANGED aborted

(* PoolArena::allocateNormal reaching this chunk under the arena lock:    *)
(* PoolChunk::allocate and, on success, initBuf.                          *)
Allocate(sizeIdx) ==
  /\ CanAllocate
  /\ Allocated(chunkAllocate(chunk, ThisChunk, pools, sizeIdx))

(* The subpage at ref has allocated a: store it and hand out the element  *)
(* (initBufWithSubpage).                                                   *)
AllocatedFromPool(ref, a) ==
  LET c1 == [chunk EXCEPT !.subpages[ref.runOffset] = a.subpage]
  IN /\ chunk' = c1
     /\ pools' = a.pools
     /\ bufs'  = BagAdd(bufs, initBuf(c1, a.handle))
     /\ UNCHANGED aborted

(* The pool branch of PoolArena::tcacheAllocateSmall: under the head lock *)
(* take head->next, allocate from it, and initBufWithSubpage.             *)
AllocateFromPool(sizeIdx) ==
  /\ CanAllocate
  /\ sizeIdx <= smallMaxSizeIdx
  /\ pools[sizeIdx] /= << >>
  /\ AllocatedFromPool(Head(pools[sizeIdx]),
                       subpageAllocate(chunk.subpages[Head(pools[sizeIdx]).runOffset],
                                       pools, Head(pools[sizeIdx])))

(* PooledByteBuf::deallocate with no thread cache: PoolArena::freeChunk  *)
(* calls PoolChunk::free(handle, maxLength) under the arena lock; r is    *)
(* what it returns.                                                        *)
Freed(b, r) ==
  /\ chunk' = r.chunk
  /\ pools' = r.pools
  /\ bufs'  = BagRemove(bufs, b)
  /\ UNCHANGED aborted

Free(b) ==
  /\ ~aborted
  /\ BagIn(b, bufs)
  /\ Freed(b, chunkFree(chunk, ThisChunk, pools, b.handle, b.maxLength))

Next ==
  \/ \E i \in ReqSizeIdxs : Allocate(i)
  \/ \E i \in ReqSizeIdxs : AllocateFromPool(i)
  \/ \E b \in BagToSet(bufs) : Free(b)

Spec == Init /\ [][Next]_vars
(***************************************************************************)
(* Properties.                                                             *)
(***************************************************************************)
Handles == [runOffset : -1..ChunkPages, runPages : 1..ChunkPages \cup {32767},
            isUsed : {0, 1}, isSubpage : {0, 1}, bitmapIdx : -1..2 ^ PageShifts]

PagesOf(h) == h.runOffset..lastPage(h.runOffset, h.runPages)

TypeOK ==
  /\ chunk.freeBytes \in Int     \* an int: negative once NO_VALUE is charged
  /\ chunk.runsAvail \subseteq Handles
  /\ DOMAIN chunk.subpages \subseteq 0..ChunkPages - 1
  /\ pools \in [SmallIdxs -> Seq([chunk : {ThisChunk}, runOffset : 0..ChunkPages - 1])]
  /\ \A b \in BagToSet(bufs) : b.handle \in Handles /\ b.maxLength > 0
  /\ aborted \in BOOLEAN

(* Number of owners of page p: free runs in runsAvail, live normal buffers *)
(* (with multiplicity) and live subpages whose run covers p.               *)
PageOwners(p) ==
  Cardinality({h \in chunk.runsAvail : p \in PagesOf(h)})
  + MapThenSumSet(LAMBDA b : IF b.handle.isSubpage = 0 /\ p \in PagesOf(b.handle)
                             THEN bufs[b] ELSE 0, BagToSet(bufs))
  + Cardinality({o \in DOMAIN chunk.subpages :
                   p \in o..o + chunk.subpages[o].runSize \div PageSize - 1})

(* splitLargeRun, collapsePast/collapseNext and free's insertAvailRun      *)
(* keep the pages of the chunk partitioned: every page belongs to exactly  *)
(* one free run, one normal buffer or one subpage.                         *)
PagesPartitioned == \A p \in 0..ChunkPages - 1 : PageOwners(p) = 1

(* runsAvailMap, which collapsePast/collapseNext use to find neighbours,  *)
(* holds exactly the first and last page of every run in runsAvail, each  *)
(* mapped to that run's handle (insertAvailRun0 never overwrites a key).   *)
RunsAvailIndexed ==
  /\ DOMAIN chunk.runsAvailMap =
       UNION {{h.runOffset, lastPage(h.runOffset, h.runPages)} : h \in chunk.runsAvail}
  /\ \A h \in chunk.runsAvail :
       /\ chunk.runsAvailMap[h.runOffset] = h
       /\ chunk.runsAvailMap[lastPage(h.runOffset, h.runPages)] = h

(* m_freeBytes, which runFirstBestFit and PoolChunkList use, equals the    *)
(* bytes of the runs in runsAvail: allocateRun charges the split run and  *)
(* free credits the freed run's own pages, not the collapsed run's.        *)
FreeBytesAccounted ==
  chunk.freeBytes = PageSize * MapThenSumSet(LAMBDA h : h.runPages, chunk.runsAvail)

(* Every live subpage agrees with the buffers carved from it and with the *)
(* pools: its bitmap is the set of their bitmapIdx, numAvail counts the   *)
(* clear bits, a cached nextAvail is clear (the assert of allocate), and   *)
(* it is linked in its pool exactly when it has a free element; pools     *)
(* hold each live subpage of their size at most once and nothing else.    *)
SubpagesConsistent ==
  /\ \A off \in DOMAIN chunk.subpages :
       LET s    == chunk.subpages[off]
           mine == {b \in BagToSet(bufs) : b.handle.isSubpage = 1 /\ b.handle.runOffset = off}
       IN /\ s.doNotDestroy
          /\ s.bitmap = {b.handle.bitmapIdx : b \in mine}
          /\ s.numAvail = s.maxNumElems - Cardinality(s.bitmap)
          /\ s.nextAvail >= 0 => s.nextAvail \in 0..s.maxNumElems - 1 \ s.bitmap
          /\ ([chunk |-> ThisChunk, runOffset |-> off] \in Range(pools[s.sizeIdx]))
               <=> s.numAvail > 0
  /\ \A i \in SmallIdxs :
       /\ IsInjective(pools[i])
       /\ \A k \in DOMAIN pools[i] :
            /\ pools[i][k].runOffset \in DOMAIN chunk.subpages
            /\ chunk.subpages[pools[i][k].runOffset].sizeIdx = i

(* No two live buffers share a byte, and none reaches past the chunk:     *)
(* the handles PoolChunk::allocate and PoolSubpage::allocate give out are *)
(* never given out twice while live.                                       *)
NoAliasing ==
  \A b1, b2 \in BagToSet(bufs) :
    /\ bufs[b1] = 1
    /\ b1.offset + b1.maxLength <= ChunkSize
    /\ b1 /= b2 => \/ b1.offset + b1.maxLength <= b2.offset
                   \/ b2.offset + b2.maxLength <= b1.offset
====
