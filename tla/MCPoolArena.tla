---------------------------- MODULE MCPoolArena ----------------------------
(***************************************************************************)
(* An arena of two 8-page chunks (8 KiB pages, 64 KiB chunks) asked for   *)
(* 16 KiB (a one-element subpage of 2 pages, 25% of a chunk, which takes  *)
(* a new chunk out of qInit), 32 KiB (a 4-page run, 50%) and a whole chunk *)
(* (only qInit can serve it, and add sends the chunk on to q100), plus    *)
(* one huge request.  Every request is at least a quarter of a chunk, so  *)
(* no chunk is emptied while in qInit (see MCQInitSizeIdxs).              *)
(***************************************************************************)
EXTENDS PoolArena

MCReqSizeIdxs == {size2SizeIdx(s) : s \in {16384, 32768, 65536}}
MCHugeSizes   == {81920}

(* A 4 KiB class (two elements in a one-page subpage) keeps a chunk in   *)
(* qInit, which keeps it when emptied; 32 KiB fills a second chunk.     *)
MCQInitSizeIdxs == {size2SizeIdx(s) : s \in {4096, 32768}}

(* PooledByteBuf::capacity(40 KiB): reallocates a quarter- or half-chunk *)
(* buffer into a 5-page run, and shrinks a whole-chunk one in place, 40   *)
(* KiB being more than half of its m_maxLength.                           *)
MCNewCapacities == {40960}

(* Chunk and object addresses are interchangeable: nothing compares or   *)
(* orders them.                                                           *)
MCObjSymmetry == Permutations(Objs)

MCSymmetry == Permutations(ChunkIds) \cup Permutations(Objs)
====
