---------------------------- MODULE SizeClasses ----------------------------
(***************************************************************************)
(* The size-class tables of src/buffer/SizeClasses.cpp: the generator of   *)
(* the (log2Group, log2Delta, nDelta) rows, the three lookup tables built  *)
(* from them once at construction, and the closed-form index formulas      *)
(* (size2SizeIdx, pages2pageIdxCompute, normalizeSizeCompute) that replace *)
(* a table scan above the lookup threshold.  No variables: every operator  *)
(* is a constant-level function of the constructor's arguments.           *)
(***************************************************************************)
EXTENDS Integers, Sequences, FiniteSets

CONSTANTS
  PageShifts,   \* log2 of the page size (13 for the default 8 KiB pages)
  ChunkSize     \* bytes per chunk (pageSize << maxOrder)

LOG2_QUANTUM          == 4
LOG2_SIZE_CLASS_GROUP == 2
LOG2_MAX_LOOKUP_SIZE  == 12
PageSize              == 2 ^ PageShifts
ChunkPages            == ChunkSize \div PageSize

ASSUME PageShifts \in 5..20 /\ ChunkSize \in {2 ^ k : k \in PageShifts..24}

(* MathUtil::log2 = 31 - numberOfLeadingZeros(val), for val >= 1.          *)
RECURSIVE Log2(_)
Log2(val) == IF val = 1 THEN 0 ELSE 1 + Log2(val \div 2)

(***************************************************************************)
(* SizeClasses::sizeClass: the seven columns of one row.  The column      *)
(* "no" is 0 and "yes" is 1, as in the code; log2DeltaLookup is "no" (0)  *)
(* for rows above the lookup threshold.                                   *)
(***************************************************************************)
SizeClass(index, log2Group, log2Delta, nDelta) ==
  LET size       == 2 ^ log2Group + nDelta * 2 ^ log2Delta
      log2Ndelta == IF nDelta = 0 THEN 0 ELSE Log2(nDelta)
      remove0    == IF 2 ^ log2Ndelta < nDelta THEN 1 ELSE 0
      log2Size   == IF log2Delta + log2Ndelta = log2Group
                      THEN log2Group + 1 ELSE log2Group
      remove     == IF log2Size = log2Group THEN 1 ELSE remove0
  IN [index           |-> index,
      log2Group       |-> log2Group,
      log2Delta       |-> log2Delta,
      nDelta          |-> nDelta,
      isMultiPageSize |-> IF log2Delta >= PageShifts \/ size % PageSize = 0
                            THEN 1 ELSE 0,
      isSubpage       |-> IF log2Size < PageShifts + LOG2_SIZE_CLASS_GROUP
                            THEN 1 ELSE 0,
      log2DeltaLookup |-> IF \/ log2Size < LOG2_MAX_LOOKUP_SIZE
                             \/ log2Size = LOG2_MAX_LOOKUP_SIZE /\ remove = 0
                            THEN log2Delta ELSE 0,
      size            |-> size]

(***************************************************************************)
(* SizeClasses::sizeClasses: the first group has nDelta 0..3 at            *)
(* log2Group = log2Delta = LOG2_QUANTUM; every later group has nDelta 1..4 *)
(* and both logs one higher than the last, and generation stops as soon as *)
(* a row reaches chunkSize, possibly in the middle of a group.  The k-th   *)
(* row after the first group (0-based) is in later group k \div 4 with     *)
(* nDelta k % 4 + 1; the loop's stop test picks how many of them exist.   *)
(***************************************************************************)
GroupRows == 2 ^ LOG2_SIZE_CLASS_GROUP

LaterRow(k) ==
  SizeClass(GroupRows + k,
            LOG2_QUANTUM + LOG2_SIZE_CLASS_GROUP + k \div GroupRows,
            LOG2_QUANTUM + k \div GroupRows,
            (k % GroupRows) + 1)

(* More rows than any chunk size of the ASSUME can produce.               *)
MaxLaterRows == (Log2(ChunkSize) + 1 - LOG2_QUANTUM) * GroupRows

(* The size sizeClass gives later row k: (1 << log2Group) + (nDelta <<    *)
(* log2Delta).                                                             *)
LaterSize(k) ==
  2 ^ (LOG2_QUANTUM + LOG2_SIZE_CLASS_GROUP + k \div GroupRows)
    + ((k % GroupRows) + 1) * 2 ^ (LOG2_QUANTUM + k \div GroupRows)

(* The n later rows generated when "while (size < chunkSize)" is tested    *)
(* as size < limit: the least n whose last row reaches limit.  Sizes grow  *)
(* with k, so the row before it is below limit.                            *)
RowsUntil(limit) ==
  LET n == CHOOSE n \in 1..MaxLaterRows :
             LaterSize(n - 1) >= limit /\ (n = 1 \/ LaterSize(n - 2) < limit)
  IN [k \in 1..n |-> LaterRow(k - 1)]

(* Mutant: the generator's stop test at ">" lets one row past chunkSize. *)
LaterGroupsPastChunk == RowsUntil(ChunkSize + 1)

LaterGroups == RowsUntil(ChunkSize)

FirstGroup ==
  [i \in 1..2 ^ LOG2_SIZE_CLASS_GROUP |->
     SizeClass(i - 1, LOG2_QUANTUM, LOG2_QUANTUM, i - 1)]

SizeClassTable == FirstGroup \o LaterGroups

(* Row of size index i (indices are 0-based in the code).                  *)
Row(i) == SizeClassTable[i + 1]

nSizes          == Len(SizeClassTable)
SizeIndices     == 0..nSizes - 1
smallMaxSizeIdx == LET small == {i \in SizeIndices : Row(i).isSubpage = 1}
                   IN CHOOSE i \in small : \A j \in small : j <= i
nSubpages       == Cardinality({i \in SizeIndices : Row(i).isSubpage = 1})
lookupMaxSize   == LET lk == {i \in SizeIndices : Row(i).log2DeltaLookup /= 0}
                   IN Row(CHOOSE i \in lk : \A j \in lk : j <= i).size

(***************************************************************************)
(* SizeClasses::idx2SizeTab: sizeIdx -> size, and the sizes of the rows   *)
(* that are page multiples, in order, as pageIdx -> size.                 *)
(***************************************************************************)
sizeIdx2sizeTab == [i \in SizeIndices |-> Row(i).size]
PageRows        == SelectSeq(SizeClassTable, LAMBDA r : r.isMultiPageSize = 1)
nPSizes         == Len(PageRows)
pageIdx2sizeTab == [j \in 0..nPSizes - 1 |-> PageRows[j + 1].size]

(***************************************************************************)
(* SizeClasses::size2idxTab: row i contributes 2^(log2Delta - QUANTUM)    *)
(* consecutive entries, one per 16-byte step, until lookupMaxSize.  Entry *)
(* k (0-based) serves the sizes in (16k, 16(k+1)].                        *)
(***************************************************************************)
lastLookupRow == CHOOSE i \in SizeIndices : Row(i).size = lookupMaxSize

(* times = 1 << log2Delta - LOG2_QUANTUM entries per row, and the index of *)
(* the first entry of row i: the idx the loop has reached at row i, the    *)
(* number of entries the earlier rows wrote.                               *)
Blocks == [i \in 0..lastLookupRow |-> 2 ^ (Row(i).log2Delta - LOG2_QUANTUM)]
BlockStart(i) == Cardinality(UNION {{j} \X (1..Blocks[j]) : j \in 0..i - 1})

size2idxTab ==
  [k \in 0..(lookupMaxSize \div 2 ^ LOG2_QUANTUM) - 1 |->
     CHOOSE i \in DOMAIN Blocks : BlockStart(i) <= k /\ k < BlockStart(i) + Blocks[i]]

(***************************************************************************)
(* SizeClasses::size2SizeIdx: table lookup up to lookupMaxSize, closed    *)
(* form above it, nSizes (the "huge" sentinel) above chunkSize.           *)
(***************************************************************************)
(* Mutant: the closed form masks size rather than size - 1, so a request *)
(* of exactly a class size lands in the next class.                       *)
size2SizeIdxNoMinusOne(size) ==
  IF size = 0 THEN 0
  ELSE IF size > ChunkSize THEN nSizes
  ELSE IF size <= lookupMaxSize
    THEN size2idxTab[(size - 1) \div 2 ^ LOG2_QUANTUM]
  ELSE LET x         == Log2(2 * size - 1)
           shift     == IF x < LOG2_SIZE_CLASS_GROUP + LOG2_QUANTUM + 1
                          THEN 0 ELSE x - (LOG2_SIZE_CLASS_GROUP + LOG2_QUANTUM)
           log2Delta == IF x < LOG2_SIZE_CLASS_GROUP + LOG2_QUANTUM + 1
                          THEN LOG2_QUANTUM ELSE x - LOG2_SIZE_CLASS_GROUP - 1
       IN shift * 2 ^ LOG2_SIZE_CLASS_GROUP
            + ((size \div 2 ^ log2Delta) % 2 ^ LOG2_SIZE_CLASS_GROUP)

size2SizeIdx(size) ==
  IF size = 0 THEN 0
  ELSE IF size > ChunkSize THEN nSizes
  ELSE IF size <= lookupMaxSize
    THEN size2idxTab[(size - 1) \div 2 ^ LOG2_QUANTUM]
  ELSE LET x         == Log2(2 * size - 1)
           shift     == IF x < LOG2_SIZE_CLASS_GROUP + LOG2_QUANTUM + 1
                          THEN 0 ELSE x - (LOG2_SIZE_CLASS_GROUP + LOG2_QUANTUM)
           group     == shift * 2 ^ LOG2_SIZE_CLASS_GROUP
           log2Delta == IF x < LOG2_SIZE_CLASS_GROUP + LOG2_QUANTUM + 1
                          THEN LOG2_QUANTUM ELSE x - LOG2_SIZE_CLASS_GROUP - 1
           mod       == ((size - 1) \div 2 ^ log2Delta) % 2 ^ LOG2_SIZE_CLASS_GROUP
       IN group + mod

sizeIdx2size(sizeIdx) == sizeIdx2sizeTab[sizeIdx]

(***************************************************************************)
(* SizeClasses::pages2pageIdxCompute, and its two entry points: the       *)
(* smallest page class holding the pages, or (floor) the largest one not  *)
(* exceeding them.  Called with pages >= 1 only.                          *)
(***************************************************************************)
(* Mutant: floor steps down also when the class size equals the pages.   *)
pages2pageIdxComputeFloorGe(pages, floor) ==
  LET pageSize  == pages * PageSize
      x         == Log2(2 * pageSize - 1)
      shift     == IF x < LOG2_SIZE_CLASS_GROUP + PageShifts
                     THEN 0 ELSE x - (LOG2_SIZE_CLASS_GROUP + PageShifts)
      log2Delta == IF x < LOG2_SIZE_CLASS_GROUP + PageShifts + 1
                     THEN PageShifts ELSE x - LOG2_SIZE_CLASS_GROUP - 1
      pageIdx   == shift * 2 ^ LOG2_SIZE_CLASS_GROUP
                     + (((pageSize - 1) \div 2 ^ log2Delta) % 2 ^ LOG2_SIZE_CLASS_GROUP)
  IN IF pageSize > ChunkSize THEN nPSizes
     ELSE IF floor /\ pageIdx2sizeTab[pageIdx] >= pageSize THEN pageIdx - 1
     ELSE pageIdx

pages2pageIdxCompute(pages, floor) ==
  LET pageSize  == pages * PageSize
      x         == Log2(2 * pageSize - 1)
      shift     == IF x < LOG2_SIZE_CLASS_GROUP + PageShifts
                     THEN 0 ELSE x - (LOG2_SIZE_CLASS_GROUP + PageShifts)
      group     == shift * 2 ^ LOG2_SIZE_CLASS_GROUP
      log2Delta == IF x < LOG2_SIZE_CLASS_GROUP + PageShifts + 1
                     THEN PageShifts ELSE x - LOG2_SIZE_CLASS_GROUP - 1
      mod       == ((pageSize - 1) \div 2 ^ log2Delta) % 2 ^ LOG2_SIZE_CLASS_GROUP
      pageIdx   == group + mod
  IN IF pageSize > ChunkSize THEN nPSizes
     ELSE IF floor /\ pageIdx2sizeTab[pageIdx] > pageSize THEN pageIdx - 1
     ELSE pageIdx

pages2pageIdx(pages)      == pages2pageIdxCompute(pages, FALSE)
pages2pageIdxFloor(pages) == pages2pageIdxCompute(pages, TRUE)

(***************************************************************************)
(* SizeClasses::normalizeSize and normalizeSizeCompute: round a request   *)
(* up to its class size; above lookupMaxSize by rounding up to the        *)
(* class's delta.                                                         *)
(***************************************************************************)
(* Mutant: log2Delta taken one too large, rounding to twice the delta.  *)
normalizeSizeComputeWideDelta(size) ==
  LET x         == Log2(2 * size - 1)
      log2Delta == IF x < LOG2_SIZE_CLASS_GROUP + LOG2_QUANTUM + 1
                     THEN LOG2_QUANTUM ELSE x - LOG2_SIZE_CLASS_GROUP
      delta     == 2 ^ log2Delta
  IN ((size + delta - 1) \div delta) * delta

normalizeSizeCompute(size) ==
  LET x         == Log2(2 * size - 1)
      log2Delta == IF x < LOG2_SIZE_CLASS_GROUP + LOG2_QUANTUM + 1
                     THEN LOG2_QUANTUM ELSE x - LOG2_SIZE_CLASS_GROUP - 1
      delta     == 2 ^ log2Delta
  IN ((size + delta - 1) \div delta) * delta

normalizeSize(size) ==
  IF size = 0 THEN sizeIdx2sizeTab[0]
  ELSE IF size <= lookupMaxSize
    THEN sizeIdx2sizeTab[size2idxTab[(size - 1) \div 2 ^ LOG2_QUANTUM]]
  ELSE normalizeSizeCompute(size)
====
