--------------------------- MODULE MCSizeClasses ---------------------------
(***************************************************************************)
(* Checks the size-class tables and the closed-form index formulas of      *)
(* SizeClasses against reference definitions written as minima and maxima  *)
(* over the generated table.  The single variable is the query under test; *)
(* Init enumerates every query, so each state is one input to the formulas. *)
(***************************************************************************)
EXTENDS SizeClasses, TLC

(* Sizes queried: everything up to the lookup threshold, every class size  *)
(* and its two neighbours, and one size past the chunk (a huge request).  *)
TestSizes ==
  (0..lookupMaxSize + 1)
    \cup {sizeIdx2size(i) + d : i \in SizeIndices, d \in {-1, 0, 1}}
    \cup {ChunkSize + 1}

VARIABLE query

Init == query \in [op : {"size"}, arg : TestSizes]
                  \cup [op : {"pages"}, arg : 1..ChunkPages + 1]
                  \cup [op : {"row"}, arg : SizeIndices]

Next == UNCHANGED query

Spec == Init /\ [][Next]_query

(* Reference definitions: the least class holding a size, the least page   *)
(* class holding n pages, the greatest page class not above n pages.       *)
LeastClass(size) ==
  IF size > ChunkSize THEN nSizes
  ELSE CHOOSE i \in SizeIndices :
         sizeIdx2size(i) >= size /\ \A j \in 0..i - 1 : sizeIdx2size(j) < size

LeastPageClass(n) ==
  IF n * PageSize > ChunkSize THEN nPSizes
  ELSE CHOOSE j \in 0..nPSizes - 1 :
         pageIdx2sizeTab[j] >= n * PageSize
         /\ \A k \in 0..j - 1 : pageIdx2sizeTab[k] < n * PageSize

GreatestPageClassBelow(n) ==
  CHOOSE j \in 0..nPSizes - 1 :
    pageIdx2sizeTab[j] <= n * PageSize
    /\ \A k \in j + 1..nPSizes - 1 : pageIdx2sizeTab[k] > n * PageSize

(* The generated table (SizeClasses::sizeClasses), row by row: strictly   *)
(* increasing, never above chunkSize and ending exactly at it, and every   *)
(* class that is a page multiple is also a page class.                    *)
SizeTableShape ==
  query.op = "row" =>
    LET i == query.arg IN
    /\ i > 0 => sizeIdx2size(i - 1) < sizeIdx2size(i)
    /\ sizeIdx2size(i) <= ChunkSize
    /\ i = nSizes - 1 => sizeIdx2size(i) = ChunkSize
    /\ sizeIdx2size(i) % PageSize = 0 =>
         \E j \in 0..nPSizes - 1 : pageIdx2sizeTab[j] = sizeIdx2size(i)

(* size2SizeIdx, by table below lookupMaxSize and by bit arithmetic above, *)
(* returns the least class whose size holds the request, and nSizes for a  *)
(* request above chunkSize.                                                *)
Size2SizeIdxIsLeastFit ==
  query.op = "size" => size2SizeIdx(query.arg) = LeastClass(query.arg)

(* normalizeSize returns the size of that least class, by either path: the *)
(* lookup table and normalizeSizeCompute agree, as the assert in           *)
(* SizeClasses::normalizeSize demands.                                     *)
NormalizeSizeIsClassSize ==
  query.op = "size" /\ 0 < query.arg /\ query.arg <= ChunkSize =>
    /\ normalizeSize(query.arg) = sizeIdx2size(LeastClass(query.arg))
    /\ normalizeSizeCompute(query.arg) = normalizeSize(query.arg)

(* pages2pageIdx rounds a page count up to a page class and               *)
(* pages2pageIdxFloor rounds it down; PoolChunk files free runs by the     *)
(* floor and looks them up by the ceiling, so both must be exact.          *)
PageIdxBracketsPages ==
  query.op = "pages" /\ query.arg <= ChunkPages =>
    /\ pages2pageIdx(query.arg) = LeastPageClass(query.arg)
    /\ pages2pageIdxFloor(query.arg) = GreatestPageClassBelow(query.arg)
====
