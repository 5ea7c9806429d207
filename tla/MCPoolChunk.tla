---------------------------- MODULE MCPoolChunk ----------------------------
(***************************************************************************)
(* The single-chunk specification with 8 KiB pages.                        *)
(*                                                                         *)
(* Small: an 8-page chunk asked for a 4 KiB class (two elements in a       *)
(* 1-page subpage) and the 32 KiB normal class (a 4-page run), so that    *)
(* subpages fill, leave and rejoin their pool, are destroyed or kept as    *)
(* the last of their pool, and sit next to normal runs.                    *)
(***************************************************************************)
EXTENDS PoolChunk

MCSmallSizeIdxs  == {size2SizeIdx(s) : s \in {4096, 32768}}
====
