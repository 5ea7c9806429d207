---------------------------- MODULE MCLongAdder ----------------------------
(* Instantiation of LongAdder for TLC: the add of PoolArena's LongAdder    *)
(* counters, by three threads on a machine of four CPUs, so that the table *)
(* is created at two slots and doubled once to four.                       *)
EXTENDS LongAdder

(* Two threads contend long enough to double the table; a third, with one *)
(* add, is the one that finds the table being created and falls back on    *)
(* m_base.                                                                  *)
PassAdds == [t \in Threads |-> IF t = CHOOSE u \in Threads : TRUE THEN 1 ELSE 2]

(* Three threads with three adds each, every probe's low bits 2: all of    *)
(* them meet on slot 0 of the two-slot table and slot 2 of the four-slot   *)
(* one.  localinit seeds the probe from random_device and advanceProbe is  *)
(* a xorshift, so some seeds give any short run of low bits; the behaviours *)
(* kept are behaviours of the code.                                         *)
LostAdds == [t \in Threads |-> 3]
LostProbes == {2}

====
