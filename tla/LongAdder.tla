----------------------------- MODULE LongAdder -----------------------------
(***************************************************************************)
(* LongAdder::add (src/buffer/LongAdder/LongAdder.h) and                   *)
(* Striped64::longAccumulate (src/buffer/LongAdder/Striped64.h): threads   *)
(* add X to a counter made of m_base and a table of Cells that is created, *)
(* filled and doubled under the m_cellsBusy spin lock.                     *)
(*                                                                         *)
(* Each step is one access to shared memory: a load, a store, or a         *)
(* compare-and-swap (x86 compare_exchange_weak does not fail spuriously).  *)
(* Accesses made while holding m_cellsBusy to what only its holder writes  *)
(* are merged into one step, and so are the loads of a test whose every    *)
(* failing outcome leads to the same code ("!m_cellsBusy && casCellsBusy()"*)
(* fails alike at the load and at the CAS).  Work on locals is folded into *)
(* the step before it.  casBase(v + x, v = m_base.load()) is taken in the  *)
(* argument order that loads v first.                                      *)
(*                                                                         *)
(* m_cells and nCells are plain fields, read apart by longAccumulate, and  *)
(* written apart: nCells before m_cells when the table is created, nCells  *)
(* after m_cells and its copy when it is doubled.  new Cell<T>*[n] leaves  *)
(* its slots uninitialised, and a stale nCells can index past the end of  *)
(* the table read with it: such a read gives nullptr or a stray pointer    *)
(* (Stray), or only nullptr when StrayReadsNull.  A thread that            *)
(* dereferences Stray has undefined behaviour; it stops ("wild").          *)
(*                                                                         *)
(* The thread-local probe is used only as (n - 1) & index with n a power   *)
(* of two not above MaxCells; localinit and advanceProbe give it a         *)
(* pseudo-random non-zero value, so its low bits are any value below       *)
(* MaxCells.  NoProbe is the probe's initial 0.  A Cell is given an id     *)
(* when it is stored in a table; the Cell leaked when casCellsBusy fails   *)
(* after new Cell<T>(x) is not kept.                                       *)
(***************************************************************************)
EXTENDS Naturals, Sequences, FiniteSets, Functions, FiniteSetsExt

(* Threads: the adding threads; X: what each add adds; MaxAdds[t]: the    *)
(* number of adds thread t makes.                                          *)
(* NCPU: sysconf(_SC_NPROCESSORS_ONLN), the table stops doubling at it.    *)
(* StrayReadsNull: memory the code reads without having written holds 0.   *)
CONSTANTS Threads, X, MaxAdds, NCPU, StrayReadsNull

(* The largest table: doubling from 2 while n < NCPU.                      *)
MaxCells == CHOOSE m \in {2 ^ k : k \in 1..NCPU} : m >= NCPU /\ m \div 2 < NCPU

Null    == 0
Stray == -1
NoProbe == -1

VARIABLES
  base,      \* m_base
  busy,      \* m_cellsBusy
  cellsRef,  \* m_cells: 0 (nullptr) or an index into tables
  nCells,    \* nCells
  tables,    \* every table allocated: slot -> cell id, Null or Stray
  cellVal,   \* the value of each Cell ever attached, by cell id
  probe,     \* the thread-local probe, by its low bits
  pc,        \* where each thread is
  l,         \* the locals of each thread's add / longAccumulate
  calls      \* adds each thread has completed

vars == <<base, busy, cellsRef, nCells, tables, cellVal, probe, pc, l, calls>>

NoLocals == [cs |-> 0, n |-> 0, c |-> Null, v |-> 0, index |-> NoProbe,
             unc |-> TRUE, collide |-> FALSE, created |-> FALSE, rs |-> 0]

Init ==
  /\ base = 0 /\ busy = FALSE /\ cellsRef = 0 /\ nCells = 0
  /\ tables = << >> /\ cellVal = << >>
  /\ probe = [t \in Threads |-> NoProbe]
  /\ pc = [t \in Threads |-> "idle"]
  /\ l = [t \in Threads |-> NoLocals]
  /\ calls = [t \in Threads |-> 0]

(* The slot (n - 1) & index of a table of n slots, n a power of two.      *)
lowBits(index, n) == IF index = NoProbe THEN 0 ELSE index % n

(* The values memory the code has not written can read as.                 *)
StrayValues == IF StrayReadsNull THEN {Null} ELSE {Null, Stray}

(* advanceProbe: xorshift of a non-zero value; its low bits depend on the *)
(* high bits the model does not keep.                                      *)
Probes == 0..MaxCells - 1

(* The values slot i of table a can read as: past its end, stray memory.   *)
SlotRead(a, i) ==
  IF i \in DOMAIN tables[a] THEN {tables[a][i]} ELSE StrayValues

(* A table of size slots fresh from new Cell<T>*[size].                    *)
FreshTables(size) == [0..size - 1 -> StrayValues]

(* The cells the counter holds: those reachable from m_cells, and those of *)
(* a table being copied into its successor.                                 *)
Copying == {l[t].cs : t \in {u \in Threads : pc[u] = "la_copy"}}
Reachable ==
  UNION {Range(tables[a]) : a \in ({cellsRef} \cup Copying) \ {0}}
    \ {Null, Stray}

Counted == base + MapThenSumSet(LAMBDA c : cellVal[c], Reachable)

go(t, p) == pc' = [pc EXCEPT ![t] = p]
setL(t, r) == l' = [l EXCEPT ![t] = r]

(* add returns: the thread is idle again, with fresh locals.              *)
Return(t) ==
  /\ pc' = [pc EXCEPT ![t] = "idle"]
  /\ l' = [l EXCEPT ![t] = NoLocals]
  /\ calls' = [calls EXCEPT ![t] = @ + 1]

SharedVars == <<base, busy, cellsRef, nCells, tables, cellVal>>

(***************************************************************************)
(* LongAdder::add(x)                                                       *)
(***************************************************************************)
(* longAccumulate(x, uncontended, index) is entered; index == 0 makes      *)
(* localinit() draw the probe and sets wasUncontended = true.              *)
EnterLA(t, lt) ==
  /\ IF lt.index = NoProbe
     THEN \E p \in Probes :
            /\ probe' = [probe EXCEPT ![t] = p]
            /\ setL(t, [lt EXCEPT !.index = p, !.unc = TRUE, !.c = Null, !.v = 0])
     ELSE setL(t, [lt EXCEPT !.c = Null, !.v = 0]) /\ UNCHANGED probe
  /\ go(t, "la_top")

(* add(x) is called: cs = m_cells; a null table tries casBase first,      *)
(* otherwise m = nCells - 1 (m_cells, once set, is never null again, so    *)
(* reading nCells at the same instant is reading it later).                *)
Call(t) ==
  /\ pc[t] = "idle" /\ calls[t] < MaxAdds[t]
  /\ LET lt == [l[t] EXCEPT !.cs = cellsRef, !.n = nCells, !.index = probe[t]]
     IN IF cellsRef # 0 /\ nCells - 1 < 0
        THEN EnterLA(t, lt)
        ELSE /\ setL(t, lt) /\ UNCHANGED probe
             /\ go(t, IF cellsRef = 0 THEN "add_loadBase" ELSE "add_slot")
  /\ UNCHANGED <<SharedVars, calls>>

AddLoadBase(t) ==
  /\ pc[t] = "add_loadBase"
  /\ setL(t, [l[t] EXCEPT !.v = base])
  /\ go(t, "add_casBase")
  /\ UNCHANGED <<SharedVars, probe, calls>>

(* casBase(b + x, b): done, or contention sends the add to longAccumulate *)
(* (cs is null).                                                           *)
AddCasBase(t) ==
  /\ pc[t] = "add_casBase"
  /\ IF base = l[t].v
     THEN base' = base + X /\ Return(t) /\ UNCHANGED probe
     ELSE EnterLA(t, l[t]) /\ UNCHANGED <<base, calls>>
  /\ UNCHANGED <<busy, cellsRef, nCells, tables, cellVal>>

(* c = m_cells[index & m], m_cells read again, m from the nCells read.     *)
AddReadSlot(t) ==
  /\ pc[t] = "add_slot"
  /\ \E c \in SlotRead(cellsRef, lowBits(l[t].index, l[t].n)) :
       IF c = Null
       THEN EnterLA(t, l[t])
       ELSE setL(t, [l[t] EXCEPT !.c = c]) /\ go(t, "add_loadCell") /\ UNCHANGED probe
  /\ UNCHANGED <<SharedVars, calls>>

(* v = c->value.load(), the first dereference of c.                       *)
AddLoadCell(t) ==
  /\ pc[t] = "add_loadCell"
  /\ IF l[t].c = Stray
     THEN go(t, "wild") /\ UNCHANGED l
     ELSE setL(t, [l[t] EXCEPT !.v = cellVal[l[t].c]]) /\ go(t, "add_casCell")
  /\ UNCHANGED <<SharedVars, probe, calls>>

(* casCellValue(v + x, v, c->value): done, or uncontended = false.         *)
AddCasCell(t) ==
  /\ pc[t] = "add_casCell"
  /\ IF cellVal[l[t].c] = l[t].v
     THEN cellVal' = [cellVal EXCEPT ![l[t].c] = @ + X] /\ Return(t) /\ UNCHANGED probe
     ELSE EnterLA(t, [l[t] EXCEPT !.unc = FALSE]) /\ UNCHANGED <<cellVal, calls>>
  /\ UNCHANGED <<base, busy, cellsRef, nCells, tables>>

(***************************************************************************)
(* Striped64::longAccumulate(x, wasUncontended, index)                     *)
(***************************************************************************)
(* Top of the loop: cs = m_cells.                                          *)
LaReadCells(t) ==
  /\ pc[t] = "la_top"
  /\ setL(t, [l[t] EXCEPT !.cs = cellsRef])
  /\ go(t, IF cellsRef # 0 THEN "la_n" ELSE "la_initTry")
  /\ UNCHANGED <<SharedVars, probe, calls>>

(* n = nCells, read after cs and apart from it.                            *)
LaReadN(t) ==
  /\ pc[t] = "la_n"
  /\ setL(t, [l[t] EXCEPT !.n = nCells])
  /\ go(t, IF nCells > 0 THEN "la_slot" ELSE "la_initTry")
  /\ UNCHANGED <<SharedVars, probe, calls>>

(* continue: the next iteration, with the locals it reads afresh cleared.   *)
Loop(t, lt) == setL(t, [lt EXCEPT !.c = Null, !.v = 0]) /\ go(t, "la_top")

(* The end of an iteration that ends in index = advanceProbe(index).       *)
Advance(t, lt) == \E p \in Probes : Loop(t, [lt EXCEPT !.index = p])

(* c = cs[(n - 1) & index]; a null slot tries to attach a Cell; a failed   *)
(* CAS in add makes one rehash before the next CAS (wasUncontended).       *)
LaReadSlot(t) ==
  /\ pc[t] = "la_slot"
  /\ \E c \in SlotRead(l[t].cs, lowBits(l[t].index, l[t].n)) :
     /\ CASE c = Null -> setL(t, [l[t] EXCEPT !.c = c]) /\ go(t, "la_attach")
          [] ~l[t].unc -> Advance(t, [l[t] EXCEPT !.c = c, !.unc = TRUE])
          [] OTHER -> setL(t, [l[t] EXCEPT !.c = c]) /\ go(t, "la_loadCell")
     /\ UNCHANGED <<SharedVars, probe, calls>>

(* Mutant: the attach stores its Cell without testing the slot again     *)
(* under the lock.                                                          *)
LaAttachNoRecheck(t) ==
  /\ pc[t] = "la_attach"
  /\ IF busy
     THEN Advance(t, [l[t] EXCEPT !.collide = FALSE])
          /\ UNCHANGED <<busy, tables, cellVal>>
     ELSE LET j == lowBits(l[t].index, nCells)
          IN /\ busy' = TRUE
             /\ cellVal' = Append(cellVal, X)
             /\ tables' = [tables EXCEPT ![cellsRef][j] = Len(cellVal')]
             /\ setL(t, [l[t] EXCEPT !.created = TRUE])
             /\ go(t, "la_attachUnlock")
  /\ UNCHANGED <<base, cellsRef, nCells, probe, calls>>

(* !m_cellsBusy && casCellsBusy(), then, under the lock, rs = m_cells,     *)
(* m = nCells and rs[(m - 1) & index] = new Cell(x) if that slot is null. *)
(* The lock busy: collide = false and a rehash.                            *)
LaAttach(t) ==
  /\ pc[t] = "la_attach"
  /\ IF busy
     THEN Advance(t, [l[t] EXCEPT !.collide = FALSE])
          /\ UNCHANGED <<busy, tables, cellVal>>
     ELSE LET j == lowBits(l[t].index, nCells)
              free == tables[cellsRef][j] = Null
          IN /\ busy' = TRUE
             /\ IF free
                THEN /\ cellVal' = Append(cellVal, X)
                     /\ tables' = [tables EXCEPT ![cellsRef][j] = Len(cellVal')]
                ELSE UNCHANGED <<tables, cellVal>>
             /\ setL(t, [l[t] EXCEPT !.created = free])
             /\ go(t, "la_attachUnlock")
  /\ UNCHANGED <<base, cellsRef, nCells, probe, calls>>

(* m_cellsBusy = false; break if created, else continue.                  *)
LaAttachUnlock(t) ==
  /\ pc[t] = "la_attachUnlock"
  /\ busy' = FALSE
  /\ IF l[t].created THEN Return(t) ELSE Loop(t, l[t]) /\ UNCHANGED calls
  /\ UNCHANGED <<base, cellsRef, nCells, tables, cellVal, probe>>

(* v = c->value.load(), the dereference of c.                             *)
LaLoadCell(t) ==
  /\ pc[t] = "la_loadCell"
  /\ IF l[t].c = Stray
     THEN go(t, "wild") /\ UNCHANGED l
     ELSE setL(t, [l[t] EXCEPT !.v = cellVal[l[t].c]]) /\ go(t, "la_casCell")
  /\ UNCHANGED <<SharedVars, probe, calls>>

(* casCellValue: break, or on to the collision tests.                     *)
LaCasCell(t) ==
  /\ pc[t] = "la_casCell"
  /\ IF cellVal[l[t].c] = l[t].v
     THEN cellVal' = [cellVal EXCEPT ![l[t].c] = @ + X] /\ Return(t)
     ELSE go(t, "la_stale") /\ UNCHANGED <<cellVal, l, calls>>
  /\ UNCHANGED <<base, busy, cellsRef, nCells, tables, probe>>

(* n >= NCPU || m_cells != cs: collide = false; else !collide: collide =   *)
(* true; both rehash.  Otherwise the table is to be doubled.               *)
LaCollide(t) ==
  /\ pc[t] = "la_stale"
  /\ CASE l[t].n >= NCPU \/ cellsRef # l[t].cs ->
            Advance(t, [l[t] EXCEPT !.collide = FALSE])
       [] ~l[t].collide -> Advance(t, [l[t] EXCEPT !.collide = TRUE])
       [] OTHER -> go(t, "la_expand") /\ UNCHANGED l
  /\ UNCHANGED <<SharedVars, probe, calls>>

(* Mutant: the doubled table is allocated one slot too long.             *)
LaExpandLockLong(t) ==
  /\ pc[t] = "la_expand"
  /\ IF busy
     THEN Advance(t, l[t]) /\ UNCHANGED <<busy, cellsRef, tables>>
     ELSE /\ busy' = TRUE
          /\ IF cellsRef = l[t].cs
             THEN \E fresh \in FreshTables(2 * l[t].n + 1) :
                    /\ tables' = Append(tables, fresh)
                    /\ cellsRef' = Len(tables')
                    /\ go(t, "la_copy")
             ELSE go(t, "la_expandUnlock") /\ UNCHANGED <<cellsRef, tables>>
          /\ UNCHANGED l
  /\ UNCHANGED <<base, nCells, cellVal, probe, calls>>

(* !m_cellsBusy && casCellsBusy(): failing, a rehash; then, under the      *)
(* lock, if (m_cells == cs) m_cells = new Cell<T>*[n << 1].               *)
LaExpandLock(t) ==
  /\ pc[t] = "la_expand"
  /\ IF busy
     THEN Advance(t, l[t]) /\ UNCHANGED <<busy, cellsRef, tables>>
     ELSE /\ busy' = TRUE
          /\ IF cellsRef = l[t].cs
             THEN \E fresh \in FreshTables(2 * l[t].n) :
                    /\ tables' = Append(tables, fresh)
                    /\ cellsRef' = Len(tables')
                    /\ go(t, "la_copy")
             ELSE go(t, "la_expandUnlock") /\ UNCHANGED <<cellsRef, tables>>
          /\ UNCHANGED l
  /\ UNCHANGED <<base, nCells, cellVal, probe, calls>>

(* m_cells[i] = cs[i] for i < n, into the table already published.         *)
LaCopy(t) ==
  /\ pc[t] = "la_copy"
  /\ tables' = [tables EXCEPT ![cellsRef] =
                  [i \in DOMAIN @ |-> IF i < l[t].n THEN tables[l[t].cs][i] ELSE @[i]]]
  /\ go(t, "la_expandN")
  /\ UNCHANGED <<base, busy, cellsRef, nCells, cellVal, probe, l, calls>>

(* nCells = n << 1.                                                        *)
LaExpandN(t) ==
  /\ pc[t] = "la_expandN"
  /\ nCells' = 2 * l[t].n
  /\ go(t, "la_expandUnlock")
  /\ UNCHANGED <<base, busy, cellsRef, tables, cellVal, probe, l, calls>>

(* m_cellsBusy = false; collide = false; continue.                         *)
LaExpandUnlock(t) ==
  /\ pc[t] = "la_expandUnlock"
  /\ busy' = FALSE
  /\ Loop(t, [l[t] EXCEPT !.collide = FALSE])
  /\ UNCHANGED <<base, cellsRef, nCells, tables, cellVal, probe, calls>>

(* No table: !m_cellsBusy && m_cells == cs, or else the base.              *)
LaInitTry(t) ==
  /\ pc[t] = "la_initTry"
  /\ go(t, IF ~busy /\ cellsRef = l[t].cs THEN "la_initLock" ELSE "la_loadBase")
  /\ UNCHANGED <<SharedVars, probe, l, calls>>

(* casCellsBusy(), failing to the base; under the lock, m_cells == cs is   *)
(* tested again.                                                           *)
LaInitLock(t) ==
  /\ pc[t] = "la_initLock"
  /\ IF busy
     THEN go(t, "la_loadBase") /\ UNCHANGED busy
     ELSE busy' = TRUE /\ go(t, IF cellsRef = l[t].cs THEN "la_initN" ELSE "la_initUnlock")
  /\ UNCHANGED <<base, cellsRef, nCells, tables, cellVal, probe, l, calls>>

(* rs = new Cell<T>*[2]; nCells = 2; rs[index & 1] = new Cell<T>(x): the   *)
(* table is private to t until it is published.                            *)
LaInitN(t) ==
  /\ pc[t] = "la_initN"
  /\ nCells' = 2
  /\ \E fresh \in FreshTables(2) :
       /\ cellVal' = Append(cellVal, X)
       /\ tables' = Append(tables, [fresh EXCEPT ![lowBits(l[t].index, 2)] = Len(cellVal')])
  /\ setL(t, [l[t] EXCEPT !.rs = Len(tables) + 1])
  /\ go(t, "la_initPublish")
  /\ UNCHANGED <<base, busy, cellsRef, probe, calls>>

(* m_cells = rs; init = true.                                              *)
LaInitPublish(t) ==
  /\ pc[t] = "la_initPublish"
  /\ cellsRef' = l[t].rs
  /\ setL(t, [l[t] EXCEPT !.created = TRUE])
  /\ go(t, "la_initUnlock")
  /\ UNCHANGED <<base, busy, nCells, tables, cellVal, probe, calls>>

(* m_cellsBusy = false; break if init.                                     *)
LaInitUnlock(t) ==
  /\ pc[t] = "la_initUnlock"
  /\ busy' = FALSE
  /\ IF l[t].created THEN Return(t) ELSE Loop(t, l[t]) /\ UNCHANGED calls
  /\ UNCHANGED <<base, cellsRef, nCells, tables, cellVal, probe>>

(* Fall back on the base: casBase(v + x, v = m_base.load()).              *)
LaLoadBase(t) ==
  /\ pc[t] = "la_loadBase"
  /\ setL(t, [l[t] EXCEPT !.v = base])
  /\ go(t, "la_casBase")
  /\ UNCHANGED <<SharedVars, probe, calls>>

LaCasBase(t) ==
  /\ pc[t] = "la_casBase"
  /\ IF base = l[t].v
     THEN base' = base + X /\ Return(t)
     ELSE Loop(t, l[t]) /\ UNCHANGED <<base, calls>>
  /\ UNCHANGED <<busy, cellsRef, nCells, tables, cellVal, probe>>

(***************************************************************************)
(* The specification                                                       *)
(***************************************************************************)
Step(t) ==
  \/ Call(t) \/ AddLoadBase(t) \/ AddCasBase(t)
  \/ AddReadSlot(t) \/ AddLoadCell(t) \/ AddCasCell(t) \/ LaReadCells(t) \/ LaReadN(t) \/ LaReadSlot(t)
  \/ LaAttach(t) \/ LaAttachUnlock(t) \/ LaLoadCell(t) \/ LaCasCell(t)
  \/ LaCollide(t) \/ LaExpandLock(t) \/ LaCopy(t) \/ LaExpandN(t)
  \/ LaExpandUnlock(t) \/ LaInitTry(t) \/ LaInitLock(t) \/ LaInitN(t)
  \/ LaInitPublish(t) \/ LaInitUnlock(t) \/ LaLoadBase(t) \/ LaCasBase(t)

Next == \E t \in Threads : Step(t)

(* Every thread is scheduled again while it has a step to take.            *)
Spec == Init /\ [][Next]_vars /\ \A t \in Threads : WF_vars(Step(t) /\ pc[t] # "idle")

-----------------------------------------------------------------------------
Pcs == {"idle", "wild", "add_loadBase", "add_casBase", "add_slot",
        "add_loadCell", "add_casCell", "la_top", "la_n",
        "la_slot", "la_attach", "la_attachUnlock", "la_loadCell", "la_casCell",
        "la_stale", "la_expand", "la_copy", "la_expandN", "la_expandUnlock",
        "la_initTry", "la_initLock", "la_initN", "la_initPublish",
        "la_initUnlock", "la_loadBase", "la_casBase"}

TypeOK ==
  /\ base \in Nat /\ busy \in BOOLEAN /\ nCells \in 0..2 * MaxCells
  /\ cellsRef \in 0..Len(tables)
  /\ \A a \in DOMAIN tables :
       \E k \in 1..NCPU : DOMAIN tables[a] = 0..2 ^ k - 1
         /\ Range(tables[a]) \subseteq {Null, Stray} \cup DOMAIN cellVal
  /\ cellVal \in Seq(Nat)
  /\ probe \in [Threads -> Probes \cup {NoProbe}]
  /\ pc \in [Threads -> Pcs]
  /\ \A t \in Threads : calls[t] \in 0..MaxAdds[t]

(* The adds that have taken effect: returned, or stored by an attach or an *)
(* init whose thread has not yet released the lock.                        *)
AppliedBy(t) == calls[t] + IF l[t].created THEN 1 ELSE 0

(* Refinement: the adder implements an atomic counter.  count is what a    *)
(* quiescent sum() reads: m_base and every Cell reachable from m_cells (or *)
(* from the table a doubling is copying); an attached or initial Cell      *)
(* takes effect when it is stored.                                         *)
AC == INSTANCE AtomicCounter WITH
        count  <- Counted,
        calls  <- [t \in Threads |-> AppliedBy(t)],
        active <- [t \in Threads |-> pc[t] # "idle" /\ ~l[t].created]
AdderIsCounter == AC!SafeSpec

(* No add is lost or counted twice: m_base and the reachable Cells hold X *)
(* for every add that has taken effect.                                     *)
CountExact == Counted = X * MapThenSumSet(AppliedBy, Threads)

(* No thread dereferences a slot of m_cells that holds no Cell: a slot of  *)
(* new Cell<T>*[n] before it is written, or one past the end of cs when n  *)
(* is read after a doubling.                                               *)
NoWildCell == \A t \in Threads : pc[t] # "wild"
=============================================================================
