---------------------------- MODULE TimingWheel ----------------------------
(***************************************************************************)
(* The hierarchical timing wheel of src/timer: Timer (Timer.cc),           *)
(* TimingWheel (TimingWheel.cc), the bucket lists TimerTaskList            *)
(* (TimerTaskList.cc) and the DelayQueue of buckets (delay_queue/).        *)
(*                                                                         *)
(* Time is counted in ticks of the first wheel (m_tickMs); wheel l has     *)
(* tick WheelSize^l.  Each TimerTask is added once, by its own thread,     *)
(* through Timer::add; its TimerTaskEntry is named by the task.            *)
(*                                                                         *)
(* The buckets of a wheel are made by m_buckets.resize(wheelSize,          *)
(* TimerTaskList()), which copy-constructs every bucket from one           *)
(* temporary; the copy constructor copies the shared_ptrs root, m_mtx and  *)
(* m_setFlag.  So all buckets of a wheel share ONE linked list, one mutex  *)
(* and one flag, and only m_expiration is per bucket.  lists[l] is that    *)
(* shared list; owner[t] is entry->list, the bucket the entry was added    *)
(* through.                                                                *)
(***************************************************************************)
EXTENDS Integers, Sequences, SequencesExt, FiniteSets, Bags, BagsExt

CONSTANTS
  Tasks,       \* the TimerTasks, each added by its own thread
  WheelSize,   \* m_wheelSize
  Levels,      \* bound on the number of wheels: the first and its overflow wheels
  Delays,      \* delays given to addByDelay, in ticks
  MaxTime,     \* bound on the clock, in ticks
  NoThread     \* a model value: the flag is clear

ASSUME WheelSize >= 2 /\ Levels >= 1 /\ Delays \subseteq Nat

(* m_tickMs and m_interval of wheel l. *)
tickMs(l)   == WheelSize ^ l
interval(l) == WheelSize ^ (l + 1)

Buckets == [level : 0..Levels - 1, idx : 0..WheelSize - 1]

(* entry->list == nullptr *)
NoList == [level |-> -1, idx |-> -1]

(* m_timeval() and m_timeval(-1L), which a new and a flushed bucket hold:  *)
(* negative, so different from every expiration setExpiration is given.   *)
NoExpiration == -1

VARIABLES
  now,       \* gettimeofday, in ticks
  cur,       \* m_currentTime of each wheel
  nWheels,   \* the wheels created so far (m_overflowWheel chain)
  lists,     \* the list shared by the buckets of each wheel
  owner,     \* entry->list of each task's entry
  bexp,      \* m_expiration of each bucket
  dq,        \* the DelayQueue: a bag of [b, qexp] offered buckets
  flag,      \* m_setFlag of each wheel: the thread holding it
  readers,   \* threads holding Timer::m_rwMutex shared
  writer,    \* the tick thread holds m_rwMutex
  exp,       \* the expiration each task was added with
  pc,        \* where each adding thread is
  tpc,       \* where the tick thread is
  tb,        \* the bucket the tick thread polled
  fired      \* tasks handed to the thread pool

vars == <<now, cur, nWheels, lists, owner, bexp, dq, flag, readers, writer,
          exp, pc, tpc, tb, fired>>

(***************************************************************************)
(* Operators of TimingWheel.                                               *)
(***************************************************************************)
(* The m_currentTime of every wheel up to Levels - 1, the wheels not yet   *)
(* created taking the value addOverflowWheel would give them: the current  *)
(* time of the wheel below, rounded down by the constructor to its tick.   *)
withOverflow(c, n) ==
  LET f[l \in 0..Levels - 1] ==
        IF l < n THEN c[l] ELSE f[l - 1] - (f[l - 1] % tickMs(l))
  IN f

(* Mutants of placeIn: an entry counted as due while it is still within   *)
(* the wheel's interval; the due test without the tick (expiration <       *)
(* m_currentTime).                                                         *)
RECURSIVE placeInDueWithinInterval(_, _, _)
placeInDueWithinInterval(c, l, e) ==
  IF l = Levels THEN [level |-> Levels, idx |-> 0]
  ELSE IF e < c[l] + interval(l) THEN NoList
  ELSE placeInDueWithinInterval(c, l + 1, e)

RECURSIVE placeInDueStrict(_, _, _)
placeInDueStrict(c, l, e) ==
  IF l = Levels THEN [level |-> Levels, idx |-> 0]
  ELSE IF e < c[l] THEN NoList
  ELSE IF e < c[l] + interval(l)
    THEN [level |-> l, idx |-> (e \div tickMs(l)) % WheelSize]
  ELSE placeInDueStrict(c, l + 1, e)

(* TimingWheel::add on wheel l and, recursively, its overflow wheels: the  *)
(* bucket the entry goes to, NoList when it is due (add returns false),    *)
(* and level Levels when it would need one more wheel than the bound.      *)
RECURSIVE placeIn(_, _, _)
placeIn(c, l, e) ==
  IF l = Levels THEN [level |-> Levels, idx |-> 0]
  ELSE IF e < c[l] + tickMs(l) THEN NoList
  ELSE IF e < c[l] + interval(l)
    THEN [level |-> l, idx |-> (e \div tickMs(l)) % WheelSize]
  ELSE placeIn(c, l + 1, e)

(* Mutant of virtualExpiration: the end of the bucket's interval. *)
virtualExpirationEnd(b, e) == tickMs(b.level) * (e \div tickMs(b.level) + 1)

(* The expiration add gives the bucket: m_tickMs * virtualId. *)
virtualExpiration(b, e) == tickMs(b.level) * (e \div tickMs(b.level))

(* TimingWheel::advanceClock from wheel l up the overflow chain. *)
RECURSIVE advanceClock(_, _, _, _)
advanceClock(c, n, l, timeMs) ==
  IF l < n /\ timeMs >= c[l] + tickMs(l)
    THEN advanceClock([c EXCEPT ![l] = timeMs - (timeMs % tickMs(l))], n, l + 1,
                      timeMs - (timeMs % tickMs(l)))
  ELSE c

(* TimerTaskEntry::remove then TimerTaskList::add: unlink the entry from   *)
(* the list of the bucket it is in and append it to the shared list of     *)
(* bucket b.                                                               *)
unlink(ls, o, t) ==
  IF o = NoList THEN ls ELSE [ls EXCEPT ![o.level] = SelectSeq(@, LAMBDA x : x /= t)]

(* Mutant of link: the entry is appended without leaving its old list. *)
linkNoRemove(ls, o, t, b) == [ls EXCEPT ![b.level] = Append(@, t)]

link(ls, o, t, b) == [unlink(ls, o, t) EXCEPT ![b.level] = Append(@, t)]

(* The offered entry at the top of the std::priority_queue, least qexp.    *)
top(q) == {x \in BagToSet(q) : \A y \in BagToSet(q) : x.qexp <= y.qexp}

(* DelayQueue::poll: the top entry if its expiration is not after now.     *)
pollable(q) == {x \in top(q) : x.qexp <= now}

(***************************************************************************)
(* What TimingWheel::add (from the first wheel) does to the wheels, the     *)
(* lists and the queue when the entry of task t, not due, goes to bucket b, *)
(* the flag of b's wheel being free: bucket.add, the overflow wheels        *)
(* created on the way, setExpiration and the offer when it returned true.  *)
(***************************************************************************)
addToBucket(t, b, c) ==
  /\ lists' = link(lists, owner[t], t, b)
  /\ owner' = [owner EXCEPT ![t] = b]
  /\ cur' = [l \in 0..Levels - 1 |-> IF l <= b.level THEN c[l] ELSE cur[l]]
  /\ nWheels' = IF b.level >= nWheels THEN b.level + 1 ELSE nWheels

(* Mutant of setExpiration: the result compared the wrong way round. *)
setExpirationInverted(b, e) ==
  /\ bexp' = [bexp EXCEPT ![b] = virtualExpiration(b, e)]
  /\ dq' = IF bexp[b] = virtualExpiration(b, e)
             THEN BagAdd(dq, [b |-> b, qexp |-> e]) ELSE dq

setExpiration(b, e) ==
  /\ bexp' = [bexp EXCEPT ![b] = virtualExpiration(b, e)]
  /\ dq' = IF bexp[b] /= virtualExpiration(b, e)
             THEN BagAdd(dq, [b |-> b, qexp |-> e]) ELSE dq

(***************************************************************************)
(* Adding threads: Timer::addByDelay and Timer::add.                       *)
(***************************************************************************)
Init ==
  /\ now = 0
  /\ cur = [l \in 0..Levels - 1 |-> 0]
  /\ nWheels = 1
  /\ lists = [l \in 0..Levels - 1 |-> <<>>]
  /\ owner = [t \in Tasks |-> NoList]
  /\ bexp = [b \in Buckets |-> NoExpiration]
  /\ dq = EmptyBag
  /\ flag = [l \in 0..Levels - 1 |-> NoThread]
  /\ readers = {}
  /\ writer = FALSE
  /\ exp = [t \in Tasks |-> 0]
  /\ pc = [t \in Tasks |-> "idle"]
  /\ tpc = "poll"
  /\ tb = NoList
  /\ fired = {}

(* addByDelay, then add up to bucket.add: take m_rwMutex shared, make the  *)
(* entry, and either run the task at once (TimingWheel::add returned       *)
(* false) or link the entry into its bucket.  The expiration is            *)
(* bounded by MaxTime.                                                     *)
Add(t, d) ==
  /\ pc[t] = "idle"
  /\ ~writer
  /\ now + d <= MaxTime
  /\ LET e == now + d
         c == withOverflow(cur, nWheels)
         b == placeIn(c, 0, e)
     IN /\ b.level < Levels
        /\ exp' = [exp EXCEPT ![t] = e]
        /\ readers' = readers \cup {t}
        /\ IF b = NoList
             THEN /\ fired' = fired \cup {t}
                  /\ pc' = [pc EXCEPT ![t] = "unlock"]
                  /\ UNCHANGED <<cur, nWheels, lists, owner>>
             ELSE /\ addToBucket(t, b, c)
                  /\ pc' = [pc EXCEPT ![t] = "setExpiration"]
                  /\ UNCHANGED fired
  /\ UNCHANGED <<now, bexp, dq, flag, writer, tpc, tb>>

(* setExpiration: m_setFlag->test_and_set().  If another thread holds the  *)
(* flag of the wheel, setExpiration returns false and the bucket is not    *)
(* offered.                                                                *)
TrySetFlag(t) ==
  /\ pc[t] = "setExpiration"
  /\ LET l == owner[t].level
     IN IF flag[l] = NoThread
          THEN /\ flag' = [flag EXCEPT ![l] = t]
               /\ pc' = [pc EXCEPT ![t] = "flagHeld"]
          ELSE /\ pc' = [pc EXCEPT ![t] = "unlock"]
               /\ UNCHANGED flag
  /\ UNCHANGED <<now, cur, nWheels, lists, owner, bexp, dq, readers, writer,
                 exp, tpc, tb, fired>>

(* setExpiration with the flag held: store m_expiration, clear the flag,   *)
(* and offer the bucket with the entry's expiration if it changed.         *)
SetExpiration(t) ==
  /\ pc[t] = "flagHeld"
  /\ setExpiration(owner[t], exp[t])
  /\ flag' = [flag EXCEPT ![owner[t].level] = NoThread]
  /\ pc' = [pc EXCEPT ![t] = "unlock"]
  /\ UNCHANGED <<now, cur, nWheels, lists, owner, readers, writer, exp, tpc,
                 tb, fired>>

(* Timer::add returns: the shared lock is released. *)
Unlock(t) ==
  /\ pc[t] = "unlock"
  /\ readers' = readers \ {t}
  /\ pc' = [pc EXCEPT ![t] = "done"]
  /\ UNCHANGED <<now, cur, nWheels, lists, owner, bexp, dq, flag, writer, exp,
                 tpc, tb, fired>>

(***************************************************************************)
(* The tick thread: Timer::startTick calling Timer::advanceClock.          *)
(***************************************************************************)
(* m_delayQueue->poll() outside the lock returns a due bucket. *)
Poll ==
  /\ tpc = "poll"
  /\ \E q \in pollable(dq) :
       /\ dq' = BagRemove(dq, q)
       /\ tb' = q.b
       /\ tpc' = "lock"
  /\ UNCHANGED <<now, cur, nWheels, lists, owner, bexp, flag, readers, writer,
                 exp, pc, fired>>

(* std::unique_lock on m_rwMutex: waits until no thread is in add. *)
Lock ==
  /\ tpc = "lock"
  /\ readers = {}
  /\ writer' = TRUE
  /\ tpc' = "advance"
  /\ UNCHANGED <<now, cur, nWheels, lists, owner, bexp, dq, flag, readers, exp,
                 pc, tb, fired>>

(* m_timingWheel->advanceClock(bucket->getExpiration()). *)
Advance ==
  /\ tpc = "advance"
  /\ cur' = advanceClock(cur, nWheels, 0, bexp[tb])
  /\ tpc' = "flush"
  /\ UNCHANGED <<now, nWheels, lists, owner, bexp, dq, flag, readers, writer,
                 exp, pc, tb, fired>>

(* One iteration of the loop of TimerTaskList::flush: head = root->next of *)
(* the list shared by the whole wheel; remove(head), which unlinks it only *)
(* if its list is the flushed bucket; then Timer::addTimerTaskEntry(head): *)
(* a due entry is run and deleted, whether it was unlinked or not, and any *)
(* other is added again from the first wheel.                              *)
flushEntry(h, b, c) ==
  IF b = NoList
    THEN /\ fired' = fired \cup {h}
         /\ lists' = IF owner[h] = tb THEN unlink(lists, owner[h], h) ELSE lists
         /\ owner' = IF owner[h] = tb THEN [owner EXCEPT ![h] = NoList] ELSE owner
         /\ UNCHANGED <<cur, nWheels, bexp, dq>>
    ELSE /\ addToBucket(h, b, c)
         /\ IF flag[b.level] = NoThread THEN setExpiration(b, exp[h])
            ELSE UNCHANGED <<bexp, dq>>
         /\ UNCHANGED fired

flushHead(h, c) ==
  /\ placeIn(c, 0, exp[h]).level < Levels
  /\ flushEntry(h, placeIn(c, 0, exp[h]), c)

FlushStep ==
  /\ tpc = "flush"
  /\ lists[tb.level] /= <<>>
  /\ Head(lists[tb.level]) \notin fired
  /\ flushHead(Head(lists[tb.level]), withOverflow(cur, nWheels))
  /\ UNCHANGED <<now, flag, readers, writer, exp, pc, tpc, tb>>

(* root->next is an entry an earlier iteration deleted: the loop reads     *)
(* freed memory.  The behaviour is undefined and the model follows it no   *)
(* further.                                                                *)
FlushFreed ==
  /\ tpc = "flush"
  /\ lists[tb.level] /= <<>>
  /\ Head(lists[tb.level]) \in fired
  /\ tpc' = "undefined"
  /\ UNCHANGED <<now, cur, nWheels, lists, owner, bexp, dq, flag, readers,
                 writer, exp, pc, tb, fired>>

(* The loop of flush ends when the shared list is empty; the bucket's      *)
(* m_expiration is reset to -1 when the flag is free.                      *)
FlushEnd ==
  /\ tpc = "flush"
  /\ lists[tb.level] = <<>>
  /\ bexp' = IF flag[tb.level] = NoThread
               THEN [bexp EXCEPT ![tb] = NoExpiration] ELSE bexp
  /\ tpc' = "repoll"
  /\ UNCHANGED <<now, cur, nWheels, lists, owner, dq, flag, readers, writer,
                 exp, pc, tb, fired>>

(* bucket = m_delayQueue->poll() inside the lock: another due bucket.      *)
Repoll ==
  /\ tpc = "repoll"
  /\ \E q \in pollable(dq) :
       /\ dq' = BagRemove(dq, q)
       /\ tb' = q.b
       /\ tpc' = "advance"
  /\ UNCHANGED <<now, cur, nWheels, lists, owner, bexp, flag, readers, writer,
                 exp, pc, fired>>

(* No due bucket is left: advanceClock returns and unlocks m_rwMutex.      *)
Release ==
  /\ tpc = "repoll"
  /\ pollable(dq) = {}
  /\ writer' = FALSE
  /\ tpc' = "poll"
  /\ tb' = NoList
  /\ UNCHANGED <<now, cur, nWheels, lists, owner, bexp, dq, flag, readers, exp,
                 pc, fired>>

(* The clock advances one tick, up to the bound MaxTime. *)
Tick ==
  /\ now < MaxTime
  /\ now' = now + 1
  /\ UNCHANGED <<cur, nWheels, lists, owner, bexp, dq, flag, readers, writer,
                 exp, pc, tpc, tb, fired>>

TickThread == Poll \/ Lock \/ Advance \/ FlushStep \/ FlushFreed \/ FlushEnd \/ Repoll \/ Release

Next ==
  \/ \E t \in Tasks, d \in Delays : Add(t, d)
  \/ \E t \in Tasks : TrySetFlag(t) \/ SetExpiration(t) \/ Unlock(t)
  \/ TickThread
  \/ Tick

(* The tick thread loops while the timer runs and every thread that called *)
(* add returns from it; the clock keeps going.  Adding a task is a choice  *)
(* of the caller and is not fair.                                          *)
Fairness ==
  /\ WF_vars(TickThread)
  /\ \A t \in Tasks : WF_vars(TrySetFlag(t) \/ SetExpiration(t) \/ Unlock(t))
  /\ WF_vars(Tick)

Spec == Init /\ [][Next]_vars /\ Fairness

(***************************************************************************)
(* Properties.                                                             *)
(***************************************************************************)
Linked(t) == owner[t] /= NoList

TypeOK ==
  /\ now \in 0..MaxTime
  /\ cur \in [0..Levels - 1 -> 0..MaxTime]
  /\ nWheels \in 1..Levels
  /\ lists \in [0..Levels - 1 -> Seq(Tasks)]
  /\ owner \in [Tasks -> Buckets \cup {NoList}]
  /\ bexp \in [Buckets -> {NoExpiration} \cup 0..MaxTime]
  /\ BagToSet(dq) \subseteq [b : Buckets, qexp : 0..MaxTime]
  /\ flag \in [0..Levels - 1 -> Tasks \cup {NoThread}]
  /\ readers \subseteq Tasks
  /\ writer \in BOOLEAN
  /\ pc \in [Tasks -> {"idle", "setExpiration", "flagHeld", "unlock", "done"}]
  /\ tpc \in {"poll", "lock", "advance", "flush", "repoll", "undefined"}
  /\ fired \subseteq Tasks

(* Each entry is linked at most once, into the shared list of the wheel of *)
(* the bucket its list pointer names, and an entry whose list is nullptr   *)
(* is in no list: TimerTaskList::add, remove and TimerTaskEntry::remove    *)
(* keep the links and the list pointer together.                           *)
LinksMatchOwners ==
  \A l \in 0..Levels - 1 :
    /\ IsInjective(lists[l])
    /\ \A t \in Tasks : t \in ToSet(lists[l]) <=> owner[t].level = l

(* An entry run by Timer::addTimerTaskEntry is deleted: no list may still  *)
(* link a task that was handed to the thread pool.                         *)
NoDanglingEntry ==
  \A l \in 0..Levels - 1 : ToSet(lists[l]) \cap fired = {}

(* A task is handed to the thread pool only once the clock has reached     *)
(* its expiration (TimingWheel::add returns false only for due entries,    *)
(* and the delay queue releases a bucket only when it is due).             *)
NoEarlyFire ==
  [][\A t \in Tasks : t \notin fired /\ t \in fired' => exp'[t] <= now]_vars

(* Settled: the thread that linked t has finished setExpiration. *)
Settled(t) == Linked(t) /\ pc[t] \notin {"setExpiration", "flagHeld"}

(* Being handled: the tick thread polled t's bucket and has not flushed it. *)
Handling(b) == tb = b /\ tpc \in {"lock", "advance", "flush"}

(* Every bucket holding an entry is in the delay queue or being flushed,   *)
(* so some advanceClock will reach it (the comment at TimingWheel.cc:48:   *)
(* setExpiration decides only whether the bucket is already queued).       *)
BucketQueued ==
  \A t \in Tasks :
    Settled(t) => Handling(owner[t]) \/ \E q \in BagToSet(dq) : q.b = owner[t]

(* A queued bucket is due no later than any entry it holds: the queue      *)
(* releases it when its earliest entry expires.                            *)
QueuedOnTime ==
  \A t \in Tasks :
    (Settled(t) /\ \E q \in BagToSet(dq) : q.b = owner[t])
      => \E q \in BagToSet(dq) : q.b = owner[t] /\ q.qexp <= exp[t]

(* Every task added is eventually handed to the thread pool. *)
EveryTaskFires == \A t \in Tasks : pc[t] /= "idle" ~> t \in fired

(* TimerTaskList::flush returns: the tick thread leaves the loop. *)
FlushEnds == tpc = "flush" ~> tpc /= "flush"
====
