---------------------------- MODULE AtomicCounter ----------------------------
(***************************************************************************)
(* What a statistics counter of PoolArena promises its callers: each call  *)
(* of add(x) by a thread takes effect once, at one instant between its     *)
(* call and its return, and every call returns.  LongAdder.tla is shown to *)
(* implement it.                                                           *)
(***************************************************************************)
EXTENDS Naturals

(* Threads: the adding threads; X: the amount each add adds; MaxAdds[t]:  *)
(* the number of adds thread t makes.                                      *)
CONSTANTS Threads, X, MaxAdds

VARIABLES count, calls, active

vars == <<count, calls, active>>

Init ==
  /\ count = 0
  /\ calls = [t \in Threads |-> 0]
  /\ active = [t \in Threads |-> FALSE]

(* Thread t calls add(X).                                                  *)
Call(t) ==
  /\ ~active[t] /\ calls[t] < MaxAdds[t]
  /\ active' = [active EXCEPT ![t] = TRUE]
  /\ UNCHANGED <<count, calls>>

(* The call takes effect and returns.                                      *)
Add(t) ==
  /\ active[t]
  /\ count' = count + X
  /\ calls' = [calls EXCEPT ![t] = @ + 1]
  /\ active' = [active EXCEPT ![t] = FALSE]

Next == \E t \in Threads : Call(t) \/ Add(t)

(* The counter's safety: only the steps above.                            *)
SafeSpec == Init /\ [][Next]_vars

(* Making a call is the caller's choice; a call once made returns.         *)
Spec == Init /\ [][Next]_vars /\ \A t \in Threads : WF_vars(Add(t))
=============================================================================
