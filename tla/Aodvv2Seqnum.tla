---------------------------- MODULE Aodvv2Seqnum ----------------------------
(***************************************************************************)
(* The router's own sequence number (aodvv2_seqnum.c): one atomic counter, *)
(* read and then incremented by every thread that originates a message:    *)
(* the IPv6 thread (aodvv2_find_route from the route-info callback), the   *)
(* AODVv2 thread (the RREP writer) and the shell thread (find_route and    *)
(* seqnum_get).  Each C11 atomic operation is one step; "get" and "inc"    *)
(* are separate calls, and "inc" is a fetch-and-add followed, at the wrap, *)
(* by a separate store.                                                    *)
(*                                                                         *)
(* RIOT schedules by fixed priority: a thread only runs while no thread of *)
(* a smaller priority number has work to do.                               *)
(***************************************************************************)
EXTENDS Aodvv2SeqnumOps, FiniteSets

CONSTANTS Threads,    \* the threads that use the counter
          Prio,       \* Prio[t]: RIOT priority, a smaller number preempts
          Reporters   \* the threads that read the number back after inc (shell)

ASSUME ThreadsAssumption ==
    /\ IsFiniteSet(Threads)
    /\ Prio \in [Threads -> Nat]
    /\ Reporters \subseteq Threads

VARIABLES seqnum,     \* the atomic counter, an uint_fast32_t
          pc,         \* where each thread is
          old         \* old[t]: the number t obtained, the one it will send

vars == <<seqnum, pc, old>>

PC == {"idle", "inc", "store", "report"}

Runnable(t) == \A u \in Threads : Prio[u] < Prio[t] => pc[u] = "idle"

\* The threads that have seen the counter reach SeqMax and still have to
\* store 1 into it.
Wrapping == {t \in Threads : pc[t] = "store"}

Init ==
    /\ seqnum = 1
    /\ pc = [t \in Threads |-> "idle"]
    /\ old = [t \in Threads |-> 0]

\* What a thread does once aodvv2_seqnum_inc returns.
AfterInc(t) == IF t \in Reporters THEN "report" ELSE "idle"

\* aodvv2_seqnum_get at the start of an origination.
Get(t) ==
    /\ pc[t] = "idle"
    /\ Runnable(t)
    /\ old' = [old EXCEPT ![t] = ToSeqNum(seqnum)]
    /\ pc' = [pc EXCEPT ![t] = "inc"]
    /\ UNCHANGED seqnum

\* Variant: the wrap is tested with > instead of >=.
FetchAddLateWrap(t) ==
    /\ pc[t] = "inc"
    /\ Runnable(t)
    /\ seqnum' = seqnum + 1
    /\ pc' = [pc EXCEPT ![t] = IF seqnum > SeqMax THEN "store" ELSE AfterInc(t)]
    /\ UNCHANGED old

\* aodvv2_seqnum_inc: atomic_fetch_add and the test of the value it returns.
FetchAdd(t) ==
    /\ pc[t] = "inc"
    /\ Runnable(t)
    /\ seqnum' = seqnum + 1
    /\ pc' = [pc EXCEPT ![t] = IF seqnum >= SeqMax THEN "store" ELSE AfterInc(t)]
    /\ UNCHANGED old

\* aodvv2_seqnum_inc: the atomic_store(&seqnum, 1) of the wrap.
StoreOne(t) ==
    /\ pc[t] = "store"
    /\ Runnable(t)
    /\ seqnum' = 1
    /\ pc' = [pc EXCEPT ![t] = AfterInc(t)]
    /\ UNCHANGED old

\* seqnum_get_cmd reads the number a second time.
Report(t) ==
    /\ pc[t] = "report"
    /\ Runnable(t)
    /\ old' = [old EXCEPT ![t] = ToSeqNum(seqnum)]
    /\ pc' = [pc EXCEPT ![t] = "idle"]
    /\ UNCHANGED seqnum

Continue(t) == FetchAdd(t) \/ StoreOne(t) \/ Report(t)

Next == \E t \in Threads : Get(t) \/ Continue(t)

\* A thread that has started a call runs on: RIOT dispatches the runnable
\* thread of the highest priority.  Nothing forces a new origination.
Fairness == \A t \in Threads : WF_vars(Continue(t))

Spec == Init /\ [][Next]_vars /\ Fairness

-----------------------------------------------------------------------------
TypeOK ==
    /\ seqnum \in Nat \ {0}
    /\ pc \in [Threads -> PC]
    /\ old \in [Threads -> SeqNum]

(* The counter leaves the 16-bit range only while a wrap is under way: it   *)
(* exceeds SeqMax by no more than the number of threads that have passed    *)
(* the test of aodvv2_seqnum_inc and not yet stored 1.  So it never gets    *)
(* anywhere near the end of uint_fast32_t, whatever the preemptions.        *)
OverflowBounded == seqnum > SeqMax => seqnum - SeqMax <= Cardinality(Wrapping)

(* 0, the number the message reader of every neighbour treats as "missing", *)
(* is handed out only to a thread that preempted another one between its    *)
(* fetch-and-add and its store.                                             *)
ZeroOnlyDuringWrap ==
    [][\A t \in Threads :
          (old'[t] = 0 /\ old[t] # 0) => \E u \in Threads : u # t /\ pc[u] = "store"]_vars

(* A counter pushed past the 16-bit range always comes back: the thread     *)
(* that has to store 1, or one that preempted it, does so.                  *)
OverflowRepaired == (seqnum > SeqMax) ~> (seqnum <= SeqMax)
=============================================================================
