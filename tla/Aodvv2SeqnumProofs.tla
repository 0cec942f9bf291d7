------------------------- MODULE Aodvv2SeqnumProofs -------------------------
(***************************************************************************)
(* Proofs about the sequence number, for every number of threads, every    *)
(* assignment of priorities and every width of the counter.                *)
(***************************************************************************)
EXTENDS Aodvv2Seqnum, FiniteSetTheorems, TLAPS

(* Narrowing to aodvv2_seqnum_t yields a 16-bit value, and yields 0 for no  *)
(* counter value in 1..SeqMax.                                              *)
LEMMA ToSeqNumRange ==
    ASSUME NEW n \in Nat
    PROVE  /\ ToSeqNum(n) \in SeqNum
           /\ (n # 0 /\ ToSeqNum(n) = 0) => n > SeqMax
  BY SeqMaxAssumption DEF ToSeqNum, SeqNum, SeqNumMod

(* The set of wrapping threads is finite, and a thread that joins it makes  *)
(* it larger by one.                                                        *)
LEMMA WrappingFinite ==
    /\ IsFiniteSet(Wrapping)
    /\ Cardinality(Wrapping) \in Nat
    /\ Wrapping # {} <=> Cardinality(Wrapping) > 0
  <1>1. IsFiniteSet(Wrapping)
    BY ThreadsAssumption, FS_Subset DEF Wrapping
  <1>2. Cardinality(Wrapping) \in Nat
    BY <1>1, FS_CardinalityType
  <1>3. Wrapping # {} <=> Cardinality(Wrapping) > 0
    BY <1>1, <1>2, FS_EmptySet, SMT
  <1> QED BY <1>1, <1>2, <1>3

(* The counter is never zero, each thread holds a 16-bit number, and the    *)
(* program counters stay in range: TypeOK is inductive by itself.           *)
THEOREM TypeCorrect == Spec => []TypeOK
  <1>1. Init => TypeOK
    BY SeqMaxAssumption DEF Init, TypeOK, PC, SeqNum
  <1>2. TypeOK /\ [Next]_vars => TypeOK'
    <2> SUFFICES ASSUME TypeOK, [Next]_vars PROVE TypeOK'
      OBVIOUS
    <2> USE DEF TypeOK
    <2>1. ASSUME NEW t \in Threads, Get(t) PROVE TypeOK'
      <3>1. ToSeqNum(seqnum) \in SeqNum
        BY ToSeqNumRange
      <3> QED BY <2>1, <3>1 DEF Get, PC
    <2>2. ASSUME NEW t \in Threads, FetchAdd(t) PROVE TypeOK'
      BY <2>2 DEF FetchAdd, AfterInc, PC
    <2>3. ASSUME NEW t \in Threads, StoreOne(t) PROVE TypeOK'
      BY <2>3 DEF StoreOne, AfterInc, PC
    <2>4. ASSUME NEW t \in Threads, Report(t) PROVE TypeOK'
      <3>1. ToSeqNum(seqnum) \in SeqNum
        BY ToSeqNumRange
      <3> QED BY <2>4, <3>1 DEF Report, PC
    <2>5. CASE UNCHANGED vars
      BY <2>5 DEF vars
    <2> QED BY <2>1, <2>2, <2>3, <2>4, <2>5 DEF Next, Continue
  <1> QED BY <1>1, <1>2, PTL DEF Spec

(* A step keeps the overflow within the number of wrapping threads.         *)
LEMMA OverflowStep == TypeOK /\ OverflowBounded /\ [Next]_vars => OverflowBounded'
  <1> SUFFICES ASSUME TypeOK, OverflowBounded, [Next]_vars PROVE OverflowBounded'
    OBVIOUS
  <1> USE SeqMaxAssumption DEF TypeOK
  <1>1. ASSUME NEW t \in Threads, Get(t) PROVE OverflowBounded'
    <2>1. Wrapping' = Wrapping
      BY <1>1 DEF Get, Wrapping
    <2> QED BY <1>1, <2>1 DEF Get, OverflowBounded
  <1>2. ASSUME NEW t \in Threads, FetchAdd(t) PROVE OverflowBounded'
    <2>1. CASE seqnum < SeqMax
      BY <1>2, <2>1 DEF FetchAdd, OverflowBounded
    <2>2. CASE seqnum >= SeqMax
      <3>1. Wrapping' = Wrapping \union {t}
        BY <1>2, <2>2 DEF FetchAdd, Wrapping
      <3>2. t \notin Wrapping
        BY <1>2 DEF FetchAdd, Wrapping
      <3>3. Cardinality(Wrapping') = Cardinality(Wrapping) + 1
        BY <3>1, <3>2, WrappingFinite, FS_AddElement
      <3> QED BY <1>2, <2>2, <3>3, WrappingFinite DEF FetchAdd, OverflowBounded
    <2> QED BY <2>1, <2>2
  <1>3. ASSUME NEW t \in Threads, StoreOne(t) PROVE OverflowBounded'
    BY <1>3 DEF StoreOne, OverflowBounded
  <1>4. ASSUME NEW t \in Threads, Report(t) PROVE OverflowBounded'
    <2>1. Wrapping' = Wrapping
      BY <1>4 DEF Report, Wrapping
    <2> QED BY <1>4, <2>1 DEF Report, OverflowBounded
  <1>5. CASE UNCHANGED vars
    <2>1. Wrapping' = Wrapping
      BY <1>5 DEF vars, Wrapping
    <2> QED BY <1>5, <2>1 DEF vars, OverflowBounded
  <1> QED BY <1>1, <1>2, <1>3, <1>4, <1>5 DEF Next, Continue

(* The counter passes the 16-bit range by at most one for every thread that *)
(* is between the fetch-and-add and the store of aodvv2_seqnum_inc.         *)
THEOREM OverflowIsBounded == Spec => []OverflowBounded
  <1>1. Init => OverflowBounded
    BY SeqMaxAssumption DEF Init, OverflowBounded
  <1> QED BY <1>1, OverflowStep, TypeCorrect, PTL DEF Spec

(* A thread obtains the reserved number 0 only by preempting another one    *)
(* inside the wrap of aodvv2_seqnum_inc.                                    *)
THEOREM ZeroIsRare == Spec => ZeroOnlyDuringWrap
  <1> DEFINE ZeroStep ==
        \A t \in Threads :
          (old'[t] = 0 /\ old[t] # 0) => \E u \in Threads : u # t /\ pc[u] = "store"
  <1>1. TypeOK /\ OverflowBounded /\ [Next]_vars => [ZeroStep]_vars
    <2> SUFFICES ASSUME TypeOK, OverflowBounded, Next,
                        NEW t \in Threads, old'[t] = 0, old[t] # 0
                 PROVE  \E u \in Threads : u # t /\ pc[u] = "store"
      OBVIOUS
    <2>1. PICK s \in Threads : Get(s) \/ Continue(s)
      BY DEF Next
    <2>2. /\ pc[t] # "store"
          /\ old'[t] = ToSeqNum(seqnum)
      BY <2>1 DEF TypeOK, Get, Continue, FetchAdd, StoreOne, Report
    <2>3. seqnum > SeqMax
      BY <2>2, ToSeqNumRange DEF TypeOK
    <2>4. Wrapping # {}
      BY <2>3, WrappingFinite, SeqMaxAssumption DEF TypeOK, OverflowBounded
    <2> QED BY <2>2, <2>4 DEF Wrapping
  <1> QED BY <1>1, TypeCorrect, OverflowIsBounded, PTL DEF Spec, ZeroOnlyDuringWrap
=============================================================================
