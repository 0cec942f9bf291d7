----------------------------- MODULE VainaProofs -----------------------------
(***************************************************************************)
(* Proofs about VAINA, for every address length, every set of addresses    *)
(* and prefix lengths, every size of the router's tables and every number  *)
(* of requests and restarts.                                               *)
(***************************************************************************)
EXTENDS Vaina, FiniteSetTheorems, TLAPS

(* What appending to a queue does to its elements.                          *)
LEMMA AppendElements ==
    ASSUME NEW S, NEW q \in Seq(S), NEW x \in S
    PROVE  /\ Append(q, x) \in Seq(S) /\ Len(Append(q, x)) = Len(q) + 1
           /\ \A i \in 1..Len(q) : Append(q, x)[i] = q[i]
           /\ Append(q, x)[Len(q) + 1] = x
           /\ {Append(q, x)[i] : i \in 1..Len(Append(q, x))} = {q[i] : i \in 1..Len(q)} \union {x}
  <1>1. /\ Append(q, x) \in Seq(S) /\ Len(Append(q, x)) = Len(q) + 1 /\ Len(q) \in Nat
        /\ \A i \in 1..Len(q) : Append(q, x)[i] = q[i]
        /\ Append(q, x)[Len(q) + 1] = x
    OBVIOUS
  <1>2. 1..Len(Append(q, x)) = 1..Len(q) \union {Len(q) + 1}
    BY <1>1
  <1>3. Len(q) + 1 \in 1..Len(Append(q, x))
    BY <1>1
  <1> QED BY <1>1, <1>2, <1>3

(* The same for taking the head of a queue.                                 *)
LEMMA TailElements ==
    ASSUME NEW S, NEW q \in Seq(S), q # <<>>
    PROVE  /\ Tail(q) \in Seq(S) /\ Len(Tail(q)) = Len(q) - 1
           /\ 1 \in 1..Len(q) /\ Head(q) = q[1]
           /\ Head(q) \in {q[i] : i \in 1..Len(q)}
           /\ \A i \in 1..Len(Tail(q)) : i + 1 \in 2..Len(q) /\ Tail(q)[i] = q[i + 1]
           /\ {Tail(q)[i] : i \in 1..Len(Tail(q))} \subseteq {q[i] : i \in 1..Len(q)}
  <1>1. /\ Tail(q) \in Seq(S) /\ Len(Tail(q)) = Len(q) - 1 /\ Len(q) \in Nat
        /\ 1 \in 1..Len(q) /\ Head(q) = q[1]
        /\ \A i \in 1..Len(Tail(q)) : i + 1 \in 2..Len(q) /\ Tail(q)[i] = q[i + 1]
    OBVIOUS
  <1>2. \A i \in 1..Len(Tail(q)) : i + 1 \in 1..Len(q) /\ Tail(q)[i] = q[i + 1]
    BY <1>1
  <1> QED BY <1>1, <1>2

(* The requests the router has not read yet, as they are or will be on the  *)
(* line, and the answers that have not arrived.                             *)
Unserved == {up[i] : i \in 1..Len(up)} \union
            (IF shell = Idle THEN {} ELSE {Serialized(shell.msg)})
Answers == {down[i] : i \in 1..Len(down)}

Names(m, e) == Parses(m) /\ Named(m) = e

(* Whose threads run, and what they have counted: _pending_acks covers what *)
(* is on the line, and so does the value read before the store.             *)
Counted ==
    LET onLine == Len(up) + Len(down)
    IN  /\ peer = "tool" => shell = Idle
        /\ pending <= asked
        /\ shell.at = "read" => shell.acks < asked
        /\ peer = "wifi" =>
             /\ pending >= onLine
             /\ shell.at = "read" => shell.acks >= onLine
             /\ shell.at = "counted" => pending >= onLine + 1

(* Requests are read in the order they were made, and answered before the   *)
(* next is read.                                                            *)
InOrder ==
    /\ \A m \in Unserved : m.n <= asked
    /\ \A a \in Answers : a.n <= asked
    /\ \A i, j \in 1..Len(up) : i < j => up[i].n < up[j].n
    /\ shell # Idle => \A i \in 1..Len(up) : up[i].n < shell.msg.n
    /\ \A a \in Answers, m \in Unserved : a.n < m.n

(* No request on its way is younger than the last one that named its entry. *)
Recent == \A m \in Unserved : Parses(m) /\ last[Named(m)] # 0 => m.n <= last[Named(m)]

(* An ACK of the last request about an entry says what the table holds.     *)
AnswersTrue == \A a \in Answers :
    last[a.about] = a.n /\ a.type = "ACK" => (a.about \in table <=> a.adds)

(* What is known about an entry is so, and nothing on its way changes it.   *)
Settled == \A e \in Entry : known[e] # "unknown" =>
    /\ \A m \in Unserved : ~Names(m, e)
    /\ known[e] = "present" <=> e \in table

IInv == /\ TypeOK /\ IsFiniteSet(table)
        /\ Counted /\ InOrder /\ Recent /\ AnswersTrue /\ Settled
-----------------------------------------------------------------------------
(* _parse_msg takes exactly the requests that carry a prefix length, and    *)
(* those name an entry.                                                     *)
LEMMA ParsedNames ==
    ASSUME NEW m \in Request
    PROVE  /\ Parses(m) <=> m.pfx # NoPfx
           /\ Parses(m) => Named(m) \in Entry
  <1>1. Parses(m) <=> m.pfx # NoPfx
    BY VainaAssumption DEF Parses, Size
  <1>2. m.pfx # NoPfx => m.pfx \in PfxLens /\ m.ip \in Ips
    BY DEF Request
  <1> QED BY <1>1, <1>2 DEF Named, Entry

(* Leaving out the prefix length makes a request.                           *)
LEMMA SerializedType ==
    ASSUME NEW m \in Request
    PROVE  Serialized(m) \in Request /\ Serialized(m).n = m.n
  BY DEF Serialized, Request

(* The shell thread's states.                                               *)
LEMMA ShellCases ==
    ASSUME TypeOK
    PROVE  \/ shell = Idle /\ shell.at = "idle"
           \/ /\ shell # Idle /\ shell.at = "read"
              /\ shell.msg \in Request /\ shell.acks \in 0..MaxRequests
           \/ shell # Idle /\ shell.at = "counted" /\ shell.msg \in Request
  BY DEF TypeOK, ShellState, Idle

(* What is on its way to the router is a request.                           *)
LEMMA UnservedType ==
    ASSUME TypeOK
    PROVE  Unserved \subseteq Request /\ Answers \subseteq Answer
  <1>1. shell # Idle => Serialized(shell.msg) \in Request
    BY ShellCases, SerializedType
  <1>2. (\A i \in 1..Len(up) : up[i] \in Request) /\ (\A i \in 1..Len(down) : down[i] \in Answer)
    BY DEF TypeOK
  <1> QED BY <1>1, <1>2 DEF Unserved, Answers

(* The initial states satisfy the invariant.                                *)
LEMMA InitIInv == Init => IInv
  <1> SUFFICES ASSUME Init PROVE IInv
    OBVIOUS
  <1>1. Unserved = {} /\ Answers = {} /\ shell.at = "idle"
    BY DEF Init, Unserved, Answers, Idle
  <1>2. IsFiniteSet(table) /\ \A tab \in {"rcs", "nib"} : Cardinality(In(tab)) <= Room(tab)
    <2>1. table = {} /\ \A tab \in {"rcs", "nib"} : In(tab) = {}
      BY DEF Init, In
    <2>2. IsFiniteSet({}) /\ Cardinality({}) = 0
      BY FS_EmptySet, Zenon
    <2>3. \A tab \in {"rcs", "nib"} : Room(tab) \in Nat
      BY VainaAssumption DEF Room
    <2> QED BY <2>1, <2>2, <2>3
  <1>3. TypeOK
    BY <1>2, VainaAssumption DEF Init, TypeOK, ShellState, Idle
  <1>4. Counted /\ InOrder
    BY <1>1 DEF Init, Counted, InOrder
  <1> QED BY <1>1, <1>2, <1>3, <1>4 DEF IInv, Recent, AnswersTrue, Settled, Init

(* Taking requests and answers off the line, with nothing else happening,   *)
(* leaves what is said about entries as it is.                              *)
LEMMA FewerOnTheLine ==
    ASSUME IInv, Unserved' \subseteq Unserved, Answers' \subseteq Answers,
           UNCHANGED <<table, last, known>>
    PROVE  Recent' /\ AnswersTrue' /\ Settled'
  <1>1. Recent'
    BY DEF IInv, Recent, Parses, Size, Named, NoPfx
  <1>2. AnswersTrue'
    BY DEF IInv, AnswersTrue
  <1>3. Settled'
    BY DEF IInv, Settled, Names, Parses, Size
  <1> QED BY <1>1, <1>2, <1>3
(* A request is made: it is younger than everything on the line, and what   *)
(* was known about its entry is in doubt.                                   *)
LEMMA DoubtStep ==
    ASSUME IInv, NEW m \in Request, m.n = asked + 1, Doubt(m),
           Unserved' = Unserved \union {m}, Answers' = Answers, UNCHANGED table
    PROVE  /\ asked' = asked + 1 /\ last' \in [Entry -> 0..MaxRequests]
           /\ known' \in [Entry -> {"unknown", "present", "absent"}]
           /\ \A u \in Unserved' : u.n <= asked'
           /\ \A a \in Answers' : a.n <= asked'
           /\ \A a \in Answers', u \in Unserved' : a.n < u.n
           /\ Recent' /\ AnswersTrue' /\ Settled'
  <1>0. TypeOK /\ InOrder /\ Recent /\ AnswersTrue /\ Settled
    BY DEF IInv
  <1>1. /\ asked \in Nat
        /\ \A u \in Unserved : u \in Request /\ u.n \in Nat /\ u.n <= asked
        /\ \A a \in Answers : a \in Answer /\ a.about \in Entry /\ a.n \in Nat /\ a.n <= asked
    BY <1>0, UnservedType DEF TypeOK, InOrder, Request, Answer
  <1>2. /\ asked' = asked + 1
        /\ ~Parses(m) => UNCHANGED <<last, known>>
        /\ Parses(m) => /\ Named(m) \in Entry
                        /\ last' = [last EXCEPT ![Named(m)] = m.n]
                        /\ known' = [known EXCEPT ![Named(m)] = "unknown"]
    BY ParsedNames DEF Doubt
  <1>3. /\ last' \in [Entry -> 0..MaxRequests]
        /\ known' \in [Entry -> {"unknown", "present", "absent"}]
    <2>1. m.n \in 0..MaxRequests
      BY VainaAssumption DEF Request
    <2> QED BY <1>0, <1>2, <2>1 DEF TypeOK
  <1>4. /\ \A u \in Unserved' : u.n <= asked'
        /\ \A a \in Answers' : a.n <= asked'
        /\ \A a \in Answers', u \in Unserved' : a.n < u.n
    BY <1>0, <1>1, <1>2 DEF InOrder
  <1>5. \A e \in Entry : IF Names(m, e) THEN last'[e] = asked + 1 /\ known'[e] = "unknown"
                                        ELSE last'[e] = last[e] /\ known'[e] = known[e]
    BY <1>0, <1>2 DEF TypeOK, Names
  <1>6. Recent'
    <2> SUFFICES ASSUME NEW u \in Unserved', Parses(u), last'[Named(u)] # 0
                 PROVE  u.n <= last'[Named(u)]
      BY DEF Recent, Parses, Size, Named, NoPfx
    <2>1. u \in Request /\ Named(u) \in Entry
      BY <1>1, ParsedNames
    <2>2. CASE Names(m, Named(u))
      BY <1>1, <1>2, <1>4, <1>5, <2>1, <2>2
    <2>3. CASE ~Names(m, Named(u))
      <3>1. u \in Unserved
        BY <2>3 DEF Names
      <3> QED BY <1>0, <1>5, <2>1, <2>3, <3>1 DEF Recent
    <2> QED BY <2>2, <2>3
  <1>7. AnswersTrue'
    <2> SUFFICES ASSUME NEW a \in Answers, last'[a.about] = a.n, a.type = "ACK"
                 PROVE  a.about \in table <=> a.adds
      BY DEF AnswersTrue
    <2>1. last'[a.about] = last[a.about]
      BY <1>1, <1>5
    <2> QED BY <1>0, <2>1 DEF AnswersTrue
  <1>8. Settled'
    <2> SUFFICES ASSUME NEW e \in Entry, known'[e] # "unknown"
                 PROVE  /\ \A u \in Unserved' : ~Names(u, e)
                        /\ known'[e] = "present" <=> e \in table
      BY DEF Settled, Names, Parses, Size, Named
    <2>1. ~Names(m, e) /\ known'[e] = known[e]
      BY <1>5
    <2> QED BY <1>0, <2>1 DEF Settled
  <1> QED BY <1>2, <1>3, <1>4, <1>6, <1>7, <1>8

(* The Wi-Fi board makes a request.                                         *)
LEMMA CraftStep ==
    ASSUME IInv, NEW type \in Types, NEW ip \in Ips, NEW pfx \in PfxLens, Craft(type, ip, pfx)
    PROVE  IInv'
  <1> DEFINE m == [type |-> type, seqno |-> NextSeqno, ip |-> ip, pfx |-> pfx, n |-> asked + 1]
  <1>0. TypeOK /\ Counted /\ InOrder /\ IsFiniteSet(table)
    BY DEF IInv
  <1>1. /\ peer = "wifi" /\ shell = Idle /\ asked < MaxRequests
        /\ seqno' = NextSeqno
        /\ shell' = [at |-> "read", msg |-> m, acks |-> pending]
        /\ Doubt(Serialized(m))
        /\ UNCHANGED <<peer, pending, up, down, table, restarts>>
    BY DEF Craft
  <1>2. asked \in Nat /\ pending \in Nat /\ asked + 1 \in 1..MaxRequests
    BY <1>0, <1>1, VainaAssumption DEF TypeOK
  <1>3. NextSeqno \in 0..SeqLimit - 1
    BY <1>0, VainaAssumption DEF NextSeqno, TypeOK
  <1>4. m \in Request
    BY <1>2, <1>3, VainaAssumption DEF Request
  <1>5. Serialized(m) \in Request /\ Serialized(m).n = asked + 1
    BY <1>4, SerializedType
  <1> HIDE DEF m
  <1>6. shell' # Idle /\ shell'.msg = m /\ shell'.at = "read" /\ shell'.acks = pending
    BY <1>1 DEF Idle
  <1>7. Unserved' = Unserved \union {Serialized(m)}
    BY <1>1, <1>6 DEF Unserved, Serialized
  <1>8. Answers' = Answers
    BY <1>1 DEF Answers
  <1>9. /\ asked' = asked + 1 /\ last' \in [Entry -> 0..MaxRequests]
        /\ known' \in [Entry -> {"unknown", "present", "absent"}]
        /\ \A u \in Unserved' : u.n <= asked'
        /\ \A a \in Answers' : a.n <= asked'
        /\ \A a \in Answers', u \in Unserved' : a.n < u.n
        /\ Recent' /\ AnswersTrue' /\ Settled'
    BY <1>1, <1>5, <1>7, <1>8, DoubtStep
  <1>10. TypeOK'
    <2>1. shell' \in ShellState
      BY <1>0, <1>1, <1>4 DEF ShellState, TypeOK
    <2> QED BY <1>0, <1>1, <1>2, <1>3, <1>9, <2>1 DEF TypeOK, In
  <1>11. Counted'
    BY <1>0, <1>1, <1>2, <1>6, <1>9 DEF Counted
  <1>12. InOrder'
    <2>1. \A i \in 1..Len(up) : up[i] \in Unserved
      BY DEF Unserved
    <2>2. \A i \in 1..Len(up) : up[i].n \in Nat /\ up[i].n <= asked
      BY <1>0, <2>1, UnservedType DEF InOrder, Request
    <2>3. shell'.msg.n = asked + 1
      BY <1>6 DEF m
    <2> QED BY <1>0, <1>1, <1>2, <1>9, <2>2, <2>3 DEF InOrder
  <1> QED BY <1>0, <1>1, <1>9, <1>10, <1>11, <1>12 DEF IInv

(* So does the command-line tool.                                           *)
LEMMA ToolStep ==
    ASSUME IInv, NEW type \in Types, NEW ip \in Ips, NEW pfx \in PfxLens, ToolSend(type, ip, pfx)
    PROVE  IInv'
  <1> DEFINE m == [type |-> type, seqno |-> 0, ip |-> ip, pfx |-> pfx, n |-> asked + 1]
  <1>0. TypeOK /\ Counted /\ InOrder /\ IsFiniteSet(table)
    BY DEF IInv
  <1>1. /\ peer = "tool" /\ asked < MaxRequests
        /\ up' = Append(up, m)
        /\ Doubt(m)
        /\ UNCHANGED <<peer, shell, pending, seqno, down, table, restarts>>
    BY DEF ToolSend
  <1>2. asked \in Nat /\ pending \in Nat /\ asked + 1 \in 1..MaxRequests
    BY <1>0, <1>1, VainaAssumption DEF TypeOK
  <1>3. m \in Request /\ m.n = asked + 1
    BY <1>2, VainaAssumption DEF Request
  <1> HIDE DEF m
  <1>4. shell = Idle /\ up \in Seq(Request) /\ Len(up) \in Nat
    BY <1>0, <1>1 DEF Counted, TypeOK
  <1>5. /\ up' \in Seq(Request) /\ Len(up') = Len(up) + 1
        /\ \A i \in 1..Len(up) : up'[i] = up[i]
        /\ up'[Len(up) + 1] = m
        /\ {up'[i] : i \in 1..Len(up')} = {up[i] : i \in 1..Len(up)} \union {m}
    BY <1>1, <1>3, <1>4, AppendElements
  <1>6. Unserved' = Unserved \union {m}
    BY <1>1, <1>4, <1>5 DEF Unserved
  <1>7. Answers' = Answers
    BY <1>1 DEF Answers
  <1>8. /\ asked' = asked + 1 /\ last' \in [Entry -> 0..MaxRequests]
        /\ known' \in [Entry -> {"unknown", "present", "absent"}]
        /\ \A u \in Unserved' : u.n <= asked'
        /\ \A a \in Answers' : a.n <= asked'
        /\ \A a \in Answers', u \in Unserved' : a.n < u.n
        /\ Recent' /\ AnswersTrue' /\ Settled'
    BY <1>1, <1>3, <1>6, <1>7, DoubtStep
  <1>9. TypeOK'
    BY <1>0, <1>1, <1>2, <1>5, <1>8 DEF TypeOK, In
  <1>10. Counted'
    BY <1>0, <1>1, <1>2, <1>4, <1>8 DEF Counted, Idle
  <1>11. InOrder'
    <2>1. \A i \in 1..Len(up) : up[i] \in Unserved
      BY DEF Unserved
    <2>2. \A i \in 1..Len(up) : up[i].n \in Nat /\ up[i].n <= asked
      BY <1>0, <2>1, UnservedType DEF InOrder, Request
    <2>3. \A i, j \in 1..Len(up') : i < j => up'[i].n < up'[j].n
      <3> SUFFICES ASSUME NEW i \in 1..Len(up'), NEW j \in 1..Len(up'), i < j
                   PROVE  up'[i].n < up'[j].n
        OBVIOUS
      <3>1. i \in 1..Len(up)
        BY <1>4, <1>5
      <3>2. CASE j \in 1..Len(up)
        BY <1>0, <1>5, <3>1, <3>2 DEF InOrder
      <3>3. CASE j = Len(up) + 1
        BY <1>2, <1>3, <1>5, <2>2, <3>1, <3>3
      <3> QED BY <1>4, <1>5, <3>2, <3>3
    <2> QED BY <1>1, <1>4, <1>8, <2>3 DEF InOrder
  <1> QED BY <1>0, <1>1, <1>8, <1>9, <1>10, <1>11 DEF IInv
(* _pending_acks is stored.                                                 *)
LEMMA CountStep ==
    ASSUME IInv, Count
    PROVE  IInv'
  <1>0. TypeOK /\ Counted /\ InOrder /\ IsFiniteSet(table)
    BY DEF IInv
  <1>1. /\ shell.at = "read" /\ pending' = shell.acks + 1
        /\ shell' = [at |-> "counted", msg |-> shell.msg]
        /\ UNCHANGED <<peer, seqno, up, down, table, asked, last, known, restarts>>
    BY DEF Count
  <1>2. shell # Idle /\ shell.msg \in Request /\ shell.acks \in 0..MaxRequests
    BY <1>0, <1>1, ShellCases DEF Idle
  <1>3. shell' # Idle /\ shell'.at = "counted" /\ shell'.msg = shell.msg
    BY <1>1 DEF Idle
  <1>4. Unserved' = Unserved /\ Answers' = Answers
    BY <1>1, <1>2, <1>3 DEF Unserved, Answers, Serialized
  <1>5. asked \in Nat /\ pending' <= asked /\ pending' \in 0..MaxRequests
    BY <1>0, <1>1, <1>2, VainaAssumption DEF Counted, TypeOK
  <1>6. TypeOK'
    <2>1. shell' \in ShellState
      BY <1>1, <1>2 DEF ShellState
    <2> QED BY <1>0, <1>1, <1>5, <2>1 DEF TypeOK, In
  <1>7. Counted'
    <2>1. Len(up) + Len(down) \in Nat
      BY <1>0 DEF TypeOK
    <2>2. peer # "tool"
      BY <1>0, <1>2 DEF Counted
    <2> QED BY <1>0, <1>1, <1>2, <1>3, <1>5, <2>1, <2>2 DEF Counted
  <1>8. InOrder'
    BY <1>0, <1>1, <1>2, <1>3, <1>4 DEF InOrder
  <1>9. Recent' /\ AnswersTrue' /\ Settled'
    BY <1>1, <1>4, FewerOnTheLine
  <1> QED BY <1>0, <1>1, <1>6, <1>7, <1>8, <1>9 DEF IInv

(* The counted request goes out, or sock_udp_send fails.                    *)
LEMMA SendStep ==
    ASSUME IInv, Send
    PROVE  IInv'
  <1> DEFINE m == Serialized(shell.msg)
  <1>0. TypeOK /\ Counted /\ InOrder /\ IsFiniteSet(table)
    BY DEF IInv
  <1>1. /\ shell.at = "counted" /\ up' \in {Append(up, m), up} /\ shell' = Idle
        /\ UNCHANGED <<peer, pending, seqno, down, table, asked, last, known, restarts>>
    BY DEF Send
  <1>2. shell # Idle /\ shell.msg \in Request /\ m \in Request /\ m.n = shell.msg.n
    BY <1>0, <1>1, ShellCases, SerializedType DEF Idle
  <1>3. m \in Unserved /\ \A i \in 1..Len(up) : up[i] \in Unserved
    BY <1>2 DEF Unserved
  <1> HIDE DEF m
  <1>4. up \in Seq(Request) /\ Len(up) \in Nat /\ Len(down) \in Nat
    BY <1>0 DEF TypeOK
  <1>5. CASE up' = Append(up, m)
    <2>1. /\ up' \in Seq(Request) /\ Len(up') = Len(up) + 1
          /\ \A i \in 1..Len(up) : up'[i] = up[i]
          /\ up'[Len(up) + 1] = m
          /\ {up'[i] : i \in 1..Len(up')} = {up[i] : i \in 1..Len(up)} \union {m}
      BY <1>2, <1>4, <1>5, AppendElements
    <2>2. Unserved' \subseteq Unserved /\ Answers' = Answers
      BY <1>1, <1>3, <2>1 DEF Unserved, Answers
    <2>3. TypeOK'
      BY <1>0, <1>1, <2>1 DEF TypeOK, In, ShellState, Idle
    <2>4. Counted'
      BY <1>0, <1>1, <1>4, <2>1 DEF Counted, Idle, TypeOK
    <2>5. InOrder'
      <3>1. \A i \in 1..Len(up) : up[i].n < m.n
        BY <1>0, <1>2 DEF InOrder
      <3>2. \A i, j \in 1..Len(up') : i < j => up'[i].n < up'[j].n
        <4> SUFFICES ASSUME NEW i \in 1..Len(up'), NEW j \in 1..Len(up'), i < j
                     PROVE  up'[i].n < up'[j].n
          OBVIOUS
        <4>1. i \in 1..Len(up)
          BY <1>4, <2>1
        <4>2. CASE j \in 1..Len(up)
          BY <1>0, <2>1, <4>1, <4>2 DEF InOrder
        <4>3. CASE j = Len(up) + 1
          BY <2>1, <3>1, <4>1, <4>3
        <4> QED BY <1>4, <2>1, <4>2, <4>3
      <3> QED BY <1>0, <1>1, <2>2, <3>2 DEF InOrder
    <2>6. Recent' /\ AnswersTrue' /\ Settled'
      BY <1>1, <2>2, FewerOnTheLine
    <2> QED BY <1>0, <1>1, <2>3, <2>4, <2>5, <2>6 DEF IInv
  <1>6. CASE up' = up
    <2>1. Unserved' \subseteq Unserved /\ Answers' = Answers
      BY <1>1, <1>6 DEF Unserved, Answers
    <2>2. TypeOK'
      BY <1>0, <1>1, <1>6 DEF TypeOK, In, ShellState, Idle
    <2>3. Counted'
      BY <1>0, <1>1, <1>4, <1>6 DEF Counted, Idle, TypeOK
    <2>4. InOrder'
      BY <1>0, <1>1, <1>6, <2>1 DEF InOrder
    <2>5. Recent' /\ AnswersTrue' /\ Settled'
      BY <1>1, <2>1, FewerOnTheLine
    <2> QED BY <1>0, <1>1, <2>2, <2>3, <2>4, <2>5 DEF IInv
  <1> QED BY <1>1, <1>5, <1>6

(* The line loses the oldest packet of a direction.                         *)
LEMMA LoseStep ==
    ASSUME IInv, Lose
    PROVE  IInv'
  <1>0. TypeOK /\ Counted /\ InOrder /\ IsFiniteSet(table)
    BY DEF IInv
  <1>1. UNCHANGED <<peer, shell, pending, seqno, table, asked, last, known, restarts>>
    BY DEF Lose
  <1>2. up \in Seq(Request) /\ down \in Seq(Answer) /\ Len(up) \in Nat /\ Len(down) \in Nat
    BY <1>0 DEF TypeOK
  <1>3. CASE up # <<>> /\ up' = Tail(up) /\ UNCHANGED down
    <2>1. /\ up' \in Seq(Request) /\ Len(up') = Len(up) - 1
          /\ \A i \in 1..Len(up') : i + 1 \in 2..Len(up) /\ up'[i] = up[i + 1]
          /\ {up'[i] : i \in 1..Len(up')} \subseteq {up[i] : i \in 1..Len(up)}
      BY <1>2, <1>3, TailElements
    <2>2. Unserved' \subseteq Unserved /\ Answers' = Answers
      BY <1>1, <1>3, <2>1 DEF Unserved, Answers, Serialized
    <2>3. TypeOK'
      BY <1>0, <1>1, <1>3, <2>1 DEF TypeOK, In
    <2>4. Counted'
      BY <1>0, <1>1, <1>2, <1>3, <2>1, ShellCases DEF Counted, TypeOK
    <2>5. InOrder'
      <3>1. \A i, j \in 1..Len(up') : i < j => up'[i].n < up'[j].n
        BY <1>0, <1>2, <2>1 DEF InOrder
      <3>2. shell' # Idle => \A i \in 1..Len(up') : up'[i].n < shell'.msg.n
        BY <1>0, <1>1, <1>2, <2>1 DEF InOrder
      <3> QED BY <1>0, <1>1, <2>2, <3>1, <3>2 DEF InOrder
    <2>6. Recent' /\ AnswersTrue' /\ Settled'
      BY <1>1, <2>2, FewerOnTheLine
    <2> QED BY <1>0, <1>1, <2>3, <2>4, <2>5, <2>6 DEF IInv
  <1>4. CASE down # <<>> /\ down' = Tail(down) /\ UNCHANGED up
    <2>1. /\ down' \in Seq(Answer) /\ Len(down') = Len(down) - 1
          /\ {down'[i] : i \in 1..Len(down')} \subseteq {down[i] : i \in 1..Len(down)}
      BY <1>2, <1>4, TailElements
    <2>2. Unserved' = Unserved /\ Answers' \subseteq Answers
      BY <1>1, <1>4, <2>1 DEF Unserved, Answers, Serialized
    <2>3. TypeOK'
      BY <1>0, <1>1, <1>4, <2>1 DEF TypeOK, In
    <2>4. Counted'
      BY <1>0, <1>1, <1>2, <1>4, <2>1, ShellCases DEF Counted, TypeOK
    <2>5. InOrder'
      BY <1>0, <1>1, <1>4, <2>2 DEF InOrder
    <2>6. Recent' /\ AnswersTrue' /\ Settled'
      BY <1>1, <2>2, FewerOnTheLine
    <2> QED BY <1>0, <1>1, <2>3, <2>4, <2>5, <2>6 DEF IInv
  <1> QED BY <1>3, <1>4 DEF Lose

(* What an ACK teaches is what the table holds, and nothing on its way will *)
(* change that.                                                             *)
LEMMA Learned ==
    ASSUME IInv, NEW a \in Answers, a.type = "ACK", last[a.about] = a.n
    PROVE  /\ a.about \in Entry /\ (a.about \in table <=> a.adds)
           /\ \A m \in Unserved : ~Names(m, a.about)
  <1>1. a \in Answer /\ a.about \in Entry /\ a.n \in Nat /\ a.n # 0
    BY UnservedType DEF IInv, Answer
  <1>2. a.about \in table <=> a.adds
    BY DEF IInv, AnswersTrue
  <1>3. ASSUME NEW m \in Unserved, Names(m, a.about) PROVE FALSE
    <2>1. m.n <= a.n
      BY <1>1, <1>3 DEF IInv, Recent, Names
    <2>2. a.n < m.n
      BY DEF IInv, InOrder
    <2>3. m.n \in Nat
      BY UnservedType DEF IInv, Request
    <2> QED BY <1>1, <2>1, <2>2, <2>3
  <1> QED BY <1>1, <1>2, <1>3

(* An answer arrives.                                                       *)
LEMMA ReceiveStep ==
    ASSUME IInv, Receive
    PROVE  IInv'
  <1> DEFINE a == Head(down)
  <1>0. TypeOK /\ Counted /\ InOrder /\ IsFiniteSet(table) /\ Recent /\ AnswersTrue /\ Settled
    BY DEF IInv
  <1>1. /\ down # <<>> /\ down' = Tail(down)
        /\ pending' = IF peer = "wifi" /\ pending > 0 THEN pending - 1 ELSE pending
        /\ known' = IF a.type = "ACK" /\ last[a.about] = a.n
                    THEN [known EXCEPT ![a.about] = IF a.adds THEN "present" ELSE "absent"]
                    ELSE known
        /\ UNCHANGED <<peer, shell, seqno, up, table, asked, last, restarts>>
    BY DEF Receive
  <1>2. up \in Seq(Request) /\ down \in Seq(Answer) /\ Len(up) \in Nat /\ Len(down) \in Nat
    BY <1>0 DEF TypeOK
  <1>3. /\ down' \in Seq(Answer) /\ Len(down') = Len(down) - 1
        /\ a \in Answers
        /\ {down'[i] : i \in 1..Len(down')} \subseteq {down[i] : i \in 1..Len(down)}
    BY <1>1, <1>2, TailElements DEF Answers
  <1> HIDE DEF a
  <1>4. Unserved' = Unserved /\ Answers' \subseteq Answers
    BY <1>1, <1>3 DEF Unserved, Answers, Serialized
  <1>5. known' \in [Entry -> {"unknown", "present", "absent"}]
    BY <1>0, <1>1 DEF TypeOK
  <1>6. TypeOK'
    <2>1. pending' \in 0..MaxRequests
      BY <1>0, <1>1, VainaAssumption DEF TypeOK
    <2> QED BY <1>0, <1>1, <1>3, <1>5, <2>1 DEF TypeOK, In
  <1>7. Counted'
    <2>1. pending \in Nat /\ asked \in Nat
      BY <1>0 DEF TypeOK
    <2>2. pending' <= pending /\ pending' \in Nat
      BY <1>1, <2>1
    <2>3. peer = "wifi" => pending >= Len(up) + Len(down) /\ pending > 0 /\ pending' = pending - 1
      BY <1>0, <1>1, <1>2, <1>3, <2>1 DEF Counted
    <2> QED BY <1>0, <1>1, <1>2, <1>3, <2>1, <2>2, <2>3, ShellCases DEF Counted
  <1>8. InOrder'
    BY <1>0, <1>1, <1>4 DEF InOrder
  <1>9. Recent'
    BY <1>0, <1>1, <1>4 DEF Recent, Parses, Size, Named, NoPfx
  <1>10. AnswersTrue'
    BY <1>0, <1>1, <1>4 DEF AnswersTrue
  <1>11. Settled'
    <2> SUFFICES ASSUME NEW e \in Entry, known'[e] # "unknown"
                 PROVE  /\ \A u \in Unserved : ~Names(u, e)
                        /\ known'[e] = "present" <=> e \in table
      BY <1>1, <1>4 DEF Settled, Names, Parses, Size, Named
    <2>1. CASE a.type = "ACK" /\ last[a.about] = a.n /\ e = a.about
      <3>1. known'[e] = IF a.adds THEN "present" ELSE "absent"
        BY <1>0, <1>1, <2>1 DEF TypeOK
      <3> QED BY <1>3, <2>1, <3>1, Learned
    <2>2. CASE ~(a.type = "ACK" /\ last[a.about] = a.n /\ e = a.about)
      <3>1. known'[e] = known[e]
        BY <1>0, <1>1, <2>2 DEF TypeOK
      <3> QED BY <1>0, <3>1 DEF Settled
    <2> QED BY <2>1, <2>2
  <1> QED BY <1>0, <1>1, <1>6, <1>7, <1>8, <1>9, <1>10, <1>11 DEF IInv
(* The router's tables after a request: one entry may have come or gone,    *)
(* and no table holds more than it has room for.                            *)
LEMMA AppliedTables ==
    ASSUME TypeOK, IsFiniteSet(table), NEW m \in Request, Parses(m)
    PROVE  /\ Applied(m) \in {table, table \union {Named(m)}, table \ {Named(m)}}
           /\ Applied(m) \subseteq Entry /\ IsFiniteSet(Applied(m))
           /\ \A tab \in {"rcs", "nib"} :
                 Cardinality({e \in Applied(m) : e.tab = tab}) <= Room(tab)
           /\ ~Refused(m) => (Named(m) \in Applied(m) <=> m.type \in Adding)
  <1> DEFINE e == Named(m)
  <1>1. e \in Entry /\ e.tab \in {"rcs", "nib"}
    BY ParsedNames DEF Entry
  <1>2. \A tab \in {"rcs", "nib"} :
          IsFiniteSet(In(tab)) /\ Cardinality(In(tab)) \in Nat
            /\ Cardinality(In(tab)) <= Room(tab) /\ Room(tab) \in Nat
    BY FS_Subset, FS_CardinalityType, VainaAssumption DEF TypeOK, In, Room
  <1> HIDE DEF e
  <1>3. CASE m.type \notin Adding
    <2>1. Applied(m) = table \ {e}
      BY <1>3 DEF Applied, e
    <2>2. IsFiniteSet(table \ {e})
      BY FS_RemoveElement
    <2>3. ASSUME NEW tab \in {"rcs", "nib"}
          PROVE  Cardinality({x \in table \ {e} : x.tab = tab}) <= Room(tab)
      <3> DEFINE T == {x \in table \ {e} : x.tab = tab}
      <3>1. T \in SUBSET In(tab)
        BY DEF In
      <3>2. Cardinality(T) <= Cardinality(In(tab)) /\ IsFiniteSet(T)
        BY <1>2, <3>1, FS_Subset
      <3>3. Cardinality(T) \in Nat
        BY <3>2, FS_CardinalityType
      <3> QED BY <1>2, <3>2, <3>3
    <2> QED BY <1>3, <2>1, <2>2, <2>3 DEF TypeOK, e
  <1>4. CASE /\ m.type \in Adding
             /\ e \in table \/ Cardinality(In(e.tab)) < Room(e.tab)
    <2>1. Applied(m) = table \union {e}
      BY <1>4 DEF Applied, e
    <2>2. IsFiniteSet(table \union {e})
      BY FS_AddElement
    <2>3. ASSUME NEW tab \in {"rcs", "nib"}
          PROVE  Cardinality({x \in table \union {e} : x.tab = tab}) <= Room(tab)
      <3> DEFINE T == {x \in table \union {e} : x.tab = tab}
      <3>1. CASE tab # e.tab \/ e \in table
        <4>1. T = In(tab)
          BY <3>1 DEF In
        <4> QED BY <1>2, <4>1
      <3>2. CASE tab = e.tab /\ e \notin table
        <4>1. T = In(tab) \union {e} /\ e \notin In(tab)
          BY <3>2 DEF In
        <4>2. Cardinality(T) = Cardinality(In(tab)) + 1
          BY <1>2, <4>1, FS_AddElement
        <4> QED BY <1>2, <1>4, <3>2, <4>2
      <3> QED BY <3>1, <3>2
    <2>4. table \union {e} \subseteq Entry
      BY <1>1 DEF TypeOK
    <2> QED BY <1>4, <2>1, <2>2, <2>3, <2>4 DEF e
  <1>5. CASE /\ m.type \in Adding
             /\ ~(e \in table \/ Cardinality(In(e.tab)) < Room(e.tab))
    <2>1. Applied(m) = table
      BY <1>5 DEF Applied, e
    <2>2. Refused(m)
      BY <1>1, <1>2, <1>5 DEF Refused, e
    <2> QED BY <1>2, <2>1, <2>2 DEF TypeOK, In
  <1> QED BY <1>3, <1>4, <1>5

(* What the router answers to a request.                                    *)
LEMMA AnswerType ==
    ASSUME NEW m \in Request, Parses(m)
    PROVE  LET a == AnswerTo(m)
           IN  /\ a \in Answer /\ a.n = m.n /\ a.about = Named(m) /\ (a.adds <=> m.type \in Adding)
               /\ a.type = "ACK" => ~Refused(m)
  <1> DEFINE adds == m.type \in Adding
             type == IF Refused(m) THEN "NACK" ELSE "ACK"
             a == [type |-> type, seqno |-> m.seqno, about |-> Named(m), adds |-> adds, n |-> m.n]
  <1>1. AnswerTo(m) = a
    BY DEF AnswerTo
  <1>2. adds \in BOOLEAN
    OBVIOUS
  <1>3. type \in {"ACK", "NACK"} /\ (type = "ACK" => ~Refused(m))
    OBVIOUS
  <1>4. m.seqno \in 0..SeqLimit /\ Named(m) \in Entry /\ m.n \in 1..MaxRequests
    BY ParsedNames DEF Request
  <1> HIDE DEF adds, type
  <1>5. a \in Answer
    BY <1>2, <1>3, <1>4 DEF Answer
  <1>6. a.n = m.n /\ a.about = Named(m) /\ a.adds = adds /\ a.type = type
    OBVIOUS
  <1> HIDE DEF a
  <1> QED BY <1>1, <1>3, <1>5, <1>6 DEF adds

(* The router reads a request.                                              *)
LEMMA ServeStep ==
    ASSUME IInv, Serve
    PROVE  IInv'
  <1> DEFINE m == Head(up)
             e == Named(m)
             a == AnswerTo(m)
  <1>0. TypeOK /\ Counted /\ InOrder /\ IsFiniteSet(table) /\ Recent /\ AnswersTrue /\ Settled
    BY DEF IInv
  <1>1. /\ up # <<>> /\ up' = Tail(up)
        /\ IF Parses(m) THEN table' = Applied(m) /\ down' \in {Append(down, a), down}
                        ELSE UNCHANGED <<table, down>>
        /\ UNCHANGED <<peer, shell, pending, seqno, asked, last, known, restarts>>
    BY DEF Serve
  <1>2. up \in Seq(Request) /\ down \in Seq(Answer) /\ Len(up) \in Nat /\ Len(down) \in Nat
    BY <1>0 DEF TypeOK
  <1>3. /\ up' \in Seq(Request) /\ Len(up') = Len(up) - 1
        /\ 1 \in 1..Len(up) /\ m = up[1] /\ m \in {up[i] : i \in 1..Len(up)}
        /\ \A i \in 1..Len(up') : i + 1 \in 2..Len(up) /\ up'[i] = up[i + 1]
        /\ {up'[i] : i \in 1..Len(up')} \subseteq {up[i] : i \in 1..Len(up)}
    BY <1>1, <1>2, TailElements
  <1>4. m \in Request /\ m \in Unserved /\ Unserved' \subseteq Unserved
    BY <1>1, <1>2, <1>3 DEF Unserved, Serialized
  <1>5. \A u \in Unserved' : m.n < u.n
    <2>1. \A i \in 1..Len(up') : m.n < up'[i].n
      BY <1>0, <1>2, <1>3 DEF InOrder
    <2>2. shell # Idle => m.n < Serialized(shell.msg).n
      BY <1>0, <1>3, ShellCases, SerializedType DEF InOrder
    <2> QED BY <1>1, <2>1, <2>2 DEF Unserved, Serialized
  <1>6. /\ \A i, j \in 1..Len(up') : i < j => up'[i].n < up'[j].n
        /\ shell' # Idle => \A i \in 1..Len(up') : up'[i].n < shell'.msg.n
    BY <1>0, <1>1, <1>2, <1>3 DEF InOrder
  <1>7. CASE ~Parses(m)
    <2>1. UNCHANGED <<table, down>> /\ Answers' = Answers
      BY <1>1, <1>7 DEF Answers
    <2>2. TypeOK'
      BY <1>0, <1>1, <1>3, <2>1 DEF TypeOK, In
    <2>3. Counted'
      BY <1>0, <1>1, <1>2, <1>3, <2>1, ShellCases DEF Counted, TypeOK
    <2>4. InOrder'
      BY <1>0, <1>1, <1>4, <1>6, <2>1 DEF InOrder
    <2>5. Recent' /\ AnswersTrue' /\ Settled'
      BY <1>1, <1>4, <2>1, FewerOnTheLine
    <2> QED BY <1>0, <2>1, <2>2, <2>3, <2>4, <2>5 DEF IInv
  <1>8. CASE Parses(m)
    <2>1. table' = Applied(m) /\ down' \in {Append(down, a), down}
      BY <1>1, <1>8
    <2>2. /\ Applied(m) \in {table, table \union {e}, table \ {e}}
          /\ Applied(m) \subseteq Entry /\ IsFiniteSet(Applied(m))
          /\ \A tab \in {"rcs", "nib"} : Cardinality({x \in Applied(m) : x.tab = tab}) <= Room(tab)
          /\ ~Refused(m) => (e \in Applied(m) <=> m.type \in Adding)
      BY <1>0, <1>4, <1>8, AppliedTables
    <2>3. e \in Entry
      BY <1>4, <1>8, ParsedNames
    <2>4. /\ a \in Answer /\ a.n = m.n /\ a.about = e /\ (a.adds <=> m.type \in Adding)
          /\ a.type = "ACK" => ~Refused(m)
      BY <1>4, <1>8, AnswerType
    <2> HIDE DEF m, e, a
    <2>5. /\ down' \in Seq(Answer) /\ Len(down') \in Nat /\ Len(down') <= Len(down) + 1
          /\ Answers' \subseteq Answers \union {a}
      <3>1. CASE down' = Append(down, a)
        BY <1>2, <2>4, <3>1, AppendElements DEF Answers
      <3>2. CASE down' = down
        BY <1>2, <3>2 DEF Answers
      <3> QED BY <2>1, <3>1, <3>2
    <2>6. TypeOK'
      BY <1>0, <1>1, <1>3, <2>1, <2>2, <2>5 DEF TypeOK, In
    <2>7. Counted'
      BY <1>0, <1>1, <1>2, <1>3, <2>5, ShellCases DEF Counted, TypeOK
    <2>8. InOrder'
      <3>1. m.n <= asked
        BY <1>0, <1>4 DEF InOrder
      <3> QED BY <1>0, <1>1, <1>4, <1>5, <1>6, <2>4, <2>5, <3>1 DEF InOrder
    <2>9. Recent'
      BY <1>0, <1>1, <1>4 DEF Recent, Parses, Size, Named, NoPfx
    <2>10. \A x \in Entry : x # e => (x \in table' <=> x \in table)
      BY <2>1, <2>2
    <2>11. AnswersTrue'
      <3> SUFFICES ASSUME NEW b \in Answers', last[b.about] = b.n, b.type = "ACK"
                   PROVE  b.about \in table' <=> b.adds
        BY <1>1 DEF AnswersTrue
      <3>1. CASE b \in Answers
        <4>1. b.about \in Entry /\ (b.about \in table <=> b.adds) /\ ~Names(m, b.about)
          BY <1>4, <3>1, Learned
        <4>2. b.about # e
          BY <1>8, <4>1 DEF Names, e
        <4> QED BY <2>10, <4>1, <4>2
      <3>2. CASE b = a
        BY <2>1, <2>2, <2>4, <3>2
      <3> QED BY <2>5, <3>1, <3>2
    <2>12. Settled'
      <3> SUFFICES ASSUME NEW x \in Entry, known[x] # "unknown"
                   PROVE  /\ \A u \in Unserved' : ~Names(u, x)
                          /\ known[x] = "present" <=> x \in table'
        BY <1>1 DEF Settled, Names, Parses, Size, Named
      <3>1. x # e
        BY <1>0, <1>4, <1>8 DEF Settled, Names, e
      <3> QED BY <1>0, <1>4, <2>10, <3>1 DEF Settled
    <2> QED BY <2>1, <2>2, <2>6, <2>7, <2>8, <2>9, <2>11, <2>12 DEF IInv
  <1> QED BY <1>7, <1>8

(* The router restarts.                                                     *)
LEMMA RestartStep ==
    ASSUME IInv, Restart
    PROVE  IInv'
  <1>0. TypeOK /\ Counted /\ InOrder
    BY DEF IInv
  <1>1. /\ restarts < MaxRestarts /\ restarts' = restarts + 1 /\ table' = {}
        /\ last' = [e \in Entry |-> 0] /\ known' = [e \in Entry |-> "unknown"]
        /\ UNCHANGED <<peer, shell, pending, seqno, up, down, asked>>
    BY DEF Restart
  <1>2. Unserved' = Unserved /\ Answers' = Answers
    BY <1>1 DEF Unserved, Answers, Serialized
  <1>3. IsFiniteSet({}) /\ Cardinality({}) = 0
    BY FS_EmptySet, Zenon
  <1>4. \A tab \in {"rcs", "nib"} : {e \in table' : e.tab = tab} = {} /\ Room(tab) \in Nat
    BY <1>1, VainaAssumption DEF Room
  <1>5. \A tab \in {"rcs", "nib"} : Cardinality({e \in table' : e.tab = tab}) <= Room(tab)
    BY <1>3, <1>4
  <1>6. TypeOK'
    BY <1>0, <1>1, <1>5, VainaAssumption DEF TypeOK, In
  <1>7. Counted' /\ InOrder'
    BY <1>0, <1>1, <1>2 DEF Counted, InOrder
  <1>8. Recent'
    <2>1. \A u \in Unserved : Parses(u) => Named(u) \in Entry
      BY <1>0, UnservedType, ParsedNames
    <2> QED BY <1>1, <1>2, <2>1 DEF Recent, Parses, Size, Named, NoPfx
  <1>9. AnswersTrue'
    <2>1. \A b \in Answers : b.about \in Entry /\ b.n # 0
      BY <1>0, UnservedType DEF Answer
    <2> QED BY <1>1, <1>2, <2>1 DEF AnswersTrue
  <1>10. Settled'
    BY <1>1 DEF Settled
  <1> QED BY <1>1, <1>3, <1>6, <1>7, <1>8, <1>9, <1>10 DEF IInv
(* The invariant is inductive.                                              *)
LEMMA NextIInv == IInv /\ [Next]_vars => IInv'
  <1> SUFFICES ASSUME IInv, [Next]_vars PROVE IInv'
    OBVIOUS
  <1>1. ASSUME NEW ip \in Ips, NEW pfx \in PfxLens, NEW type \in Types, Craft(type, ip, pfx)
        PROVE  IInv'
    BY <1>1, CraftStep
  <1>2. ASSUME NEW ip \in Ips, NEW pfx \in PfxLens, ToolRcs(ip, pfx) \/ ToolNib(ip, pfx)
        PROVE  IInv'
    BY <1>2, ToolStep DEF ToolRcs, ToolNib, Types
  <1>3. CASE Count \/ Send \/ Receive \/ Serve \/ Lose \/ Restart
    BY <1>3, CountStep, SendStep, ReceiveStep, ServeStep, LoseStep, RestartStep
  <1>4. CASE UNCHANGED vars
    <2>1. Unserved' = Unserved /\ Answers' = Answers
      BY <1>4 DEF vars, Unserved, Answers, Serialized
    <2>2. Recent' /\ AnswersTrue' /\ Settled'
      BY <1>4, <2>1, FewerOnTheLine DEF vars
    <2>3. TypeOK' /\ Counted'
      BY <1>4 DEF vars, IInv, TypeOK, Counted, In
    <2>4. InOrder'
      BY <1>4, <2>1 DEF vars, IInv, InOrder
    <2> QED BY <1>4, <2>2, <2>3, <2>4 DEF vars, IInv
  <1> QED BY <1>1, <1>2, <1>3, <1>4 DEF Next, Types, Rcs

(* The shape of the state; above all, no table of the router ever holds     *)
(* more than it has room for, and _pending_acks never runs away.            *)
THEOREM TypeCorrect == Spec => []TypeOK
  <1>1. IInv => TypeOK
    BY DEF IInv
  <1> QED BY <1>1, InitIInv, NextIInv, PTL DEF Spec

(* Every answer that may still come is counted in _pending_acks, although   *)
(* the increment is a load and a store and the receiving thread decrements  *)
(* in between.                                                              *)
THEOREM PendingCovers == Spec => []PendingCoversAnswers
  <1>1. IInv => PendingCoversAnswers
    BY DEF IInv, Counted, PendingCoversAnswers
  <1> QED BY <1>1, InitIInv, NextIInv, PTL DEF Spec

-----------------------------------------------------------------------------
(* Each step is one of VainaSpec's, or changes neither the tables nor what  *)
(* is known.                                                                *)
LEMMA StepKeepsPromise == IInv /\ [Next]_vars => [Promise!SpecNext]_(Promise!specVars)
  <1> SUFFICES ASSUME IInv, [Next]_vars
               PROVE  Promise!SpecNext \/ UNCHANGED <<table, known>>
    BY DEF Promise!specVars
  <1>0. TypeOK /\ Settled
    BY DEF IInv
  <1>1. ASSUME NEW m \in Request, Doubt(m), UNCHANGED table
        PROVE  Promise!SpecNext \/ UNCHANGED <<table, known>>
    <2>1. CASE ~Parses(m)
      BY <1>1, <2>1, ParsedNames DEF Doubt
    <2>2. CASE Parses(m)
      <3>1. Named(m) \in Entry /\ Promise!Ask(Named(m))
        BY <1>1, <2>2, ParsedNames DEF Doubt, Promise!Ask
      <3> QED BY <3>1 DEF Promise!SpecNext
    <2> QED BY <2>1, <2>2
  <1>2. ASSUME NEW ip \in Ips, NEW pfx \in PfxLens, NEW type \in Types, Craft(type, ip, pfx)
        PROVE  Promise!SpecNext \/ UNCHANGED <<table, known>>
    <2> DEFINE m == [type |-> type, seqno |-> NextSeqno, ip |-> ip, pfx |-> pfx, n |-> asked + 1]
    <2>1. Doubt(Serialized(m)) /\ UNCHANGED table /\ asked < MaxRequests
      BY <1>2 DEF Craft
    <2>2. m \in Request
      BY <1>0, <2>1, VainaAssumption DEF NextSeqno, TypeOK, Request
    <2>3. Serialized(m) \in Request
      BY <2>2, SerializedType
    <2> QED BY <1>1, <2>1, <2>3
  <1>3. ASSUME NEW ip \in Ips, NEW pfx \in PfxLens, NEW type \in Types, ToolSend(type, ip, pfx)
        PROVE  Promise!SpecNext \/ UNCHANGED <<table, known>>
    <2> DEFINE m == [type |-> type, seqno |-> 0, ip |-> ip, pfx |-> pfx, n |-> asked + 1]
    <2>1. Doubt(m) /\ UNCHANGED table /\ asked < MaxRequests
      BY <1>3 DEF ToolSend
    <2>2. m \in Request
      BY <1>0, <2>1, VainaAssumption DEF TypeOK, Request
    <2> QED BY <1>1, <2>1, <2>2
  <1>4. CASE Receive
    <2> DEFINE a == Head(down)
    <2>1. /\ down # <<>> /\ UNCHANGED table
          /\ known' = IF a.type = "ACK" /\ last[a.about] = a.n
                      THEN [known EXCEPT ![a.about] = IF a.adds THEN "present" ELSE "absent"]
                      ELSE known
      BY <1>4 DEF Receive
    <2>2. a \in Answers
      BY <1>0, <2>1, TailElements DEF Answers, TypeOK
    <2> HIDE DEF a
    <2>3. CASE a.type = "ACK" /\ last[a.about] = a.n
      <3>1. a.about \in Entry /\ (a.about \in table <=> a.adds)
        BY <2>2, <2>3, Learned
      <3>2. Promise!Learn(a.about)
        BY <2>1, <2>3, <3>1 DEF Promise!Learn
      <3> QED BY <3>1, <3>2 DEF Promise!SpecNext
    <2>4. CASE ~(a.type = "ACK" /\ last[a.about] = a.n)
      BY <2>1, <2>4
    <2> QED BY <2>3, <2>4
  <1>5. CASE Serve
    <2> DEFINE m == Head(up)
    <2>1. /\ up # <<>> /\ UNCHANGED known
          /\ IF Parses(m) THEN table' = Applied(m) ELSE UNCHANGED table
      BY <1>5 DEF Serve
    <2>2. m \in Unserved /\ m \in Request
      <3>1. m \in {up[i] : i \in 1..Len(up)}
        BY <1>0, <2>1, TailElements DEF TypeOK
      <3> QED BY <1>0, <3>1, UnservedType DEF Unserved
    <2> HIDE DEF m
    <2>3. CASE Parses(m)
      <3>1. Named(m) \in Entry
        BY <2>2, <2>3, ParsedNames
      <3>2. known[Named(m)] = "unknown"
        BY <1>0, <2>2, <2>3, <3>1 DEF Settled, Names
      <3>3. table' \in {table, table \union {Named(m)}, table \ {Named(m)}}
        BY <2>1, <2>2, <2>3, AppliedTables DEF IInv
      <3>4. UNCHANGED table \/ Promise!Change(Named(m))
        BY <2>1, <3>2, <3>3 DEF Promise!Change
      <3> QED BY <2>1, <3>1, <3>4 DEF Promise!SpecNext
    <2> QED BY <2>1, <2>3
  <1>6. CASE Restart
    BY <1>6 DEF Restart, Promise!SpecNext, Promise!RestartRouter
  <1>7. CASE Count \/ Send \/ Lose \/ UNCHANGED vars
    BY <1>7 DEF Count, Send, Lose, vars
  <1> QED BY <1>2, <1>3, <1>4, <1>5, <1>6, <1>7 DEF Next, ToolRcs, ToolNib, Types, Rcs

(* VAINA implements its promise: what an ACK says about the router's tables *)
(* is true when it arrives, and stays true until the entry is asked for     *)
(* again or the router restarts.                                            *)
THEOREM Implements == Spec => KeepsPromise
  <1>1. Init => Promise!SpecInit
    BY DEF Init, Promise!SpecInit
  <1> QED BY <1>1, StepKeepsPromise, InitIInv, NextIInv, PTL
          DEF Spec, KeepsPromise, Promise!AbstractSpec

(* In particular nothing that was learned is wrong.                         *)
THEOREM KnownIsSo == Spec => []Promise!Truthful
  <1>1. IInv => Promise!Truthful
    BY DEF IInv, Settled, Promise!Truthful
  <1> QED BY <1>1, InitIInv, NextIInv, PTL DEF Spec
=============================================================================
