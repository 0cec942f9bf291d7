-------------------------------- MODULE Vaina --------------------------------
(***************************************************************************)
(* VAINA, the protocol that configures a router over its serial (SLIP)     *)
(* line: the server on the radio board (mesh/sys/net/vaina/vaina.c), the   *)
(* client on the Wi-Fi board (wifi/sys/net/vaina/vaina.c) with its shell   *)
(* thread and its receiving thread, and the command-line tool              *)
(* (dist/tools/vaina), which sends one request and exits.  One of the two  *)
(* is at the other end of the line.  The line keeps the order of packets   *)
(* and may lose any of them; nothing is ever sent twice.                   *)
(*                                                                         *)
(* A message is a record of what its bytes say.  Addresses have Width bits *)
(* (128 in the code) and IpSize bytes.  A packet also carries, unseen by   *)
(* the code, the number of its request (n): it only serves to state what a *)
(* reader of the answers may conclude.                                     *)
(***************************************************************************)
EXTENDS Naturals, Sequences, FiniteSets

CONSTANTS Width,      \* bits in an address
          IpSize,     \* sizeof(ipv6_addr_t)
          Ips,        \* the addresses requests name
          PfxLens,    \* the prefix lengths requests name
          SeqLimit,   \* 255: the sequence number that is skipped
          RcsSlots,   \* CONFIG_AODVV2_RCS_ENTRIES
          NibSlots,   \* CONFIG_GNRC_IPV6_NIB_OFFL_NUMOF
          MaxRequests, MaxRestarts   \* bounds

ASSUME VainaAssumption ==
    /\ Width \in Nat /\ IpSize \in Nat \ {0}
    /\ Ips \subseteq [1..Width -> {0, 1}]
    /\ PfxLens \subseteq 0..255
    /\ SeqLimit \in Nat \ {0, 1}
    /\ RcsSlots \in Nat /\ NibSlots \in Nat
    /\ MaxRequests \in Nat /\ MaxRestarts \in Nat

VARIABLES peer,      \* who is at the other end: "wifi" or "tool"
          shell,     \* where the Wi-Fi board's shell thread is
          pending,   \* _pending_acks of the Wi-Fi board
          seqno,     \* _seqno of the Wi-Fi board
          up, down,  \* packets to and from the router
          table,     \* the router's client set and forwarding table
          asked,     \* number of requests so far
          last,      \* last[e]: the number of the last request that named e
          known,     \* known[e]: what the answers received say about e
          restarts

vars == <<peer, shell, pending, seqno, up, down, table, asked, last, known, restarts>>

NoPfx == Width + 256    \* no prefix byte in the message

Types == {"RCS_ADD", "RCS_DEL", "NIB_ADD", "NIB_DEL"}
Rcs == {"RCS_ADD", "RCS_DEL"}
Adding == {"RCS_ADD", "NIB_ADD"}

Request == [type : Types, seqno : 0..SeqLimit, ip : Ips, pfx : PfxLens \union {NoPfx}, n : 1..MaxRequests]

\* aodvv2_rcs_add and aodvv2_rcs_del limit a prefix length to the address.
Clamp(len) == IF len > Width THEN Width ELSE len

\* The prefix an entry is stored under.
Net(ip, len) == [b \in 1..Width |-> IF b <= len THEN ip[b] ELSE 0]

Entry == [tab : {"rcs", "nib"}, net : {Net(ip, Clamp(len)) : ip \in Ips, len \in PfxLens}, len : {Clamp(len) : len \in PfxLens}]

\* The entry a request is about.
Named(m) == [tab |-> IF m.type \in Rcs THEN "rcs" ELSE "nib",
             net |-> Net(m.ip, Clamp(m.pfx)), len |-> Clamp(m.pfx)]

Answer == [type : {"ACK", "NACK"}, seqno : 0..SeqLimit, about : Entry, adds : BOOLEAN, n : 1..MaxRequests]

\* A request in the making, and the value of _pending_acks the thread read.
ShellState == [at : {"idle"}]
       \union [at : {"read"}, msg : Request, acks : 0..MaxRequests]
       \union [at : {"counted"}, msg : Request]
Idle == [at |-> "idle"]

Room(tab) == IF tab = "rcs" THEN RcsSlots ELSE NibSlots

Init ==
    /\ peer \in {"wifi", "tool"}
    /\ shell = Idle /\ pending = 0 /\ seqno = 0
    /\ up = <<>> /\ down = <<>>
    /\ table = {}
    /\ asked = 0 /\ restarts = 0
    /\ last = [e \in Entry |-> 0]
    /\ known = [e \in Entry |-> "unknown"]

\* Ghost of a new request: what was known of the entry is in doubt.  A
\* request without a prefix names no entry.
Doubt(m) ==
    /\ asked' = m.n
    /\ IF m.pfx = NoPfx THEN UNCHANGED <<last, known>>
       ELSE /\ last' = [last EXCEPT ![Named(m)] = m.n]
            /\ known' = [known EXCEPT ![Named(m)] = "unknown"]
-----------------------------------------------------------------------------
\* vaina_seqno
NextSeqno == IF seqno + 1 = SeqLimit THEN 0 ELSE seqno + 1

\* _serialize_msg of the Wi-Fi board: a client's address goes without a
\* prefix length.
Serialized(m) == IF m.type \in Rcs THEN [m EXCEPT !.pfx = NoPfx] ELSE m

\* rcs_add_cmd and vaina_client_send, up to the load of _pending_acks += 1.
Craft(type, ip, pfx) ==
    LET m == [type |-> type, seqno |-> NextSeqno, ip |-> ip, pfx |-> pfx, n |-> asked + 1]
    IN  /\ peer = "wifi" /\ shell = Idle /\ asked < MaxRequests
        /\ seqno' = NextSeqno
        /\ shell' = [at |-> "read", msg |-> m, acks |-> pending]
        /\ Doubt(Serialized(m))
        /\ UNCHANGED <<peer, pending, up, down, table, restarts>>

\* The store of _pending_acks += 1: the receiving thread, of higher
\* priority, may have run in between.
Count ==
    /\ shell.at = "read"
    /\ pending' = shell.acks + 1
    /\ shell' = [at |-> "counted", msg |-> shell.msg]
    /\ UNCHANGED <<peer, seqno, up, down, table, asked, last, known, restarts>>

\* The rest of vaina_client_send; sock_udp_send may fail.
Send ==
    /\ shell.at = "counted"
    /\ up' \in {Append(up, Serialized(shell.msg)), up}
    /\ shell' = Idle
    /\ UNCHANGED <<peer, pending, seqno, down, table, asked, last, known, restarts>>

\* Variant: an answer settles everything that is pending.
ReceiveSettles ==
    LET a == Head(down)
    IN  /\ down # <<>>
        /\ down' = Tail(down)
        /\ pending' = IF peer = "wifi" THEN 0 ELSE pending
        /\ known' = IF a.type = "ACK" /\ last[a.about] = a.n
                    THEN [known EXCEPT ![a.about] = IF a.adds THEN "present" ELSE "absent"]
                    ELSE known
        /\ UNCHANGED <<peer, shell, seqno, up, table, asked, last, restarts>>

\* _event_loop with _parse_msg and _process_msg of the Wi-Fi board.  The
\* tool has exited: its host throws the answer away.
Receive ==
    LET a == Head(down)
    IN  /\ down # <<>>
        /\ down' = Tail(down)
        /\ pending' = IF peer = "wifi" /\ pending > 0 THEN pending - 1 ELSE pending
        /\ known' = IF a.type = "ACK" /\ last[a.about] = a.n
                    THEN [known EXCEPT ![a.about] = IF a.adds THEN "present" ELSE "absent"]
                    ELSE known
        /\ UNCHANGED <<peer, shell, seqno, up, table, asked, last, restarts>>
-----------------------------------------------------------------------------
\* A new VainaClient per command: its first sequence number is 0, and it is
\* gone before the answer comes.
ToolSend(type, ip, pfx) ==
    LET m == [type |-> type, seqno |-> 0, ip |-> ip, pfx |-> pfx, n |-> asked + 1]
    IN  /\ peer = "tool" /\ asked < MaxRequests
        /\ up' = Append(up, m)
        /\ Doubt(m)
        /\ UNCHANGED <<peer, shell, pending, seqno, down, table, restarts>>

\* The tool's rcs and nib commands.
ToolRcs(ip, pfx) == ToolSend("RCS_ADD", ip, pfx) \/ ToolSend("RCS_DEL", ip, pfx)
ToolNib(ip, pfx) == ToolSend("NIB_ADD", ip, pfx) \/ ToolSend("NIB_DEL", ip, pfx)
-----------------------------------------------------------------------------
Size(m) == 2 + (IF m.pfx = NoPfx THEN 0 ELSE 1) + IpSize

\* _parse_msg of the server.
Parses(m) == Size(m) >= 2 + 1 + IpSize

In(tab) == {e \in table : e.tab = tab}

\* _process_msg fails: a client that is there already or finds no room, a
\* route that finds no room.
Refused(m) ==
    /\ m.type \in Adding
    /\ m.type = "RCS_ADD" \/ Named(m) \notin table
    /\ Named(m) \in table \/ Cardinality(In(Named(m).tab)) >= Room(Named(m).tab)

\* What _process_msg leaves in the tables; adding may find no room.
Applied(m) ==
    IF m.type \notin Adding THEN table \ {Named(m)}
    ELSE IF Named(m) \in table \/ Cardinality(In(Named(m).tab)) < Room(Named(m).tab)
    THEN table \union {Named(m)}
    ELSE table

\* Variant: the result of _process_msg is not looked at.
AnswerGood(m) == [type |-> "ACK", seqno |-> m.seqno, about |-> Named(m),
                  adds |-> m.type \in Adding, n |-> m.n]

AnswerTo(m) == [type |-> IF Refused(m) THEN "NACK" ELSE "ACK", seqno |-> m.seqno,
                about |-> Named(m), adds |-> m.type \in Adding, n |-> m.n]

\* _vaina_thread: what does not parse is dropped without an answer.
Serve ==
    LET m == Head(up)
    IN  /\ up # <<>>
        /\ up' = Tail(up)
        /\ IF Parses(m)
           THEN /\ table' = Applied(m)
                /\ down' \in {Append(down, AnswerTo(m)), down}
           ELSE UNCHANGED <<table, down>>
        /\ UNCHANGED <<peer, shell, pending, seqno, asked, last, known, restarts>>

\* The serial line loses the oldest packet of a direction.
Lose ==
    /\ \/ up # <<>> /\ up' = Tail(up) /\ UNCHANGED down
       \/ down # <<>> /\ down' = Tail(down) /\ UNCHANGED up
    /\ UNCHANGED <<peer, shell, pending, seqno, table, asked, last, known, restarts>>

\* The router restarts: its tables are in memory.  Nobody is told, so what
\* was asked before is not concluded from any more.
Restart ==
    /\ restarts < MaxRestarts
    /\ restarts' = restarts + 1
    /\ table' = {}
    /\ last' = [e \in Entry |-> 0]
    /\ known' = [e \in Entry |-> "unknown"]
    /\ UNCHANGED <<peer, shell, pending, seqno, up, down, asked>>

Next ==
    \/ \E ip \in Ips, pfx \in PfxLens :
          \/ \E type \in Rcs : Craft(type, ip, pfx)
          \/ \E type \in Types \ Rcs : pfx <= Width /\ Craft(type, ip, pfx)
          \/ ToolRcs(ip, pfx)
          \/ pfx <= Width /\ ToolNib(ip, pfx)
    \/ Count \/ Send \/ Receive \/ Serve \/ Lose \/ Restart

Spec == Init /\ [][Next]_vars
-----------------------------------------------------------------------------
\* The shape of the state: where the threads of vaina.c are, what the line
\* carries, and tables that never hold more than they have room for.
TypeOK ==
    /\ peer \in {"wifi", "tool"}
    /\ shell \in ShellState
    /\ pending \in 0..MaxRequests
    /\ seqno \in 0..SeqLimit - 1
    /\ up \in Seq(Request) /\ down \in Seq(Answer)
    /\ table \subseteq Entry
    /\ \A tab \in {"rcs", "nib"} : Cardinality(In(tab)) <= Room(tab)
    /\ asked \in 0..MaxRequests
    /\ last \in [Entry -> 0..MaxRequests]
    /\ known \in [Entry -> {"unknown", "present", "absent"}]
    /\ restarts \in 0..MaxRestarts

\* Every answer of the Wi-Fi board's router that may still come is counted in
\* _pending_acks (vaina_client_send counts before it sends, the receiving
\* thread subtracts between the load and the store): the counter never claims
\* that everything is answered while an answer is on its way.
PendingCoversAnswers ==
    peer = "wifi" => pending >= Len(up) + Len(down)

\* VAINA implements its promise: what an ACK says about the router's tables is
\* true and stays true until the entry is asked for again (_process_msg,
\* _send_ack, and the order of the line).
Promise == INSTANCE VainaSpec
KeepsPromise == Promise!AbstractSpec
=============================================================================
