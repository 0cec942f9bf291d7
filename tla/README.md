# Turpial firmware: TLA+ models and proofs

The Turpial is a mesh radio with two boards: a CC1312 (`src/mesh`) that routes
IPv6 over a sub-GHz radio with AODVv2, and an ESP32 (`src/wifi`) that connects
Wi-Fi clients to it over a SLIP line and tells it, with the VAINA protocol,
which addresses it serves. Both stand on libraries kept in `src/core/contrib`:
oonf_api, which holds the ordered containers, the network addresses and the
RFC 5444 messages AODVv2 is written in, and cJSON, in which the Wi-Fi board
reports its statistics. This directory models the routing core, the
configuration protocol, the settings and the three libraries.

## Inventory

| Component | State | Operations | Talks to |
|---|---|---|---|
| Sequence number `aodvv2_seqnum.c` | one atomic counter | `get`, `inc` | every thread that originates a message |
| Metrics `aoddv2_metric.c` | none | link cost, limit, update | reader, route set |
| Local Route Set `aodvv2_lrs.c` | array of routes with states and times | lookup, add, delete, improvement test | reader (AODVv2 thread only) |
| Multicast Message Set `aodvv2_mcmsg.c` | array of RREQs seen, mutex | `process` | reader, `aodvv2_find_route` |
| Router Client Set `aodvv2_rcs.c` | array of prefixes, mutex | add, delete, lookup | shell, VAINA server, reader, `_route_info` |
| Packet buffer `aodvv2_buffer.c` | array of packet references, no lock | add, dispatch | IPv6 thread, AODVv2 thread |
| Reader, writer, `rfc5444_compat.c` | static `_msg_data`, `_msg` | callbacks per message, address, end of message | all of the above, NIB, oonf_api |
| Core `aodvv2.c` | IPC queue of the AODVv2 thread | `_route_info`, `find_route`, `send_*`, `_event_loop` | IPv6 stack, reader, writer |
| VAINA server `mesh/.../vaina.c` | none of its own | RCS and NIB additions and removals, ACK/NACK | client set, NIB |
| VAINA client `wifi/.../vaina.c` | sequence number, pending acknowledgements | send, receive ACK | server, over SLIP |
| VAINA tool `dist/tools/vaina` | none | one request per process | server, over SLIP |
| NVS, Wi-Fi settings `wifi/sys/storage` | open flag, handle, flash | set, get, commit, close | Wi-Fi start-up |
| Containers `oonf_api/common/avl.c`, `list.h` | tree, list, followers | insert, remove, delete, four lookups | every table of the RFC 5444 library |
| Network addresses `netaddr.c` | none | binary, socket, subnet and host conversions, comparison | key of the writer's address tree |
| RFC 5444 writer `rfc5444_writer.c`, `_msg_generator.c`, `_pkt_generator.c`, `_tlv_writer.c` | message under construction, packet under construction, state machine | create, add and allocate, fragment, flush, forward | content providers, reader |
| RFC 5444 reader `rfc5444_reader.c` | consumers | parse a packet, call consumers, ask for forwarding | AODVv2 reader, writer |
| cJSON | doubly linked nodes | create, add, detach, insert, replace, copy, compare, print, parse, minify | CoAP statistics `tfcoap.c` |
| Fuel gauge, shell, `manet`, start-up, boards | none that matters | | |

Threads, with their RIOT priorities (a smaller number preempts): the IPv6
thread (4) runs `_route_info`, hence `aodvv2_buffer_pkt_add` and
`aodvv2_find_route`; the AODVv2 thread (6) runs the event loop, hence reader,
writer, route set and dispatch; main with the shell (7) runs `find_route`,
`seqnum_get` and `rcs add`; the VAINA server (9) adds and deletes clients.
Among equal or lower priorities a thread runs until it blocks.

What is hard: preemption inside the counter's wrap, the unlocked buffer and
the gaps of the client set; messages that are lost, reordered and heard again
through several neighbours; static message data that outlives a message;
tables that fill up (16 routes, 16 messages, 2 clients, 10 packets, the NIB)
while the code goes on; ageing that only happens when something looks;
acknowledgements that are counted in one thread and subtracted in another;
power that fails between two writes; size estimates that decide where a
message is cut, made before the bytes exist; packets that end too early;
callbacks that drop a part of what is being walked; pointers that three
structures share; allocations that fail half way. Each of these is a `hazards`
entry of `PROJECT.json`, with the properties aimed at it or the reason why there is none.

## Modules

| Module | Models | Notes |
|---|---|---|
| `Aodvv2SeqnumOps` | `seqnum.h`, conversion to 16 bits, comparison | operators, used by all of AODVv2 |
| `Aodvv2Seqnum` | `aodvv2_seqnum.c` and its three calling threads | one action per atomic operation |
| `Aodvv2SeqnumProofs` | | theorems |
| `Aodvv2MetricOps` | `aoddv2_metric.c` | operators |
| `Aodvv2LrsOps` | every function of `aodvv2_lrs.c` | operators on a table |
| `Aodvv2LrsSpec` | | abstract: a set of routes, one per destination |
| `Aodvv2Lrs` | the route set under the reader's callbacks and a clock | one action per outcome of a callback; shown to implement `Aodvv2LrsSpec` |
| `Aodvv2LrsProofs` | | theorems, the refinement of `Aodvv2LrsSpec` among them |
| `Aodvv2McmsgOps`, `Aodvv2Mcmsg` | `aodvv2_mcmsg.c`, with received and originated RREQs and a clock | the mutex makes calls atomic |
| `Aodvv2McmsgProofs` | | theorems |
| `Aodvv2Rcs` | `aodvv2_rcs.c`, the adding, deleting and seeking threads | one action per locked section |
| `Aodvv2RcsProofs` | | theorems |
| `Aodvv2Buffer` | `aodvv2_buffer.c` | `aodvv2_buffer_pkt_add` is one step, as the IPv6 thread preempts; the dispatch loop is one step per slot and, in `_pkt_del`, per assignment, in any order |
| `Aodvv2BufferProofs` | | theorems |
| `Aodvv2MessageOps` | what the writer sends and what the reader's callbacks make of it | operators; keeps the reader's confusions of fields, the one-byte read of sequence numbers and the host bits that stay |
| `Aodvv2Network` | routers of all of the above, queues, event loops, NIB, radio | composes `Aodvv2LrsOps`, `Aodvv2McmsgOps` and `Aodvv2MessageOps` |
| `Aodvv2NetworkProofs` | | theorems |
| `VainaSpec` | | abstract: what an acknowledgement promises |
| `Vaina` | both `vaina.c` and the tool, the line between them, the router's tables | shown to implement `VainaSpec` |
| `VainaProofs` | | theorems, the refinement of `VainaSpec` among them |
| `WifiSettings` | `wifisettings.c`, `nvs.c` | every call of the flash library is a step; power may fail before each |
| `OonfAvlSpec` | | abstract: an ordered multiset |
| `OonfAvl` | `avl.c`, `list.h` | every pointer; shown to implement `OonfAvlSpec` |
| `OonfAvlProofs` | | theorems, the refinement of `OonfAvlSpec` among them |
| `NetaddrOps` | `netaddr.c` | operators on 16 bytes, family and prefix length |
| `Rfc5444WriterOps` | compression, fragmentation and encoding | operators that end in bytes |
| `Rfc5444ReaderOps` | parsing, scheduling of consumers | operators that start from bytes |
| `Rfc5444` | a node's writer and reader, packets between them | one action per call of a content provider, of the node or of the network |
| `CJsonTextOps`, `CJsonHeapOps`, `CJsonCodecOps` | characters; nodes; printing and parsing | operators on a text, a heap, both |
| `CJson` | a user of the interface | one action per call |

A function of a table is an operator in an `...Ops` module, so that the module
of the single component and the composition use the same definition. The NIB,
the RIOT scheduler, the radio, the flash library, `malloc` and the IPv6 address
helpers are outside the repository or the model; they are modelled from how
the code uses them.

### State and actions

`Aodvv2Seqnum`: `seqnum` is the C atomic, `old[t]` the number a thread took
with `get` and will send, `pc[t]` where it is in get; inc; (store 1); (report).
A thread steps only while no thread of higher priority is inside a call.

`Aodvv2Lrs`: `table` is the static array, `now` the clock in seconds.
`NewRoute`, `BetterRoute`, `NoImprovement` are the three branches of the
callbacks; `GetNextHop` and `Delete` are calls; `Tick` is time.

`Aodvv2Mcmsg`: `table`, `now`, and a history variable with the last RREQ of
every foreign key that was accepted. SeqNoRtr of an originated RREQ is
uninitialised in the code and therefore any address.

`Aodvv2Rcs`: `entries` is the array, `call[t]` what a thread remembers between
two locked sections. Addresses are bit strings of length `Width`.

`Aodvv2Buffer`: `slots` is the array, `where[p]` who owns packet `p`, `disp`
the loop of the AODVv2 thread.

`Aodvv2Network`: one function over routers for every static variable
(`seqnum`, `lrs`, `mcmsg`, `msgData`, `waiting`, `queue`, `nib`), `cur[n]`, the
message the event loop has taken from its queue, and `air`. `waiting[n]` is the
buffer's array: a packet takes the first unused slot, and a dispatch empties
every slot with its destination. `RouteInfo` is
`_route_info` with `aodvv2_find_route`; `Deliver` and `Lose` are the radio;
`MsgReceive` takes a message; `SendRreq` and `SendRrep` write one;
`RefuseRreq`, `RedundantRreq`, `UselessRreq`, `AcceptRreq`, `RefuseRrep`,
`UselessRrep`, `ConsumeRrep`, `ForwardRrep` are the ways through the callbacks.
A handler is one step, its message is taken in an earlier one, so that other
threads can fill the queue in between: a message to the own full queue is
lost, as in RIOT. `air` is a set, so that two identical messages under way
between the same two routers count as one. The clock stands still: a run is
shorter than the active interval of 5 s. Clients are fixed, and prefix lengths
are 64 and 128.

`Vaina`: `peer` is who is at the other end of the line. For the Wi-Fi board,
`shell` is its shell thread between the load and the store of
`_pending_acks += 1` and between counting and sending, `pending` and `seqno` are
its static variables; its receiving thread, `Receive`, has the higher priority
and runs anywhere in between. `up` and `down` are the line, which keeps order and
loses; `table` is the router's client set and forwarding table; `Serve` is the
server's thread for one packet; `Restart` empties the tables. `asked`, `last` and
`known` are history: the number of a request, the last one about an entry, and
what the answers received say.

`WifiSettings`: `isOpen` and `handle` are what `nvs.c` keeps, `store` and `durable`
what the flash holds now and held at the last commit, `call` the call in
progress between two writes, `result` what the last one returned.

`OonfAvl`: `tree` has the fields of `struct avl_tree` and, as functions of the
node, those of `struct avl_node`: parent, children, balance, follower mark, list links.
One action per function that changes the tree; left and right are one
definition with a side. A loop, or a function that ends in a call of itself, is a
round (`FindRound`, `PostInsertRound`, ...) that `Repeat` applies as often as
there are nodes; a round with nothing left to do changes nothing, and no loop here
needs more, which the proofs show.

`Rfc5444`: `writer` is the state machine, the message's TLV buffer and its
address lists; `target` the packet under construction; `out` every packet
sent, as bytes; `asked`, `read` and `got` are history: what the creator of a
message was told is in it, which packets the reader got, and what it made of
the last one. `CreateMessage`, the four `Add...` and `Allocate...` calls and
`Finish` are `rfc5444_writer_create_message` cut where it calls the content
provider. `Receive` gives the reader a packet, whole or with its end missing,
and forwards what the reader asks to forward. The callbacks of consumers are
data: what they return is chosen by the step.

`CJson`: `h` is the heap, with the fields of `struct cJSON` for each node, `held` the
items the user holds in no list. Every public call that changes nodes is an
action; when the heap is full an allocation fails, wherever in the call it is
made. Failing allocations of names are a parameter (`oom`). Which free cell an
allocation takes does not matter, which makes the permutations of the cells a
symmetry. The two calls that build a whole document, a copy and a parse, are looked at from every
reachable heap with every number of spare cells up to `MaxSpare`: copies of
containers with three members of different types and of containers with a reference
that has content itself succeed there (`CopyIsFaithful`), and stop at each node they
would allocate. Where a text is cut right after the comma between two members,
`parse_string` reads the byte behind it (see below); whatever that byte is, the parse fails,
which is how the model has it. A document is
printed and parsed again by the user only if its members have names (a bound: a name
that was NULL comes back empty, which `RoundTrip` looks at).

## Runs

Bounds are named constants of the cfg files.

| Run | Shows | Bounds |
|---|---|---|
| `seqnum` | the counter passes its range by at most one per thread inside the wrap, a thread obtains 0 only by preempting such a thread, and the wrap is completed | three threads, wrap at 7: every preemption at the wrap happens, repeatedly |
| `lrs` | the table implements the abstract set of routes, one per destination; times that agree with states, sequence numbers kept for their lifetime, deletion complete | 2 slots, 3 destinations (the table fills), intervals 1 < 3 < 4 in the order of 5 < 205 < 300, clock to 8: installation, Idle, Expired, expunged |
| `mcmsg` | a retransmission is redundant while remembered, sequence numbers never rewind, one entry per foreign key | 2 entries, 3 keys (the set fills), numbers on both sides of the wrap |
| `rcs` | a deletion clears what it found, a lookup copies what it found, copies of a client are no more than the threads that add | 2-bit addresses with all lengths 0..3, the 2 entries of the default configuration, 3 threads |
| `buffer` | no packet is handed over twice, the loop ends | 3 packets, 2 slots: full buffer, packets coming back |
| `network` | the hops of a RREQ are accounted for, the NIB follows the route set, a next hop can carry on, a RREP has a next hop | a line of 3 routers, clients with prefixes of 64 bits (the default, `sc_aodvv2.c:34`), 2 discoveries, queues of 2, limit of 5 hops: loss, reordering, full queues, bounced RREQs, a second discovery over old state |
| `network_loop` | finding: one RREQ makes two routers each other's next hop | a star of 4 routers, clients with full addresses |
| `vaina` | no answer is on its way that is not counted; what an ACK says is true and stays true | 2 addresses and 3 prefix lengths that collide after truncation, one place in each table, 3 requests, 1 restart |
| `wifi_settings` | finding: success is reported though nothing was stored | 2 values, 3 calls |
| `oonf_avl` | all pointers agree, the tree is balanced, lookups agree with the list, the tree implements an ordered multiset; the addresses of a subnet stand together and survive their conversions | 11 nodes that are IPv4, IPv6 and MAC addresses, prefixes and hosts, two of them equal: single and double rotations on both sides, followers, removal of inner nodes |
| `rfc5444` | a message comes out of its packets as it went in, whatever blocks and fragments were chosen; buffers suffice; forwarding changes the hop fields only; a cut packet gives its whole messages, all of them; consumers see their TLVs; drops reach who they should | 4 addresses that share heads, tails and one base with two prefix lengths, message and address TLVs, a message buffer in which three addresses hardly fit, two fragments per packet, ends missing of 1, 6, 12, 30 and 45 bytes (in a TLV, an address block, a header, between two messages, in the first of two), 4 consumers of 2 orders |
| `cjson` | lists stay linked, nothing is lost or owned twice, copies and texts are faithful, cut texts leave nothing, buffers suffice, the statistics handler leaks nothing, a call edits one list in one place | documents of 4 nodes, 2 held items, 1 reference to an item with children; copying and parsing with 0 to 4 more cells (`MaxSpare`), so that they end in a whole copy or fail at each node; nesting limit 2, a name with a quote and a control character, a number above `IntMax` |

The route set of the `network` run has a free slot and the NIB one free entry
throughout; `NibServesLrs`, `NextHopCarriesOn` and `RrepHasNextHop` say so in
their conditions, because the code ignores a full table (see below).
`PacketsFit` is about messages of one prefix length, because the estimate for
mixed ones is wrong (see below).

Deadlock is not checked where a bound on the clock, on discoveries, requests,
calls or messages ends every behaviour (`lrs`, `mcmsg`, `network`, `vaina`,
`wifi_settings`, `rfc5444`).

Fairness: in `Aodvv2Seqnum`, a thread inside a call goes on once no thread of
higher priority keeps it from running (weak fairness of `Continue`), since RIOT
always dispatches the runnable thread of the highest priority; no origination
has to happen, and a thread that is preempted for ever need not go on. In
`Aodvv2Buffer`, a dispatch loop goes on and the IPv6 thread handles every packet
it gets; no RREP has to arrive. The other modules state safety only.

### Findings

The two findings are in `PROJECT.json` with the lines they contradict: the
routing loop, and the settings that report a success that was none.

How the loop comes about: the metric test of the message set
(`aodvv2_mcmsg.c:187`) accepts a bounced RREQ, which then replaces the route it
came by (`aodvv2_lrs.c:180-197` rejects almost nothing).

Known deviations that the models contain and no listed run is about.

AODVv2:
- the stale check of a route (`aodvv2_lrs.c:184`) gives `aodvv2_seqnum_cmp` its
  arguments in the wrong order: a message with a newer number offers no
  improvement, one with an older number does;
- an expunged route keeps its slot marked as used (`aodvv2_lrs.c:176`): a place of
  `Aodvv2LrsSpec` comes back only by a deletion, which nothing in the firmware calls;
- an Active route looked up after its expiration is Idle, not Expired
  (`aodvv2_lrs.c:164`);
- a RREP starts with the hops its RREQ had left: when the target answers a
  bounced copy first, that RREP dies on the way and the next is refused as
  stale, so that a discovery can fail for good without any loss;
- a RREP's metric is stored for the wrong node (`aodvv2_reader.c:185`), a
  forwarded RREP carries the forwarder's sequence number (`aodvv2_writer.c:131`),
  sequence numbers are read from one byte (`aodvv2_reader.c:328`), the host bits
  of an earlier message stay in a shorter prefix (`rfc5444_compat.c:67`);
- for the last reason, where clients of prefix length 64 and 128 ask for routes, the
  address a router reads can belong to no message at all: routers then agree on
  prefixes only, a RREP's lookup (`aodvv2_lrs_get_next_hop`, by full address) may
  miss the route that is there under another address of the prefix, and
  `assert(next_hop != NULL)` (`aodvv2.c:146`) fails. `NextHopCarriesOn` and
  `RrepHasNextHop` say which of the two cases they are about (`OneLength`);
- SeqNoRtr of an originated RREQ is left unassigned (`aodvv2.c:460`): every discovery
  of a router can add one more entry for the same message to its message set;
- packets are dispatched though the NIB refused the route
  (`aodvv2_reader.c:245`); with a full route set a RREP goes to a NULL next hop
  (`aodvv2_reader.c:287`);
- a packet added between two assignments of `_pkt_del` is lost
  (`aodvv2_buffer.c:43`); packets to a destination that never answers stay
  (`aodvv2_buffer.c:74`);
- the late store of the wrap takes back increments of other threads
  (`aodvv2_seqnum.c:38`); two threads can add the same client
  (`aodvv2_rcs.c:56`; `DuplicatesBounded` says how often at most); a message to the own full queue is lost with its memory
  (`aodvv2.c:447`).

VAINA and the Wi-Fi board:
- nobody compares sequence numbers, and they change without a lock
  (`wifi/sys/net/vaina/vaina.c:170`);
- the Wi-Fi board sends client requests without the prefix byte the server
  requires: they are never answered, and `_pending_acks` only grows;
- the two credentials are never committed, and power may fail between them;
  `get_blob` passes a length where an address is expected; the open flag is set
  whatever `nvs_open` returned; `_nvs_close` closes only what is closed;
- `tfcoap.c:123` measures the payload after freeing it, and no result of cJSON is
  looked at (`StatsLeaveNothing` shows that at least no node is lost): when printing
  fails, `strlen` gets NULL (`:119`), and a payload that does not fit is never freed;
- the pause of `bq27441.c:59-64` is as long as the time since the last command,
  not as what is left of it.

RFC 5444:
- the cost of going on with mixed prefix lengths has the wrong sign
  (`rfc5444_msg_generator.c:961`), so that such a message may outgrow its buffer;
- a fragment to which no new address fits after the first one is written for
  ever (`rfc5444_msg_generator.c:340`; the model's "LOOPS");
- an address added first as optional stays so when it is added as mandatory
  (`rfc5444_writer.c:234` against `:255`);
- a size check of a finished fragment uses what was set, not what was allocated
  (`rfc5444_msg_generator.c:1503`);
- a multivalue message TLV without indexes divides by 0
  (`rfc5444_reader.c:540`), a zero tail's length is not checked (`:852`), a single
  prefix length is read before the end is tested (`:886`);
- `netaddr_create_prefix` fills every second byte only, and
  `_subnetmask_to_prefixlen` returns one less than the length (not modelled:
  neither is used).

cJSON:
- a text that ends right after the comma between two members of an object is read
  one byte past its end: `parse_string` looks at the first character without
  `can_access_at_index` (`cJSON.c:772`, called at `:1651`). The outcome does not depend on
  the byte, for the loop that follows is bounded (`:781`);
- `cJSON_AddItemReferenceToObject` loses the reference without memory for the
  name (`cJSON.c:2076`; `NothingLost` exempts it);
- a replacement without memory for the name leaves a nameless member, which
  hides the later ones from the case sensitive search (`:2363`, `:1883`);
- `cJSON_Compare` finds an object with two equal names unequal to its copy;
- `cJSON_Minify` takes a backslash that is itself escaped for one that escapes the
  closing quote (`:2804`); an invalid `\u` sequence reads as 0;
- an array made by `cJSON_CreateIntArray` or `cJSON_Duplicate` does not know its
  last element; the next append walks to it.

## Proofs

All theorems hold for every value of the constants that satisfies the named
assumptions: any number of routers, links, threads, slots, packets or requests.
Most assumptions only say that constants are numbers, functions or subsets of
the right kind, that `::` is an address, that messages the reader lets through
do not name it, and that the sets of threads are finite. Three say something
about the program: in `Aodvv2Rcs`, `DeletersDoNotPreempt` (only the VAINA server
deletes clients, and those who look them up have a higher priority) and
`OneDeleter` (it is one thread); in `Vaina`, that a prefix length is a byte. In the
network's modules an address is a prefix and a host part and a prefix length is 64 or
128, which stand for a shorter and a longer one (what three different lengths do to each
other is not distinguished); clients may have either, in any mixture.

`Aodvv2SeqnumProofs`. `TypeCorrect` is inductive by itself: whatever the
interleaving, `seqnum` is at least 1. `OverflowIsBounded` is inductive given types: a
fetch-and-add past `SeqMax` adds its thread to the wrapping ones, and a store
brings the counter back to 1 before its thread leaves them. `ZeroIsRare` follows: the number
narrows to 0 only at `SeqMax + 1` or later, so some thread is wrapping, and
the thread that reads is not.

`Aodvv2LrsProofs`. The invariants of the table are not inductive one by one: a
lookup refreshes only the slots up to its hit, an addition relies on the
lookup that found nothing, and the lookup is sound only if live routes sit in
used slots. `IInv`, their conjunction, is. Lemmas: what one refresh can do to a
route (`ResetCases`), that any mixture of refreshed and unrefreshed slots keeps
the invariant (`PartialRefreshGood`, the loops that stop early), what a
lookup returns (`Lookup`), and that storing, clearing, adding and deleting keep
it. `TypeCorrect`, `DestinationsUnique`, `TimersAlwaysConsistent` follow from
`Invariance`, and the `lrs` run leaves the first two to the proof; `DeletionForgets`
and `SeqnumsRemembered` are action properties proved from it. `RoutesKept` is the refinement of `Aodvv2LrsSpec`, in which a table
is the set of its live routes without their ages, and the number of its unused slots.
A refresh maps to routes that go (`AgedRoutes`) and never touches a used flag, a
stored route is the only one to its destination because the lookup before it
went over the whole table (`StoreInstalls`), and the unused slots are
counted by `FreeCount`. Ages are hidden, so that what is left of every partial
refresh is `Age` or a stutter.

`Aodvv2McmsgProofs`. `RetransmissionRedundant` speaks of the last accepted RREQ of
a key, so it needs to be known that the set still holds it:
`IInv` adds `LastRemembered`, that the entry has the sequence number and metric
of that RREQ and is not removed before its time, to types and
`OneEntryPerForeignKey`. The lemma `ProcessCases` says once what `aodvv2_mcmsg_process`
can do to the table. `OneEntryPerKey` and `ForwardedOnce` follow, and
`NeverRewinds` is an action property proved from the same invariant.

`Aodvv2RcsProofs`. `IInv` is types, `Roles` (who can be in the middle of which
call) and the two properties themselves: a slot found by one locked section
is the same in the next because no other thread that changes it can run in
between. An addition only fills unused slots; deletions are excluded by the
two assumptions on priorities. `DeleteRemovesItsMatch` and
`SeekerReadsWhatItFound` follow. The argument for `CopiesBounded` is another: a thread that
finds no copy is about to store one, so while there is a copy no thread joins
the others, and when there is none each thread counts once; a store turns a thread into
a copy. That a lookup by one address finds the copies of another is
`MatchTransitive`.

`Aodvv2BufferProofs`. A slot may point to a packet that is gone, while `_pkt_del`
has not cleared it yet, and a slot may be reused between two of its
assignments. So the invariant is about the pointers that `_pkt_del` is not about to
clear (`Held`): those sit in used slots and own their packets (`Owned`),
no two of them are equal (`Unshared`), and the slot under deletion is not
given away before its `used` is cleared (`Clearing`).
`DispatchHandsOverOwned` follows: nothing is sent twice or after its release.

`Aodvv2NetworkProofs` is built in layers, each of which the next needs.
`TypeInv` says that every message under way or queued is one that some router
encoded, so that its fields exist and fit. `NextStep` shows once, for all actions,
what a step can add to queues, air, tables and message data (`Effects`); the later
layers only look at that. `HopsInv` gives `RreqHopsAreAccounted`: metric and hop
limit of a RREQ change together on every path, the reader's two callbacks
(`ReadTwo` unfolds the fold over the two addresses of a message) and the
writer included. `TablesInv` gives `NibServes`: one slot per route, one
NIB entry per route and prefix length, none without a route while the route
set has room, and an entry for every route while the NIB has room; that a
replaced entry finds the place its predecessor left is shown by counting. `CarryInv` gives `NextHopsCarryOn` and `RrepsHaveNextHop`: every router
named by a route, a queued item or a message on the air can carry packets on to
the address it stands for, and this stays true because routes are replaced but never
lost and a full route set stays full. What address that is depends on the lengths of the asking
clients. All long: the writer sends full addresses. All short: it sends prefixes, the
host bits a router fills in are those of earlier messages, and they are zero everywhere
(`GoodData`, `GoodMessage`), so that every router reads what `Told` says. Mixed: the bits may be
anything, but addresses of one prefix are `Near` each other, and what a router knows of one holds
for the others (`NearMoves`) as far as `Agreed` goes.

`VainaProofs`. `IInv` has one part for each fact the refinement rests on: the line
and the counter agree (`Counted`), requests are read and answered in their order
(`InOrder`), nothing under way is younger than the last request about its entry
(`Recent`), an ACK of that request says what the table holds (`AnswersTrue`), and what
is known is so with nothing under way to change it (`Settled`). `PendingCovers`
follows from the first; `Implements` shows that the initial states of `Vaina` map to
initial states of `VainaSpec` and every step to a step or a stutter;
`KnownIsSo` is the promise itself. A restart of the router and lost
packets are part of it.

`OonfAvlProofs`, for every finite set of nodes, every assignment of keys, with and
without duplicates, and every comparator whose answers are opposite when its
arguments are exchanged and that orders the keys (`CompAssumption`). Nothing is
assumed about the height of the tree. A tree is good (`Good`) when a sequence of
elements, a function giving every subtree and one giving every height fit its
pointers, and `IInv` says that there are such. This is needed because none of the
properties is inductive: rotations are only right if balances are the differences of
heights, a new leaf is only listed in the right place if the list has the order of
the tree, and a first follower only takes its predecessor's place without harm
because its key is equal. The parts of `Good`, with what each operation does to them:
- `Chained`, the list: adding puts an element between its neighbours
  (`AddChained`), removing joins them (`RemoveChained`), and following the links from
  the head visits the elements (`ElementsOf`);
- `Sorted`, order and followers: an element put where it belongs keeps them
  (`SortedInsert`), one taken away does too if its first follower takes its place
  (`SortedRemove`), and the walk over followers ends where they end
  (`FindLastFacts`);
- `Shape`, the search tree: kept by a rotation (`LiftShape`), by hanging an only
  child in a node's place (`HookedShape`), by one node in the place of another
  (`ReplaceShape`) and by a leaf where the search ended (`AttachShape`);
- `Leveled`, the heights: a rotation gives both nodes the balances of their new
  subtrees (`LiftLevels`); while an insertion or a removal climbs, they are those of
  the tree with one exempt node, whose subtree has grown (`InsertStep`) or lost a
  level (`RemoveStep`).

A loop keeps what it knows in a set of states for every round. A set of numbers
that contains 0 and every successor is `Nat` (`Induction`, from the library's
smallest element of a well-founded order), so the iterates of a round exist and stay
in their sets (`Iteration`); the sets shrink with the subtree, the list or the path
that is left, so the loop has ended after as many rounds as there are nodes. The
recursive functions with which the properties are stated are determined in the same
way, from the leaves to the root (`FromTheLeaves`, `BelowIs`, `HeightIs`).
`KeepsOrderHolds` is the refinement: empty trees map to empty sequences, and every step
to one of the specification or a stutter (`StepOrdered`; an insertion refused as a
duplicate is the stutter). `WellFormedHolds` reads the invariant back from the pointers.
`LookupsAgreeHolds` follows the search down (`FindRecFacts`) and the two loops of the
inexact lookups along the list (`RetreatFacts`, `AdvanceFacts`).

Only model-checked:
- liveness (`OverflowRepaired`, `DispatchTerminates`), which is beyond the prover;
- RFC 5444 and cJSON: what they make of bytes, texts and nested lists is defined
  by operators that call themselves, which the prover cannot reason about. The runs
  check what they compute against each other and against what was asked;
- the addresses (`SubnetsContiguous`, `AddressesSurvive`): properties of 16 given
  bytes, which the container's run evaluates;
- the two findings, `LoopFree` and the one about the settings, which are
  counterexamples.

## Not modelled, and why

- Start-up sequences, boards, shell and argument parsing, `manet`: straight-line
  I/O without state of their own. The order of steps inside `aodvv2_init`.
- The fuel gauge driver: one thread reads and writes registers in sequence.
- AODVv2: memory exhaustion and GET/SET requests of the event loop.
- RFC 5444: several targets, post-processors, packet consumers, start and
  per-TLV callbacks, copied values, the drop flag of entries, repeated TLVs
  (`allow_dup`), failing allocations; `rfc5444_print.c`, `autobuf.c`, `string.c`,
  `bitmap256.c` and the string conversions of `netaddr.c` are text output and
  helpers that the firmware does not use.
- cJSON: fractions, exponents and NaN (numbers are whole), the memory of
  strings, the hooks, `cJSON_Create...Reference`, `cJSON_PrintBuffered`, the type
  predicates and a failing `realloc`.

## Plan

Done: the sets, buffer, messages and network of AODVv2; VAINA and the settings;
containers, addresses, RFC 5444 and cJSON; proofs for the counter, the route set,
the message set, the client set, the buffer, the network, VAINA and the
containers; the refinements of the route set, VAINA and the containers.

Left, in this order:
1. `Aodvv2Network` with ageing, restarts (a router that starts again at 1) and
   duplicated messages; the preemption between `get` and `inc`.
2. `Aodvv2Init`: which threads can see uninitialised sets.

## Running

    tlc -config MCAodvv2Lrs.cfg MCAodvv2Lrs
    tlapm Aodvv2LrsProofs.tla

`OonfAvlProofs` takes about a quarter of an hour.

Definitions marked "Variant" are never used: each is a plausible mistake in the
definition that follows it and breaks the property `PROJECT.json` names.
