# nose: a TLA+ model of the peer-to-peer VPN

nose connects two machines, both usually behind a NAT, by a VPN link over UDP.
A *peer* process finds out its external address with STUN, registers it with a
*master peer*, asks the master peer for the address of the remote peer, punches
a hole with HELLO packets, and then forwards what it reads from a tun device.
Master peers exchange the registrations they hold. The repository also carries
the STUN server and client (Stuntman) the peers depend on. This directory models
that system, checks the model with TLC and proves its central invariants with
TLAPS.

Paths below are relative to the repository (`src/peer.c` is `src/src/peer.c` in
`PROJECT.json`, which maps every definition to its lines).

## 1. Inventory

| component | state | operations | interacts with |
|---|---|---|---|
| peer session, `src/peer.c` | `helloed`, `syn_counts`, `remote_peer_addr`, the timers `fp_event`, `hello_event`, `hb_event`, `tun_fd`, reader threads | `registry_peer`, `find_remote_peer`, `udp_holing_hello`, `peer_heartbeat`, `udp_recv_cb`/`recved_pkt_unpack`, `recv_tun_device_thread`, `cancel_handle` | master peer (synchronous calls), remote peer (UDP), tun device |
| PCP packets, `src/pcp.c` | none | five builders | peer session |
| tun device, `src/linux/device.c` (and `src/bsd/`) | persistent devices of the machine | `utun_open`, `utun_read`, `utun_write`, `utun_close` | peer session; outlives the process |
| bucket, `src/bucket.c` | array of items, one mutex | `push_front_bucket`, `get_top_bucket_items`, `get_item_by_vlan_ipv4`, ... | master peer, PMP |
| master peer, `src/master_peer.c` | bucket of peers, bucket of masters, three timers | `udp_recv_cb` (PING, DISC, G_PS, R_P, F_P), `ping_peer`, `discovery_proc`, `get_peers` | peers, one neighbour |
| PMP packets, `src/pmp.c` | none | builders and unpackers; the unpackers push into buckets | peer session, master peer |
| synchronous UDP calls, `src/udp.c` | one socket per call | `send_udp_pkt`, `recv_udp_pkt` | master peer, `find_remote_peer` |
| NAT test, `src/stun/nat_test.c` | the request outstanding, the external address | `do_test` (Tests I, II, and I again) | STUN server, NAT |
| configuration, `src/conf/conf-reader.c` | list of key and value | `conf_parser`, `get_value` | `main` |
| VPN automaton, `src/dfa.c`, `src/vpn.c`; `src/auth.c`, `src/key_neg.c` | current state | `set_next_dfa_state` | nothing yet: the calls in `peer.c` are TODOs |
| crypt, net_config, utils | none | library and shell calls | peer session |
| STUN messages, `stunserver/stuncore` | the reader's parse state | builder, reader, request handler, authentication providers of `server/sampleauthprovider.cpp` | UDP and TCP server, client |
| STUN client, `stunserver/client`, `stuncore/stunclient*` | list of tests, tries, results | `GetNextMessage`, `ProcessResponse`, the loops over UDP and TCP | server, NAT |
| TCP server, `server/tcpserver.cpp`, `stunconnection.cpp` | pool, two connection tables, poll object, pipe, flag | accept, receive, write, close, sweep, start, stop | clients, the thread's owner |
| UDP server, `server/server.cpp`, `stunsocketthread.cpp`, `networkutils/ratelimiter.cpp` | threads, sockets, table of senders | receive loop, rate check, start, stop | clients, main |
| server program, `server/main.cpp`, `networkutils/adapters.cpp` | the servers started | configuration, start of several servers, stop | operating system |
| polling, hash table, `networkutils/polling.cpp`, `common/fasthash.h` | descriptors and a batch of events; chains and an index | add, remove, wait; insert, remove, lookup | TCP server, rate limiter |

What is hard here: packets are lost and reordered and acks carry no number; a
handler's effect depends on timers armed by other handlers; processes die while
registrations and tun devices live on; a master answers nobody while it waits
for its neighbour; a full bucket stops its owner. In the STUN server events of a
batch outlive the socket they belong to, objects and descriptors are used again,
two threads meet at stop; in the client late answers meet later tests.
`PROJECT.json` lists these hazards at their lines, with the properties that cover
them.

What makes the components correct:

* peer session: the chain of timers never breaks, device and session agree, a
  session is given up neither early nor never, and comes back;
* master peer and bucket: an acknowledged peer can be found, at its newest
  address, at every master; a master keeps serving;
* NAT test and STUN client: they end, and report nothing the NAT is not;
* STUN messages: however a message is cut into pieces it is read the same, an
  answer says what the server saw, and only the holder of a password gets one;
* STUN servers: no socket, object or table entry is lost or mixed up, requests
  are answered, stop returns, a failed start leaves nothing behind;
* configuration: what is written is what is read.

## 2. Modules

### PeerSession

Two peers, the network between them, and of each machine the tun devices left
on it. A libevent handler runs to its end, so one handler (or one case of
`recved_pkt_unpack`) is one action; a timer is a flag "event pending", and a
pending event may fire at any time. That over-approximates the delays of 1, 5
and 30 seconds, so every order of timers and packets is covered.

| code | model |
|---|---|
| `registry_peer`, `peer_loop` | `Start`: enter the loop registered, or register and exit |
| `find_remote_peer` | `FindRemotePeerOk`, `FindRemotePeerFailed` |
| `udp_holing_hello` | `UdpHolingHello` |
| `peer_heartbeat` | `HeartbeatSend`, `HeartbeatBroken` |
| `udp_recv_cb`, `recved_pkt_unpack` | `RecvUnknownSource`, `RecvHelloSyn`, `RecvHelloAck{Opens,Fails,Drop}`, `RecvHbSyn`, `RecvHbAck`, `RecvPayload` |
| `recv_tun_device_thread` | `TunRead`, `TunReadParked`, `ReaderEnds` |
| `utun_open`, `utun_close` | `UtunOpens`, `DevsAfterOpen`, `UtunClose` |
| `cancel_handle`, or a kill | `Crash`; the next `Start` is the restart |
| UDP (external) | `Put`, `Take`, `Lose`: at most `MaxFlight` packets of one kind to one peer; one more is lost |

Points where the code is subtle and the model follows it:

* `tun_fd` is a static int: it is 0 until the first `utun_open`, and after
  `utun_close` keeps a number that names nothing (`Fd`).
* `utun_open` creates *persistent* devices with `IFF_TUN_EXCL`; `utun_close`
  asks TUNSETIFF first, which fails on a descriptor that is attached, and so
  never takes the persistence back. `devs` counts what is left behind and
  survives a restart. With the last name `id` ends at 256 and the call reports
  an error although it created the device.
* a thread blocked in `read()` of a device that is closed stays blocked, keeps
  the device alive, and forwards the packet it gets one day: `parked` of the
  `readers`. At a breakage any number of the threads may be in that state.
* `syn_counts++` is done for every ack. Acks carry no number, so the ghost
  field `late` of heartbeat packets and the ghost variable `unacked` record
  which connection a packet belongs to. No guard reads a ghost.

* a `compress()` that fails ends the reader thread (`ReaderEnds`, `peer.c:294`),
  where every other failure of its loop goes on with the next packet; and
  `pthread_create` reports a failure by a positive number, which `< 0`
  (`peer.c:355`) takes for success (`started` in `RecvHelloAckOpens`). Either way
  the session stays up with an open device that nobody reads, until it breaks.

Abstractions: payload contents and encryption are left out (a read, an encryption
or an unpacking that fails drops the packet, as a loss does). The external address
of a peer is taken to be the same after a restart. A send that fails locally is a
loss.

### Bucket and MasterPeer

`Bucket` has the operations of `bucket.c` as functions of a sequence, newest
item last, and `Blocks`, the condition under which a push never returns: the
bucket is full, and `pop_back_bucket` locks the mutex its caller holds.

`MasterPeer` has the master peers, each configured with one neighbour, and the
*runs* of peer processes, each with its node id and address. `registry_peer` is
modelled with its tries, lost requests, lost answers and answers to earlier
tries (`Start`, `Retry`, `Registered`, `Exit`, `LosePeerPacket`,
`ServeRegistry`). The three timers of a master call the neighbour and wait
inside the event loop: `Ask`, then `Answered`, `GotPeers` or `Timeout`;
meanwhile the master is not `Idle` and serves nobody. `ServeRequest` answers.
Each call has a socket of its own, so an answer after the timeout reaches
nobody. F_P only reads: it is the operator `Find`.

* A discovery response is always refused, because its count is read without
  `ntohs`; so it is, like a ping, a call that changes no bucket (`PROBE`), and
  the bucket of masters keeps its one configured item.
* `PMP_get_peers_rsp_unpack` copies 20 bytes of a node id into an uninitialised
  item with 21: the byte after them is a free choice from `Byte` per response,
  and part of the id as `strcmp` sees it.
* A response to G_PS has the newest items only (`GossipLimit`; 10 of up to 255 in
  the code), newest first, and they are pushed in that order. What newer
  registrations have pushed below that limit is told to nobody any more.

Not modelled: a restart of a master peer; the descriptors that are never
closed; the port and NAT class of an item (they travel with the address).

### STUN messages: StunBuilder, StunReader, StunAuth, StunHandler, StunStream

A message is a record of its type field, stated length, transaction id and
attributes; an attribute has a type, a stated size and a value. Lengths are kept
in bytes, with padding, because the reader and the digests depend on them; the
values are terms. `HMAC`, `MD5` and `CRC` are injective terms over the text they
cover, so that a digest matches just when key and text do, including the length
field as it stood when the digest was made (`Text`). `Xor` is the exclusive or with
a word of four bits, as large as the model's cookie and transaction ids are.

`StunReader` is fed byte counts: `AddBytes` takes the header when it is there,
then the body, then refuses more (`HeaderStep`, `BodyStep`, `OverrunStep`).
`StunHandler` is `CStunRequestHandler` as one function of the request, the
address set and the provider: `ValidateAuth`, then `ProcessBindingRequest` with
its refusals, choice of socket, other and origin address and seal.
`StunStream` sends one request, made with or without credentials and perhaps
changed on the way, through the reader in pieces and answers it.

Things the model follows that a reader would not expect: the long term provider
looks the password up under the *nonce* in place of the realm
(`sampleauthprovider.cpp:119`) and computes the nonce's digest over the time
*with* its colon when it makes one, *without* when it checks one; so no long term
request succeeds, and `OnlyAuthorized` promises success to the short term
provider's users only. The providers are samples that the server as built does
not install.

### NAT discovery: StunClient, NatTest, ServerConfig, StunDiscovery

`ServerConfig` goes from arguments and adapters to the address set of a server.
`StunClient` is `CStunClientLogic` with its tests as functions of a record: which
test is current, tries, transaction ids, results. `NatTest` is the peer's own
test: `Decide` is the tree of `do_test`.

`StunDiscovery` puts either program behind a NAT with one of four mapping and
three filtering behaviours, in front of a server with one of several address
sets. `net` holds the packets as seen outside the NAT, `opened` what the NAT has
let out. Packets are lost (never taken), late and reordered; for the STUN client
they are also repeated. `MappedAddress`, `Allowed` and `PublicAddress` are the
environment, and the answers are computed by `StunHandler`.

`TcpClientLoop` is `TcpRound`, which connects and sends (`TcpConnect`), and
`TcpReceive`. A connection may be refused, break while sending, be cut off before
or after the first byte, be reset, or stay silent: `recv` (`clientmain.cpp:442`)
has no timeout, so nothing makes `TcpReceive` happen. A connection cut off before
its first byte leaves the request in the buffer, and the logic is given that to
look at. After such a connection `GetNextMessage` gives the test up if three
seconds have passed, and otherwise answers "still waiting", on which the loop ends
without results (`TcpStillWaiting`). The comment at `clientmain.cpp:377` has it
that this never happens, as the timeout is 0; the logic replaces the 0 by 3
(`stunclientlogic.cpp:91`).

Limits of the code that the properties leave room for:

* Over TCP the client connects anew for each test; without `--localport` each
  connection has another port and the behaviour test compares mappings of
  different sockets, so `BehaviorRight` asks for a fixed port. The filtering
  test over TCP is left out of the full mode but not of `--mode filtering`;
  `FilteringNeverTooOpen` is about UDP.
* `nat_test.c` looks at neither type nor id of an answer (it copies 12 of the id's
  16 bytes and compares none): `NatVerdictSound` is for a network that does not repeat
  packets. Behind a NAT the second Test I compares the external with the
  private address, so RESTRICTED and PORT_RESTRICTED do not come out and
  `SYM_NAT` stands for all of them; `test3` is never called. Hence soundness of
  the open verdicts only.

### TcpServer, ConnTracker, FastHash, Poller, PollSet

`TcpServer` is one `CTCPStunThread`: from `WaitForNextEvent` to the sweep is one
step (`Run`), the sweep and the next loop's preparation another
(`SweepDeadConnections`), since only the flag, the pipe and the kernel can change
in between. All that the handlers touch is one record `s`, so that
`AcceptConnection` can call `ReceiveBytesForConnection`, that one
`WriteBytesForConnection`, and that one `CloseConnection`, as in the code.
Descriptors are numbers and the lowest free one is given out, so they are used
again at once; connection objects come from the pool of `stunconnection.cpp` and
are used again as well; the events of a batch are handed out one by one from
`CEpoll`'s array, also those of descriptors removed meanwhile. A message has two
units, of which the first is the header, an answer two; a client's window takes
one until it reads. Clients send requests, indications and garbage, stall, and
leave by FIN or RST; a rate limiter, asked once at the accept and once for a
message, may turn anyone away each time.

`ConnTracker` is what the two tables promise: a connection is fresh, then stale,
then gone. `TcpServer` implements it (`Tracker`, a refinement mapping from the
two hash tables to two sets), liveness included.

Sockets are given out from `Pipe + 1` upwards and `NoSock` is -1, as in the code;
the listen sockets are set in the order of their roles (`SetEachListenSocket`).
The parts of a handler that change the record (`Accepted`, `Entered`, `Refused`,
`RecvUnits`, `StartAnswer`, `SendUnits`, `AnswerOut`, `CloseFirst`) have names of
their own, because the proofs have one lemma for each; `CloseAllConnections` is a
recursive function of the number of entries left.

`FastHash` has the table with chains, free list and the index that is rebuilt
when a position is asked for; `Poller` the two poll objects. `PollSet` uses
`CPoll`, the one for systems without epoll, with sockets that come and go.

### UdpServer and RateLimiter

`CStunServer` in both threading modes: `Start` one thread after the other,
`Stop` in its three passes, and the loop of `CStunSocketThread::Run` split where
the flag may change. The rate limiter is asked about `_msgIn.addrRemote`, which a
failed receive leaves as it was. The limiter's numbers are constants of the
model, and counts stop at `CountCap`. Before the first receive `addrRemote` is the
default address 0.0.0.0, which is nobody's; the model has `Self` there, which is no
client's either, so that a source is always one of a finite set.

### ServerMain, ConfReader, Dfa, Components

`ServerMain` starts the servers of a configuration file socket by socket, so that
a failure can come between any two. `ConfReader` and `Dfa` are algorithms of nose
itself. `Components` joins the parts that share no state with each other, so that
one run can check them: a behaviour picks one part at its start.

`conf_parser` cuts one character off a line's rest whatever it is. `ConfExact`
promises the value of lines that end in a line feed; a CRLF file keeps its `\r`,
and a last line without line feed loses its last character (several shipped
`.conf` files end so). Lines without `=`, an empty value on a last line without a
line feed (for both the length that is computed is negative) and lines longer than
the buffer of `fgets` are not modelled. `set_next_dfa_state` searches the state's column first,
which walks arrows backwards: in `S_RUN`, `C_KEY_EXEC_SUCCESS` leads back to
`S_KEY_EX`. `DfaFollowsMatrix` says that no arrow of the matrix is missed for
that; nothing in the built program uses the automaton.

### Proofs and MC modules

`PeerSessionProofs`, `MasterPeerProofs`, `UdpServerProofs`, `TcpServerProofs` and
`PollSetProofs` have the theorems about those modules, `ComponentsProofs` those
about the parts that `Components` joins. `FastHashProofs` has lemmas about each
operation of the hash table, which the proofs of the two servers and of the poll
set use; `NatLemmas` has the principle of the least number, the greatest one
below a bound, and walks around a ring. The `MC` modules are the instances for
TLC.

Definitions commented "Mutant" are plausible wrong versions of an operation.
They are in no next-state relation; each shows that some property depends on
the code being as it is.

## 3. Runs

| run | instance | checks |
|---|---|---|
| `session_safety` | both peers, one session each, both killed and restarted up to once, symmetric | `TypeOK`, `TimerDiscipline`, `TunFollowsSession`, `MutualKnowledge`, `BreakOnlyAfterThree` |
| `session_reconnect` | peer pa has a second session after its first breaks or after a restart; both killed up to once | `CreditBound`, `BreakOnlyAfterThree` |
| `session_liveness` | peer pa may have two sessions; fair | `SessionEstablished` |
| `session_dead_peer` | peer pb may be killed; fair | `DeadPeerDetected` |
| `registry` | two masters, a peer at each, one retry, two values of the stray byte, bucket of 3, responses of 2 items | `TypeOK`, `NoDuplicateIds`, `AckedIsFindable`, `StuckOnlyWhenFull`, `RegistrationSpreads` |
| `tcp_server` | two listen sockets, limit of one connection, two clients (a request and then garbage; an indication), rate limiter; fair | `TypeOK`, `ConnectionsTracked`, `ReaderFollowsStream`, `NothingLeftOpen`, `ImplementsTracker`, `RequestsAnswered`, `StopReturns` |
| `udp_server` | two sockets, one thread or two, one client, a limiter with room for one address, two failing receives; fair | `TypeOK`, `LimiterSound`, `RefusedOnlyFlooders`, `NoSocketStarves`, `StopReturns` |
| `components` | discovery: both programs, every mode, NAT and four servers; stream: every kind of request; main: five files; poll: three sockets; files of one or two lines; the automaton; fair | `TypeOK`, `BehaviorRight`, `FilteringNeverTooOpen`, `ExactWhenPrompt`, `NatVerdictSound`, `DiscoveryEnds`, `ChunkingIrrelevant`, `AnswerReadsBack`, `OnlyAuthorized`, `ServersAllOrNone`, `PollConsistent`, `EveryoneGetsATurn`, `ConfExact`, `DfaFollowsMatrix` |
| `session_late_acks` | two sessions of peer pa, one of pb, no restart | violated: `ThreeUnackedMeansBroken` |
| `session_early_payload` | one session each | violated: `PayloadGoesToTun` |
| `session_dev_leak` | one session each; fair | violated: `BrokenSessionReturns` |
| `gossip_newest` | one peer that restarts, two masters | violated: `NewestEverywhere` |

What they show:

* *Timers.* Whatever comes in whatever order, a peer in its loop asks until it
  knows the remote address, greets until it has a session, and has a heartbeat
  exactly while it has one.
* *Device.* It is open exactly during a session, and threads do not pile up: with
  the parked ones they are at most one per device opened. That an open device is
  read is not so, see above, and no line of the repository says that it is.
* *Handshake.* A HELLO_ACK comes only from a process that knows this peer.
* *Heartbeat.* No connection is declared broken before three of its own
  heartbeats are unanswered, and a dead remote is always noticed. But an ack of
  an earlier connection counts for the next one, which is then declared broken
  later than the comment at `peer.c:224` says (`session_late_acks`); by how
  much is what `CreditBound` limits.
* *Payload* may arrive before the own HELLO_ACK, and is then written to
  standard input (`session_early_payload`).
* *Reconnection* works until the names of tun devices are used up by the
  persistent ones left behind; from then on both peers greet and answer each
  other for ever without a session (`session_dev_leak`).
* *Registry.* Retries, losses and gossip keep ids unique and an acknowledged
  peer findable, and only distinct ids fill a bucket, each at most once per
  value of the stray byte.
* *Gossip* spreads every registration that stays among the newest of its master
  until it is told. Two registrations of one peer, its old and its new address, arrive in reverse order: the neighbour answers with
  the old one (`gossip_newest`).
* *STUN client.* Late and repeated answers never change a class; filtering is
  never reported more open than it is; with prompt answers every class is exact;
  and every program ends, except that a silent TCP server holds the client in
  `recv` for ever.
* *STUN messages.* Cutting a message anywhere makes no difference; what is
  answered is the sender's address, in the request's format; nobody gets in
  without the password over the message as it arrived.
* *TCP server.* Left-over events, reused descriptors and reused objects mix up no
  two clients; a connection is gone by its second sweep; whoever waits in the
  backlog is served or closed; stop returns with everything closed. Sweeping goes
  by age: a connection that is in use is closed like a silent one, though the
  comment at `tcpserver.cpp:422` speaks of those "we haven't heard from".
* *UDP server.* Stop reaches every thread, no socket starves, and only senders
  that reached the limiter's threshold are refused, if failed receives, which the
  code charges to the sender before, are counted.
* *Server program.* A failed start leaves no socket of the failed server, and
  main waits only when all servers run. (It exits with 0 then, too.)

### Bounds, and why they are enough

`MaxFlight = 1`: one packet per kind and direction. Kinds are reordered against
each other, and two acks are only ever told apart by `late`; the proofs hold for
every `MaxFlight`. `NumDev`: n names allow n - 1 sessions (the last one fails),
so 2 allows one session and its breakage, 3 a second session with leftovers of
the first; at 1 the peer acknowledges greetings and heartbeats but never has a
session of its own, which keeps the liveness instances small. The code has 256.
`MaxCrash` is per peer, and 1 is what it takes to have state of an earlier
process in the network. `session_safety` uses symmetry (the peers are
interchangeable there); no liveness run does.

`MaxBucket = 3` in place of 255, with two ids and two stray bytes, lets a bucket
fill and block. `GossipLimit = 2` in place of 10 is below that, so that responses
are cut. `MaxTry` gives each run its tries: two and one in `registry`, the
code's four in `gossip_newest`. The `MasterPeer` runs do not check for deadlock,
because a state in which all processes have ended and both masters hang in `pop_back_bucket` is reachable
and real. The `PeerSession`, `TcpServer` and `UdpServer` runs check for it;
`components` does not, since its programs end.

`tcp_server`: with a limit of one and two clients a backlog waits, a descriptor
and an object are used again and both tables are in use; two units are the least
that can be cut, a window of one the least that makes a write wait;
the proofs of its invariants hold for every limit, window, script and pool. Going above
the limit by a batch with an accept for each listen socket needs a third client
(448 000 states and more, too slow with liveness): the run does not cover it,
the proofs of the invariants do.
`udp_server`: `Times` 1, 2, 5 with intervals of 1 give a rate above and below the
limit, a penalty that runs out and one that does not; `MIN_COUNT_FOR_CONSIDERATION`
is 3 and `CountCap` 4 in place of 60 and no cap; `MaxFailures` is 2; buffers hold
one datagram, so that the datagram for stop meets a full one. `components`:
`Pieces` of 5 bytes cut headers and attributes in the middle, together with what
the reader asks for; `MaxDrop` is 2 closed sockets of three; the client's own
retries are not cut down (two over UDP, one over TCP).

### Fairness

`FairSpec` assumes of each peer: a pending timer fires (weak; libevent);
`find_remote_peer` succeeds if it can again and again (strong; it is repeated
every 5 seconds, and each try needs one answered datagram); HELLO packets that
are sent again and again are delivered again and again (strong; the loop greets
every second). Nothing is assumed of starts, readers, payload or heartbeat
packets: the network may lose every single ack.

`registry` has no fairness in its specification. `RegistrationSpreads` has its
assumption as a premise, for each master: its `get_peers` keeps being answered.
The code does not guarantee that: two masters that ask each other in step both
wait out their timeout, for ever if their timers never drift.

`TcpServer` and `UdpServer` assume that threads are scheduled, that `Stop` goes on
once begun, that time passes, and of TCP clients that they read what they are
sent (a client that does not is closed by the second sweep, but then the sweep is
what ends the wait). Nothing is assumed of arrivals or leaving. `ThreadMoves` says
when the thread can step and what that does to `pc`: it is weak fairness of
`Thread` in a form TLC evaluates cheaply. `StunDiscovery` assumes that waiting
over UDP ends, since `select` and `recvfrom` have timeouts (`ProgramMoves`), and
nothing of the `recv` of a TCP connection, which has none: `DiscoveryEnds` says that
a program ends or stays in that `recv`. `PollSet` assumes that
the thread keeps calling `WaitForNextEvent` (`Served`); packets need not arrive.

## 4. Proofs

`PeerSessionProofs` proves, for any two peers, any `NumDev`, `MaxFlight` and
`MaxCrash` (the three named assumptions of `PeerSession`):

| theorem | statement | inductive invariant |
|---|---|---|
| `TypeCorrect` | `Spec => []TypeOK` | `TypeOK` |
| `TimersInStep` | `Spec => []TimerDiscipline` | `ControlInv` |
| `TunInStep` | `Spec => []TunFollowsSession` | `ControlInv` |
| `BreakNeedsThree` | `Spec => BreakOnlyAfterThree` | `Ledger` |
| `SessionIsMutual` | `Spec => []MutualKnowledge` | `Knowledge` |
| `CreditIsBounded` | `Spec => []CreditBound` | `Credit` |

* `TypeOK` is inductive; the step that needs care is that `syn_counts` stays a
  natural number although `peer_heartbeat` decrements it and tests only for
  zero.
* `ControlInv` joins the two control properties, since neither is preserved
  without the other (`hb` tells a breakage that the device is open), and adds that
  a resolved address belongs to a running process. That readers never outnumber
  the devices needs that a thread is only started when `utun_open` has created one.
* `Ledger`: `syn_counts + unacked >= 3`. Each heartbeat moves one unit from the
  first to the second; an ack of this connection moves one back, a late ack adds
  to the first only. With `syn_counts = 0`, three are unanswered.
* `Knowledge`: `MutualKnowledge` extended to every HELLO_ACK in flight (as long
  as the sender was never restarted), because the session is opened by a packet
  that was sent some time before.
* `Credit` is `CreditBound` over the network as a parameter. The lemmas
  `CopiesPut`, `CopiesTake` and `CopiesForsake` say what each network operation
  does to the number of packets of a kind; a breakage hands out three units, and
  the device it leaves behind pays for them.

`MasterPeerProofs` proves, for any masters, runs, tries, gossip limit, bucket size
and finite set of stray bytes (`MasterAssumption`, `MaxBucketAssumption`):

| theorem | statement |
|---|---|
| `TypeCorrect` | `Spec => []TypeOK` |
| `NoDuplicates` | `Spec => []NoDuplicateIds` |
| `RegisteredIsFound` | `Spec => []AckedIsFindable` |
| `StuckMeansFull` | `Spec => []StuckOnlyWhenFull` |

One invariant carries all four. `BucketsOK` says that a bucket has each id once and
only items of runs that have started; for that `AnswersOK` says the same of the
items in an answer on its way, and `RequestsOK` that a request in an inbox belongs
to a master that still waits for it. `HomeOK` has `AckedIsFindable` for every
acknowledgement in flight, and in terms of ids: a push leaves a known id with the
item that came first, perhaps of another run, and only `IdsApart` (a premise inside the property, since `utils.c:83` does not
guarantee it) turns "the id is there" into "the vlan address is there".
`StuckOK` counts: a full bucket with unique ids has `MaxBucket` of the ids that the
started runs can have, and the one that does not fit is one more. A response is
pushed item by item; that the pushes together keep the invariant is shown by the
least item at which it would fail.

`FastHashProofs` is about the table of `fasthash.h`. `Well` says: the record has
its shape; every node is in one chain or in the free list, once (`Linked`); a node is
in the chain of its key (`Hashed`); keys are different (`KeysApart`); and a valid
index has the nodes in use, each once, in a circular range (`Listed`). Each of
insert, remove, reset, lookup and lookup by position keeps `Well` and does to the
set of keys what its name says, for any size and any width; `Well` implies the
`IndexSound` that the runs check. The servers use the table under the name `H`, the
lemmas under `HP`: `SameTable` and `SameSound` say that both are the same.

`UdpServerProofs` proves, for any roles, sources, buffer length, table size, clock
values and limiter numbers (`UdpAssumption`, `LimiterAssumption`):

| theorem | statement |
|---|---|
| `Invariant` | `Spec => []IInv` |
| `TypeCorrect` | `Spec => []TypeOK` |
| `LimiterInOrder` | `Spec => []LimiterSound` |
| `OnlyFloodersRefused` | `Spec => []RefusedOnlyFlooders` |

`RefusedOnlyFlooders` alone is far from inductive: a refusal follows from a count in
the table, which follows from datagrams that waited in a socket. `FloodOK` says of
each source below the threshold that it is `Innocent`: its count and its datagrams
still waiting are together no more than what arrived from it and the failed
receives, and it has no penalty. A receive moves one from the waiting to the
counted; a failed one, which the code charges to the sender before, is paid by
`failures`. That the count worth looking at is at least 2 is an assumption; the
code has 60.

`TcpServerProofs` proves, for any finite set of clients and any scripts, windows,
limits and pool growth, with or without a limiter (`TcpAssumption`):

| theorem | statement |
|---|---|
| `Invariant` | `Spec => []IInv` |
| `TypeCorrect` | `Spec => []TypeOK` |
| `Tracked` | `Spec => []ConnectionsTracked` |
| `ReadersFollow` | `Spec => []ReaderFollowsStream` |
| `LeavesNothingOpen` | `Spec => []NothingLeftOpen` |
| `ImplementsTrackerSteps` | `Spec => Tracker!Init /\ [][Tracker!Next]_Tracker!vars` |

`IInv` is `Control` (which phases and program counters go together, and that no
connection is open before and after the thread runs) and `Inv(s, Extra, {})`. `Inv`
is about the record that the handlers pass to each other and has a parameter `X`,
the objects in the hands of a handler at that moment: pool, sockets, backlogs, tables
and polled descriptors are in order, and each live object outside `X` is entered in
the tables (`Held`) and has read and answered its client's stream (`Follows`). With
`X` the lemmas follow the calls of the code: `CloseStep`, `TouchStep`, `WriteStep`,
`ReceiveStep`, `OpenStep`, `AcceptStep`, `CloseAllStep`, `SweepStep`, `ListenStep` and
`ResetStep` say what each handler does to a record with `Inv`, whoever calls it. An
event left over in a batch for a closed descriptor is harmless: `Inv` says nothing
of the events that wait, and `HandleStep` holds for every descriptor. One lemma per action then gives
`IInv'` and which step of `ConnTracker` (or stutter) it is.

`PollSetProofs` proves of `PollSpec`, the poll set on its own, for any finite set of
descriptors and any `MaxDrop` (`FdAssumption`, `FdPrimeAssumption`), and
`ComponentsProofs` of `Components`, for any values of its constants that satisfy the
assumptions below:

| theorem | statement | invariant | rests on |
|---|---|---|---|
| `PollInvariant`, `PollAlwaysConsistent` | `PollSpec => []PollConsistent` | `IInv` | `FdAssumption`, `FdPrimeAssumption` |
| `ComponentsPoll`, `ComponentsPollConsistent` | `Spec => PollSpec`, `Spec => []PollConsistent` | | the same |
| `DfaAlwaysFollowsMatrix` | `Spec => []DfaFollowsMatrix` | `DfaInv` | nothing |
| `ConfAlwaysExact` | `Spec => []ConfExact` | `ConfInv` | `ConfAssumption` |
| `MainInvariant`, `ServersAlwaysAllOrNone` | `Spec => []ServersAllOrNone` | `MainInv` | `ServerFilesAssumption` |
| `StreamInvariant`, `ChunkingAlwaysIrrelevant` | `Spec => []ChunkingIrrelevant` | `StreamInv` | `StreamAssumption` |
| `AnswersAlwaysReadBack` | `Spec => []AnswerReadsBack` | `StreamInv` | `StreamAssumption` |
| `OnlyEverAuthorized` | `Spec => []OnlyAuthorized` | `StreamInv` | `StreamAssumption` |
| `NatInvariant`, `NatVerdictAlwaysSound` | `Spec => []NatVerdictSound` | `NatInv` | `DiscoveryAssumption`, `ServersAssumption` |

* *Poll set.* `IInv`: the hash table is `Well` and leads from every socket to its
  place in the array and from no other number (`Tracked`). A removal moves the last
  socket into the gap and must correct its entry; `FastHashProofs` says what the
  table does then. A mark in the array is only on a socket that has got data since
  it was added (`Genuine`).
* *Automaton.* A condition stands in one cell of the matrix (`OneCell`), so the
  column that is searched first can only lead back from another state's arrow.
* *Configuration.* `ConfInv`: the items are what the lines give. What is cut off a
  line is its line feed (`ParsedLine`), and the first item under a key is the one
  found (`FirstFound`).
* *Server program.* `MainInv` says for each state of `main` which sockets belong to
  which server: `Running` those before `next` with all of theirs, `Opening` the one
  that is being started up to its next role, `Owned` that nobody else has any,
  `Apart` that two sockets never have the same port on one address, which a bind
  checks.
* *Streams.* `Known(w, size)` is the reader after `size` bytes of `w`, as a closed
  formula. `StreamInv` says that the reader is always that, whatever the pieces; the
  lemmas about `AddBytes` step over header, body and overrun. Its hypothesis
  (`WellFormed`) holds of every message the builder makes: the lemmas on
  `AddAttribute` count attributes and bytes (`Room`), so that the bound on a message
  is shown for every request and every answer.
* *Answers.* The client's parse of an answer is determined attribute by attribute
  (`LookupGrows`: an attribute that is added hides none and changes none of another
  type). `XorBack` shows that the mapped address comes back from its exclusive or. A
  digest covers the length field, type, id and attributes before it, so a password
  or a fingerprint is right exactly when nothing changed (`SameText`); that HMAC, MD5
  and CRC are injective is part of the model.
* *NAT test.* Nobody looks at an id, so an answer is told from another only by
  what is in the network: `FirstInFlight` and `SecondInFlight` say that at most one
  packet is, the request of the current test or its answer. They end with the second
  Test I, since after a timeout late packets are taken for answers; no verdict that
  `NatVerdictSound` speaks of is reached after that. `ServersAssumption` says that
  the servers' addresses are not the client's nor the NAT's, and that a full server
  is known under two addresses.

The assumptions say no more than what kind of thing a constant is (a finite set of
numbers, files with finitely many lines, requests with the fields that exist and user
names of up to 100 pieces), except for `ServersAssumption`, without which there is no
distinguishing a NAT from a server, and the prime below. TLC evaluates all of them.

`PrimeAssumption`, of both servers, and `FdPrimeAssumption`, of the poll set, say
that there is a prime between the table's size n and 2n + 2, so that the search for a width ends. It is Bertrand's
postulate; TLC evaluates it for the sizes of the runs.

The library's induction theorems take an operator as parameter, which the provers
cannot instantiate. Loops and lists are therefore handled by `LeastNat`, the least
number in a *set* of numbers: the set of indices at which a claim fails has a least
member, and the step from the one before contradicts it.

Only model-checked: liveness (`SessionEstablished`, `DeadPeerDetected`,
`RegistrationSpreads`, `RequestsAnswered`, `NoSocketStarves`, `StopReturns`,
`DiscoveryEnds`, `EveryoneGetsATurn`, and the liveness half of
`ImplementsTracker`), which is beyond the prover; `TypeOK`, `BehaviorRight`,
`FilteringNeverTooOpen` and `ExactWhenPrompt` of `StunDiscovery`, which are about
the STUN client. The first of those needs bounds on a client that `Settle` moves on
by a recursive function; the other three an invariant over a network that holds
requests and answers of up to five tests at once, each any number of times, and that
says of every answer which test it belongs to, what address it tells and what the
NAT had been opened for when it was let in. For `ExactWhenPrompt` it would also have
to count what is still under way. TLC explores those completely on the run's
instance: every mode and NAT class, four servers, all orders, repetitions and losses.

## 5. Not modelled, and plan

Not modelled:

* encryption, interface configuration and the BSD device: calls into
  libraries and the kernel; authentication and key negotiation of nose: sketches
  that nothing calls; the packet dissector, scripts, logging and unit tests;
* byte layout of PCP and PMP packets (the consequences of the missing `ntohs` and
  of the short copy of node ids are in `MasterPeer`);
* parsing of command lines and JSON, name resolution, `--reuseaddr`;
* failures of single system calls after initialisation in the TCP server;
* the composition of `PeerSession` with `MasterPeer`. It would show that
  `remote_peer_addr` is resolved once per process, so that a peer whose partner
  restarts behind a new mapping never finds it again (`peer.c:142`), and what two
  equal node ids do (`utils.c:83`). Either state space alone is near the limit.

Facts met on the way that no property states: the server program accepts up to
100000 TCP connections and the server refuses that number at start;
`--altadvertised` outside full mode is reported as an error and accepted;
the TCP client does get the "still waiting" that `clientmain.cpp:377` rules out, and
ends without results then, where UDP would try again (`TcpStillWaiting`);
`AddRandomTransactionId` leaves the last word of the id as it was; the rotation in
`CPoll` is not what keeps it fair, handing out a batch to its end is.

Plan: the lifetime bound as a theorem of `ConnTracker` itself, which
`ImplementsTrackerSteps` carries over to the server; then `BehaviorRight`, for which
each packet has to be tied to its test by the transaction id, which the index of the
test makes unique, and the lemmas about answers (`SuccessTells`, `TellsOnly`) are
there.
