----------------------------- MODULE PeerSession -----------------------------
(***************************************************************************)
(* The session between two peers (src/src/peer.c): rendezvous through the  *)
(* master peer, UDP hole punching with PCP HELLO packets, the heartbeat    *)
(* that detects a broken connection, and the tun device with its reader    *)
(* threads that lives and dies with the session.                           *)
(*                                                                         *)
(* Each peer is one libevent loop: a handler runs to its end, so one       *)
(* handler is one action; a timer is a flag that says that its event is    *)
(* pending, and an event fires at any moment while it is pending.  UDP     *)
(* loses and reorders packets.  A process may die at any moment and be     *)
(* started again.  The tun names a machine has used up, and the            *)
(* registration kept by the master peer, outlive the process.              *)
(***************************************************************************)
EXTENDS Integers

CONSTANTS
  Peer,       \* the two peers of one VPN link
  NumDev,     \* per peer: names utun_open can take (256 in the code, tun0 to
              \* tun255, on a machine where no other program holds one)
  MaxFlight,  \* bound: packets of one kind on their way to one peer
  MaxCrash    \* bound, per peer: times its process is killed

ASSUME PeerAssumption   == \E a, b \in Peer : a # b /\ Peer = {a, b}
ASSUME NumDevAssumption == NumDev \in [Peer -> Nat \ {0}]
ASSUME BoundAssumption  == MaxFlight \in Nat /\ MaxCrash \in [Peer -> Nat]

Other(p) == CHOOSE q \in Peer : q # p

Flag == {"HELLO_SYN", "HELLO_ACK", "HB_SYN", "HB_ACK", "PAYLOAD"}

(***************************************************************************)
(* "late" is a ghost of heartbeat traffic only: the packet belongs to a    *)
(* heartbeat its sender no longer waits for, because the connection was    *)
(* declared broken or the process restarted since it was sent.             *)
(***************************************************************************)
Packet == [flag : Flag, dst : Peer, late : BOOLEAN]
Pkt(f, d) == [flag |-> f, dst |-> d, late |-> FALSE]

VARIABLES
  up,          \* process is inside peer_loop's event loop
  registered,  \* the master peer holds a registration of the peer
  found,       \* remote_peer_addr is set
  fp, hello, hb, \* fp_event, hello_event, hb_event are pending
  helloed,     \* pr->helloed
  syn_counts,  \* pr->syn_counts
  tun_fd,      \* what the descriptor number in tun_fd stands for
  readers,     \* threads started with recv_tun_device_thread
  parked,      \* those still inside a read() of a device closed meanwhile
  devs,        \* persistent tun devices left on the machine
  net,         \* packets in flight
  crashes,     \* bound counter
  unacked      \* ghost: heartbeats of this connection not answered yet

vars == <<up, registered, found, fp, hello, hb, helloed, syn_counts, tun_fd,
          readers, parked, devs, net, crashes, unacked>>

session == <<helloed, syn_counts, unacked>>
timers  == <<fp, hello, hb>>
device  == <<tun_fd, readers, parked, devs>>
process == <<up, registered, found, crashes>>

(***************************************************************************)
(* tun_fd is a static int, so 0 (standard input) before the first open;    *)
(* after utun_close the number is kept although it names nothing.          *)
(***************************************************************************)
Fd == {"stdin", "open", "closed", "failed"}

TypeOK ==
  /\ up \in [Peer -> BOOLEAN]
  /\ registered \in [Peer -> BOOLEAN]
  /\ found \in [Peer -> BOOLEAN]
  /\ fp \in [Peer -> BOOLEAN]
  /\ hello \in [Peer -> BOOLEAN]
  /\ hb \in [Peer -> BOOLEAN]
  /\ helloed \in [Peer -> BOOLEAN]
  /\ syn_counts \in [Peer -> Nat]
  /\ tun_fd \in [Peer -> Fd]
  /\ readers \in [Peer -> Nat]
  /\ parked \in [Peer -> Nat]
  /\ devs \in [Peer -> Nat]
  /\ net \in [Packet -> Nat]
  /\ crashes \in [Peer -> Nat]
  /\ unacked \in [Peer -> Int]

Init ==
  /\ up = [p \in Peer |-> FALSE]
  /\ registered = [p \in Peer |-> FALSE]
  /\ found = [p \in Peer |-> FALSE]
  /\ fp = [p \in Peer |-> FALSE]
  /\ hello = [p \in Peer |-> FALSE]
  /\ hb = [p \in Peer |-> FALSE]
  /\ helloed = [p \in Peer |-> FALSE]
  /\ syn_counts = [p \in Peer |-> 3]
  /\ tun_fd = [p \in Peer |-> "stdin"]
  /\ readers = [p \in Peer |-> 0]
  /\ parked = [p \in Peer |-> 0]
  /\ devs = [p \in Peer |-> 0]
  /\ net = [m \in Packet |-> 0]
  /\ crashes = [p \in Peer |-> 0]
  /\ unacked = [p \in Peer |-> 0]

-----------------------------------------------------------------------------
(***************************************************************************)
(* The network.  A packet for which there is no room is lost at once; one  *)
(* in flight may be lost later (Lose).  Arrival order is arbitrary.        *)
(***************************************************************************)
Copies(n, f, d) == n[[flag |-> f, dst |-> d, late |-> FALSE]]
                 + n[[flag |-> f, dst |-> d, late |-> TRUE]]

Put(n, m) == IF Copies(n, m.flag, m.dst) < MaxFlight
             THEN [n EXCEPT ![m] = @ + 1] ELSE n
Take(n, m) == [n EXCEPT ![m] = @ - 1]

\* sendto_remote_peer: its result is at most logged.
Send(n, f, p) == Put(n, Pkt(f, Other(p)))

\* A heartbeat p has sent, or the answer to one.
HeartbeatOf(p, m) == \/ m.flag = "HB_SYN" /\ m.dst = Other(p)
                     \/ m.flag = "HB_ACK" /\ m.dst = p

\* Ghost: p gives up on the heartbeats it has sent so far.
Forsake(n, p) ==
  [m \in Packet |->
     IF ~HeartbeatOf(p, m) THEN n[m]
     ELSE IF m.late THEN n[m] + n[Pkt(m.flag, m.dst)] ELSE 0]

Lose(m) ==
  /\ net[m] > 0
  /\ net' = Take(net, m)
  /\ UNCHANGED <<session, timers, device, process>>

-----------------------------------------------------------------------------
(***************************************************************************)
(* main, init_peer and registry_peer: the process enters the event loop    *)
(* with fp_event pending once the master peer has answered the             *)
(* registration; after four unanswered tries it gives up and exits, though *)
(* a request may have arrived and only its answer been lost.               *)
(***************************************************************************)
Start(p) ==
  /\ ~up[p]
  /\ \/ /\ up' = [up EXCEPT ![p] = TRUE]
        /\ registered' = [registered EXCEPT ![p] = TRUE]
        /\ fp' = [fp EXCEPT ![p] = TRUE]
     \/ /\ registered' = [registered EXCEPT ![p] = TRUE]
        /\ UNCHANGED <<up, fp>>
  /\ UNCHANGED <<found, hello, hb, crashes, session, device, net>>

(***************************************************************************)
(* The process ends (SIGINT through cancel_handle, or a kill).  Static and *)
(* heap state goes back to what the next init_peer starts from; threads    *)
(* end with the process; the devices are persistent, because utun_close    *)
(* never gets as far as TUNSETPERSIST 0.                                   *)
(***************************************************************************)
Crash(p) ==
  /\ up[p]
  /\ crashes[p] < MaxCrash[p]
  /\ crashes' = [crashes EXCEPT ![p] = @ + 1]
  /\ up' = [up EXCEPT ![p] = FALSE]
  /\ found' = [found EXCEPT ![p] = FALSE]
  /\ fp' = [fp EXCEPT ![p] = FALSE]
  /\ hello' = [hello EXCEPT ![p] = FALSE]
  /\ hb' = [hb EXCEPT ![p] = FALSE]
  /\ helloed' = [helloed EXCEPT ![p] = FALSE]
  /\ syn_counts' = [syn_counts EXCEPT ![p] = 3]
  /\ tun_fd' = [tun_fd EXCEPT ![p] = "stdin"]
  /\ readers' = [readers EXCEPT ![p] = 0]
  /\ parked' = [parked EXCEPT ![p] = 0]
  /\ unacked' = [unacked EXCEPT ![p] = 0]
  /\ net' = Forsake(net, p)
  /\ UNCHANGED <<registered, devs>>

(***************************************************************************)
(* find_remote_peer, the fp_event handler.  The master peer answers only   *)
(* when it holds a registration of the remote peer.  On success fp_event   *)
(* is not armed again: the handler never runs again in this process.       *)
(***************************************************************************)
FindRemotePeerOk(p) ==
  /\ fp[p]
  /\ registered[Other(p)]
  /\ fp' = [fp EXCEPT ![p] = FALSE]
  /\ found' = [found EXCEPT ![p] = TRUE]
  /\ hello' = [hello EXCEPT ![p] = TRUE]
  /\ UNCHANGED <<up, registered, crashes, hb, session, device, net>>

\* No answer within the receive timeout: "next:" arms fp_event again.
FindRemotePeerFailed(p) ==
  /\ fp[p]
  /\ fp' = [fp EXCEPT ![p] = TRUE]
  /\ UNCHANGED <<hello, hb, session, device, process, net>>

\* udp_holing_hello, the hello_event handler.
UdpHolingHello(p) ==
  /\ hello[p]
  /\ IF helloed[p]
     THEN /\ hello' = [hello EXCEPT ![p] = FALSE]
          /\ UNCHANGED net
     ELSE /\ net' = Send(net, "HELLO_SYN", p)
          /\ UNCHANGED hello
  /\ UNCHANGED <<fp, hb, session, device, process>>

\* Mutant: the test of syn_counts is missing.
HeartbeatSendUnguarded(p) ==
  /\ hb[p]
  /\ net' = Send(net, "HB_SYN", p)
  /\ syn_counts' = [syn_counts EXCEPT ![p] = @ - 1]
  /\ unacked' = [unacked EXCEPT ![p] = @ + 1]
  /\ UNCHANGED <<helloed, timers, device, process>>

\* Mutant: a heartbeat is sent without counting it.
HeartbeatSendUncounted(p) ==
  /\ hb[p]
  /\ syn_counts[p] # 0
  /\ net' = Send(net, "HB_SYN", p)
  /\ unacked' = [unacked EXCEPT ![p] = @ + 1]
  /\ UNCHANGED <<syn_counts, helloed, timers, device, process>>

\* peer_heartbeat with credit left: send, count down, arm hb_event again.
HeartbeatSend(p) ==
  /\ hb[p]
  /\ syn_counts[p] # 0
  /\ net' = Send(net, "HB_SYN", p)
  /\ syn_counts' = [syn_counts EXCEPT ![p] = @ - 1]
  /\ unacked' = [unacked EXCEPT ![p] = @ + 1]
  /\ UNCHANGED <<helloed, timers, device, process>>

\* Mutants of the handler of a broken connection: what it forgets to do.
Broken(p, rearm, close, credit) ==
  /\ hb[p]
  /\ syn_counts[p] = 0
  /\ helloed' = [helloed EXCEPT ![p] = FALSE]
  /\ syn_counts' = [syn_counts EXCEPT ![p] = credit]
  /\ tun_fd' = IF close THEN [tun_fd EXCEPT ![p] = "closed"] ELSE tun_fd
  /\ hello' = IF rearm THEN [hello EXCEPT ![p] = TRUE] ELSE hello
  /\ hb' = [hb EXCEPT ![p] = FALSE]
  /\ unacked' = [unacked EXCEPT ![p] = 0]
  /\ net' = Forsake(net, p)
  /\ UNCHANGED <<fp, readers, parked, devs, process>>

HeartbeatBrokenNoHello(p)  == Broken(p, FALSE, TRUE, 3)
HeartbeatBrokenKeepsTun(p) == Broken(p, TRUE, FALSE, 3)
HeartbeatBrokenTwo(p)      == Broken(p, TRUE, TRUE, 2)

\* Mutant: the breakage is logged and the session kept.
HeartbeatBrokenLogged(p) ==
  /\ hb[p]
  /\ syn_counts[p] = 0
  /\ syn_counts' = [syn_counts EXCEPT ![p] = 3]
  /\ unacked' = [unacked EXCEPT ![p] = 0]
  /\ net' = Forsake(net, p)
  /\ UNCHANGED <<helloed, timers, device, process>>

(***************************************************************************)
(* utun_close (linux/device.c).  TUNSETIFF fails on a descriptor that is   *)
(* already attached, so TUNSETPERSIST 0 is never reached: the descriptor   *)
(* is closed, its number stays in tun_fd, the device stays on the machine. *)
(***************************************************************************)
UtunClose(p) ==
  /\ tun_fd' = [tun_fd EXCEPT ![p] = "closed"]
  /\ UNCHANGED devs

(***************************************************************************)
(* peer_heartbeat without credit: the connection is broken, the device is  *)
(* closed and the hello timer armed.  Threads blocked in read() at that    *)
(* moment stay there: the close does not wake them.                        *)
(***************************************************************************)
HeartbeatBroken(p) ==
  /\ hb[p]
  /\ syn_counts[p] = 0
  /\ helloed' = [helloed EXCEPT ![p] = FALSE]
  /\ syn_counts' = [syn_counts EXCEPT ![p] = 3]
  /\ UtunClose(p)
  /\ \E k \in parked[p] .. readers[p] : parked' = [parked EXCEPT ![p] = k]
  /\ hello' = [hello EXCEPT ![p] = TRUE]
  /\ hb' = [hb EXCEPT ![p] = FALSE]
  /\ unacked' = [unacked EXCEPT ![p] = 0]
  /\ net' = Forsake(net, p)
  /\ UNCHANGED <<fp, readers, process>>

-----------------------------------------------------------------------------
(***************************************************************************)
(* udp_recv_cb and recved_pkt_unpack.  Before find_remote_peer succeeds    *)
(* remote_peer_addr is zero, and every packet is dropped.                  *)
(***************************************************************************)
Arrives(p, m) == up[p] /\ m.dst = p /\ net[m] > 0

RecvUnknownSource(p, m) ==
  /\ Arrives(p, m)
  /\ ~found[p]
  /\ net' = Take(net, m)
  /\ UNCHANGED <<session, timers, device, process>>

\* Mutant: the source address of a HELLO_SYN is not compared.
RecvHelloSynAnySource(p) ==
  LET m == Pkt("HELLO_SYN", p) IN
  /\ Arrives(p, m)
  /\ net' = Send(Take(net, m), "HELLO_ACK", p)
  /\ UNCHANGED <<session, timers, device, process>>

RecvHelloSyn(p) ==
  LET m == Pkt("HELLO_SYN", p) IN
  /\ Arrives(p, m)
  /\ found[p]
  /\ net' = Send(Take(net, m), "HELLO_ACK", p)
  /\ UNCHANGED <<session, timers, device, process>>

(***************************************************************************)
(* utun_open (linux/device.c).  Names in use are refused, so the number of *)
(* devices left behind is the id it ends on.  When that is the last id the *)
(* device is created and made persistent, and the loop's exit value of id  *)
(* still makes the call report an error.                                   *)
(***************************************************************************)
UtunOpens(p) == devs[p] < NumDev[p] - 1
DevsAfterOpen(p) == IF devs[p] < NumDev[p] THEN devs[p] + 1 ELSE devs[p]

(***************************************************************************)
(* F_HELLO_ACK while not helloed: open the device, start a reader, arm hb. *)
(* pthread_create reports a failure by a positive number, which the test   *)
(* "< 0" takes for success: the session is established without a reader.   *)
(***************************************************************************)
RecvHelloAckOpens(p) ==
  LET m == Pkt("HELLO_ACK", p) IN
  /\ Arrives(p, m)
  /\ found[p]
  /\ ~helloed[p]
  /\ UtunOpens(p)
  /\ net' = Take(net, m)
  /\ tun_fd' = [tun_fd EXCEPT ![p] = "open"]
  /\ devs' = [devs EXCEPT ![p] = DevsAfterOpen(p)]
  /\ \E started \in {0, 1} : readers' = [readers EXCEPT ![p] = @ + started]
  /\ helloed' = [helloed EXCEPT ![p] = TRUE]
  /\ hb' = [hb EXCEPT ![p] = TRUE]
  /\ UNCHANGED <<fp, hello, syn_counts, unacked, parked, process>>

\* F_HELLO_ACK while not helloed, and init_tun_device fails: return early.
RecvHelloAckFails(p) ==
  LET m == Pkt("HELLO_ACK", p) IN
  /\ Arrives(p, m)
  /\ found[p]
  /\ ~helloed[p]
  /\ ~UtunOpens(p)
  /\ net' = Take(net, m)
  /\ tun_fd' = [tun_fd EXCEPT ![p] = "failed"]
  /\ devs' = [devs EXCEPT ![p] = DevsAfterOpen(p)]
  /\ UNCHANGED <<session, timers, readers, parked, process>>

\* F_HELLO_ACK while helloed: "Previously received ..., drop it".
RecvHelloAckDrop(p) ==
  LET m == Pkt("HELLO_ACK", p) IN
  /\ Arrives(p, m)
  /\ found[p]
  /\ helloed[p]
  /\ net' = Take(net, m)
  /\ UNCHANGED <<session, timers, device, process>>

\* The answer to a heartbeat its sender gave up on is late too.
RecvHbSyn(p, late) ==
  LET m == [flag |-> "HB_SYN", dst |-> p, late |-> late]
      a == [flag |-> "HB_ACK", dst |-> Other(p), late |-> late] IN
  /\ Arrives(p, m)
  /\ found[p]
  /\ net' = Put(Take(net, m), a)
  /\ UNCHANGED <<session, timers, device, process>>

\* Mutant: the ack is logged and gives no credit.
RecvHbAckIgnored(p, late) ==
  LET m == [flag |-> "HB_ACK", dst |-> p, late |-> late] IN
  /\ Arrives(p, m)
  /\ found[p]
  /\ net' = Take(net, m)
  /\ unacked' = IF late THEN unacked ELSE [unacked EXCEPT ![p] = @ - 1]
  /\ UNCHANGED <<syn_counts, helloed, timers, device, process>>

\* Every ack gives credit, whichever heartbeat it answers.
RecvHbAck(p, late) ==
  LET m == [flag |-> "HB_ACK", dst |-> p, late |-> late] IN
  /\ Arrives(p, m)
  /\ found[p]
  /\ net' = Take(net, m)
  /\ syn_counts' = [syn_counts EXCEPT ![p] = @ + 1]
  /\ unacked' = IF late THEN unacked ELSE [unacked EXCEPT ![p] = @ - 1]
  /\ UNCHANGED <<helloed, timers, device, process>>

\* F_PAYLOAD: written to whatever tun_fd stands for.
RecvPayload(p) ==
  LET m == Pkt("PAYLOAD", p) IN
  /\ Arrives(p, m)
  /\ found[p]
  /\ net' = Take(net, m)
  /\ UNCHANGED <<session, timers, device, process>>

-----------------------------------------------------------------------------
(***************************************************************************)
(* recv_tun_device_thread: one round of the loop.  A thread reads the      *)
(* device tun_fd names now, or it was parked in the read of a device that  *)
(* has been closed since and forwards the packet it gets there.  A read or *)
(* an encryption that fails changes nothing; a compress() that fails ends  *)
(* the thread, and only the next session starts another one.               *)
(***************************************************************************)
TunRead(p) ==
  /\ tun_fd[p] = "open"
  /\ readers[p] > parked[p]
  /\ net' = Send(net, "PAYLOAD", p)
  /\ UNCHANGED <<session, timers, device, process>>

TunReadParked(p) ==
  /\ parked[p] > 0
  /\ parked' = [parked EXCEPT ![p] = @ - 1]
  /\ net' = Send(net, "PAYLOAD", p)
  /\ UNCHANGED <<session, timers, tun_fd, readers, devs, process>>

ReaderEnds(p) ==
  /\ readers[p] > 0
  /\ \/ tun_fd[p] = "open" /\ readers[p] > parked[p] /\ UNCHANGED parked
     \/ parked[p] > 0 /\ parked' = [parked EXCEPT ![p] = @ - 1]
  /\ readers' = [readers EXCEPT ![p] = @ - 1]
  /\ UNCHANGED <<session, timers, tun_fd, devs, process, net>>

-----------------------------------------------------------------------------
Receive(p) ==
  \/ \E m \in Packet : RecvUnknownSource(p, m)
  \/ RecvHelloSyn(p)
  \/ RecvHelloAckOpens(p)
  \/ RecvHelloAckFails(p)
  \/ RecvHelloAckDrop(p)
  \/ \E late \in BOOLEAN : RecvHbSyn(p, late)
  \/ \E late \in BOOLEAN : RecvHbAck(p, late)
  \/ RecvPayload(p)

Timer(p) ==
  \/ FindRemotePeerOk(p)
  \/ FindRemotePeerFailed(p)
  \/ UdpHolingHello(p)
  \/ HeartbeatSend(p)
  \/ HeartbeatBroken(p)

Reader(p) ==
  \/ TunRead(p)
  \/ TunReadParked(p)
  \/ ReaderEnds(p)

Next ==
  \/ \E p \in Peer : Start(p) \/ Crash(p)
  \/ \E p \in Peer : Timer(p)
  \/ \E p \in Peer : Receive(p)
  \/ \E p \in Peer : Reader(p)
  \/ \E m \in Packet : Lose(m)

Spec == Init /\ [][Next]_vars

(***************************************************************************)
(* Fairness.  libevent runs a pending timer sooner or later (weak).  The   *)
(* master peer answers a query that is repeated for ever, and the network  *)
(* delivers a HELLO packet that is sent again and again (strong).  Nothing *)
(* is assumed of Start, of the readers, of heartbeats on the wire or of    *)
(* payload.                                                                *)
(***************************************************************************)
Fairness ==
  \A p \in Peer :
    /\ SF_vars(FindRemotePeerOk(p))
    /\ WF_vars(UdpHolingHello(p))
    /\ WF_vars(HeartbeatSend(p) \/ HeartbeatBroken(p))
    /\ SF_vars(RecvHelloSyn(p))
    /\ SF_vars(RecvHelloAckOpens(p) \/ RecvHelloAckFails(p))

FairSpec == Spec /\ Fairness

-----------------------------------------------------------------------------
(* Safety. *)

(***************************************************************************)
(* In the event loop exactly the right timers are pending: the peer keeps  *)
(* asking the master peer until it knows the remote address, then keeps    *)
(* greeting until helloed, and then, and only then, has a heartbeat.  So   *)
(* no chain of re-armed events (peer.c:156, 212, 245) dies out, and        *)
(* event_assign (peer.c:150, 361) is never applied to a pending event.     *)
(***************************************************************************)
TimerDiscipline ==
  \A p \in Peer :
    /\ fp[p] <=> up[p] /\ ~found[p]
    /\ hb[p] <=> helloed[p]
    /\ helloed[p] => found[p]
    /\ found[p] /\ ~helloed[p] => hello[p]
    /\ hello[p] => found[p]

(***************************************************************************)
(* The tun device is open exactly while the session is established: every  *)
(* path through HELLO_ACK, failed open, heartbeat failure and restart      *)
(* keeps tun_fd and pr->helloed together.  The threads, of which none is   *)
(* ever joined, are at most one per device opened, those parked in a       *)
(* closed one included.  That somebody reads the open device is not said:  *)
(* a reader may have failed to start or ended (peer.c:294, 355), and the   *)
(* session stays up without one.                                           *)
(***************************************************************************)
TunFollowsSession ==
  \A p \in Peer :
    /\ helloed[p] <=> tun_fd[p] = "open"
    /\ parked[p] <= readers[p] /\ readers[p] <= devs[p]

(***************************************************************************)
(* A peer that got a HELLO_ACK is known to the remote peer: the remote     *)
(* process has resolved this peer's address, unless it was restarted       *)
(* since.  A half-open session with a peer that will drop every packet as  *)
(* of unknown source cannot come out of the handshake itself.              *)
(***************************************************************************)
MutualKnowledge ==
  \A p \in Peer :
    helloed[p] /\ crashes[Other(p)] = 0 => found[Other(p)]

\* Heartbeat packets of p, and their answers, that are still in flight.
Flying(p) == Copies(net, "HB_SYN", Other(p)) + Copies(net, "HB_ACK", p)

(***************************************************************************)
(* The credit in syn_counts and on the wire never exceeds the three units  *)
(* init_peer and each declared breakage hand out.  pr->syn_counts++ has no *)
(* guard (peer.c:382): that late acks cannot raise it without limit, even  *)
(* across breakages and restarts, rests on this.                           *)
(***************************************************************************)
CreditBound ==
  \A p \in Peer :
    syn_counts[p] + Flying(p)
      <= 3 * (1 + devs[p] - (IF helloed[p] THEN 1 ELSE 0) + crashes[p])

(***************************************************************************)
(* peer_heartbeat declares the connection broken only when at least three  *)
(* heartbeats of this very connection are unanswered: no mixture of loss,  *)
(* reordering, late acks and restarts makes it give up earlier.            *)
(***************************************************************************)
BreakOnlyAfterThree ==
  [][\A p \in Peer : HeartbeatBroken(p) => unacked[p] >= 3]_vars

-----------------------------------------------------------------------------
(* Liveness, of FairSpec. *)

\* Every name utun_open may succeed with is taken by a persistent device.
Exhausted(p) == ~UtunOpens(p)

(***************************************************************************)
(* When both processes stay up, a peer that asks the master peer gets its  *)
(* session, and gets it back after every breakage, as long as utun_open    *)
(* has a name left.                                                        *)
(***************************************************************************)
SessionEstablished ==
  \A p \in Peer :
    <>[](\A q \in Peer : up[q]) => []<>(helloed[p] \/ Exhausted(p))

(***************************************************************************)
(* When the remote process stays down, the session is eventually given up  *)
(* for good: heartbeats run out of credit whatever late acks and HELLO_ACK *)
(* packets are still under way.                                            *)
(***************************************************************************)
DeadPeerDetected ==
  \A p \in Peer :
    <>[](~up[Other(p)]) => <>[](~helloed[p])

-----------------------------------------------------------------------------
(* What the comments and messages of peer.c say and the code does not do.  *)

(***************************************************************************)
(* peer.c:224: three heartbeats without an ack mean a broken connection,   *)
(* so a peer never waits on more than three.                               *)
(***************************************************************************)
ThreeUnackedMeansBroken == \A p \in Peer : unacked[p] <= 3

(***************************************************************************)
(* peer.c:440 and 446: received payload is written to the tun device, so   *)
(* the descriptor it is written to is never standard input.                *)
(***************************************************************************)
PayloadGoesToTun ==
  [][\A p \in Peer : RecvPayload(p) => tun_fd[p] # "stdin"]_vars

(***************************************************************************)
(* peer.c:225: after a breakage the peer greets again "to establish        *)
(* connection", so a session that broke comes back when both peers stay    *)
(* up.                                                                     *)
(***************************************************************************)
BrokenSessionReturns ==
  \A p \in Peer :
    <>[](\A q \in Peer : up[q]) => []<>helloed[p]

=============================================================================
