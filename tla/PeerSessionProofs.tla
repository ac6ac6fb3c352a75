-------------------------- MODULE PeerSessionProofs --------------------------
(***************************************************************************)
(* Proofs about PeerSession, for any two peers, any number of tun names    *)
(* and any bounds on the network and on restarts.                          *)
(***************************************************************************)
EXTENDS PeerSession, TLAPS

-----------------------------------------------------------------------------
(* The two peers and the network. *)

(***************************************************************************)
(* Each peer of a link has exactly one remote peer, and is its remote      *)
(* peer's remote peer (vlan_remote_ipv4 of the two configurations).        *)
(***************************************************************************)
LEMMA OtherPeer ==
  ASSUME NEW p \in Peer
  PROVE  /\ Other(p) \in Peer
         /\ Other(p) # p
         /\ Other(Other(p)) = p
<1>1. PICK a, b \in Peer : a # b /\ Peer = {a, b}
  BY PeerAssumption
<1>2. \A q \in Peer : \E r \in Peer : r # q
  BY <1>1
<1>3. \A q \in Peer : Other(q) \in Peer /\ Other(q) # q
  BY <1>2 DEF Other
<1> QED
  BY <1>1, <1>3

\* A packet put on the wire leaves counts of copies.
LEMMA PutType ==
  ASSUME NEW n \in [Packet -> Nat], NEW m \in Packet
  PROVE  Put(n, m) \in [Packet -> Nat]
BY DEF Put

\* A packet that is there can be taken, and leaves a count.
LEMMA TakeType ==
  ASSUME NEW n \in [Packet -> Nat], NEW m \in Packet, n[m] > 0
  PROVE  Take(n, m) \in [Packet -> Nat]
BY DEF Take

\* Relabelling heartbeats as late leaves counts.
LEMMA ForsakeType ==
  ASSUME NEW n \in [Packet -> Nat], NEW p \in Peer
  PROVE  Forsake(n, p) \in [Packet -> Nat]
<1> SUFFICES ASSUME NEW m \in Packet
             PROVE  /\ n[m] \in Nat
                    /\ m.late => n[m] + n[Pkt(m.flag, m.dst)] \in Nat
  BY DEF Forsake
<1>1. Pkt(m.flag, m.dst) \in Packet
  BY DEF Packet, Pkt
<1> QED
  BY <1>1

\* The packets the PCP_ functions build are packets of the network.
LEMMA PktType ==
  ASSUME NEW f \in Flag, NEW d \in Peer
  PROVE  Pkt(f, d) \in Packet
BY DEF Pkt, Packet

\* sendto_remote_peer leaves counts of copies.
LEMMA SendType ==
  ASSUME NEW n \in [Packet -> Nat], NEW f \in Flag, NEW p \in Peer
  PROVE  Send(n, f, p) \in [Packet -> Nat]
BY OtherPeer, PktType, PutType DEF Send

-----------------------------------------------------------------------------
(***************************************************************************)
(* Every handler, timer, thread and network step keeps the state typed;    *)
(* in particular syn_counts, decremented in peer_heartbeat without a test  *)
(* of its own, never becomes negative.                                     *)
(***************************************************************************)
LEMMA TypeStep ==
  TypeOK /\ [Next]_vars => TypeOK'
<1> SUFFICES ASSUME TypeOK, [Next]_vars
             PROVE  TypeOK'
  OBVIOUS
<1> USE DEF session, timers, device, process, UtunClose
<1>1. ASSUME NEW p \in Peer, Start(p)
      PROVE  TypeOK'
  BY <1>1 DEF TypeOK, Start
<1>2. ASSUME NEW p \in Peer, Crash(p)
      PROVE  TypeOK'
  <2>1. net' \in [Packet -> Nat]
    BY <1>2, ForsakeType DEF TypeOK, Crash
  <2> QED
    BY <1>2, <2>1 DEF TypeOK, Crash, Fd
<1>3. ASSUME NEW p \in Peer, FindRemotePeerOk(p)
      PROVE  TypeOK'
  BY <1>3 DEF TypeOK, FindRemotePeerOk
<1>4. ASSUME NEW p \in Peer, FindRemotePeerFailed(p)
      PROVE  TypeOK'
  BY <1>4 DEF TypeOK, FindRemotePeerFailed
<1>5. ASSUME NEW p \in Peer, UdpHolingHello(p)
      PROVE  TypeOK'
  <2>1. net' \in [Packet -> Nat]
    BY <1>5, SendType DEF TypeOK, UdpHolingHello, Flag
  <2> QED
    BY <1>5, <2>1 DEF TypeOK, UdpHolingHello
<1>6. ASSUME NEW p \in Peer, HeartbeatSend(p)
      PROVE  TypeOK'
  <2>1. net' \in [Packet -> Nat]
    BY <1>6, SendType DEF TypeOK, HeartbeatSend, Flag
  <2> QED
    BY <1>6, <2>1, SMTT(60) DEF TypeOK, HeartbeatSend
<1>7. ASSUME NEW p \in Peer, HeartbeatBroken(p)
      PROVE  TypeOK'
  <2>1. net' \in [Packet -> Nat]
    BY <1>7, ForsakeType DEF TypeOK, HeartbeatBroken
  <2> QED
    BY <1>7, <2>1 DEF TypeOK, HeartbeatBroken, Fd
<1>8. ASSUME NEW p \in Peer, NEW m \in Packet, RecvUnknownSource(p, m)
      PROVE  TypeOK'
  <2>1. net' \in [Packet -> Nat]
    BY <1>8, TakeType DEF TypeOK, RecvUnknownSource, Arrives
  <2> QED
    BY <1>8, <2>1 DEF TypeOK, RecvUnknownSource, Arrives
<1>9. ASSUME NEW p \in Peer, RecvHelloSyn(p)
      PROVE  TypeOK'
  <2>1. net' \in [Packet -> Nat]
    BY <1>9, SendType, TakeType, PktType DEF TypeOK, RecvHelloSyn, Arrives, Flag
  <2> QED
    BY <1>9, <2>1 DEF TypeOK, RecvHelloSyn, Arrives
<1>10. ASSUME NEW p \in Peer, RecvHelloAckOpens(p)
      PROVE  TypeOK'
  <2>1. net' \in [Packet -> Nat]
    BY <1>10, TakeType, PktType DEF TypeOK, RecvHelloAckOpens, Arrives, Flag
  <2> QED
    BY <1>10, <2>1 DEF TypeOK, RecvHelloAckOpens, Arrives, Fd, DevsAfterOpen
<1>11. ASSUME NEW p \in Peer, RecvHelloAckFails(p)
      PROVE  TypeOK'
  <2>1. net' \in [Packet -> Nat]
    BY <1>11, TakeType, PktType DEF TypeOK, RecvHelloAckFails, Arrives, Flag
  <2> QED
    BY <1>11, <2>1 DEF TypeOK, RecvHelloAckFails, Arrives, Fd, DevsAfterOpen
<1>12. ASSUME NEW p \in Peer, RecvHelloAckDrop(p)
      PROVE  TypeOK'
  <2>1. net' \in [Packet -> Nat]
    BY <1>12, TakeType, PktType DEF TypeOK, RecvHelloAckDrop, Arrives, Flag
  <2> QED
    BY <1>12, <2>1 DEF TypeOK, RecvHelloAckDrop, Arrives, Fd
<1>13. ASSUME NEW p \in Peer, NEW late \in BOOLEAN, RecvHbSyn(p, late)
      PROVE  TypeOK'
  <2>1. net' \in [Packet -> Nat]
    BY <1>13, TakeType, PutType, OtherPeer, ZenonT(60) DEF TypeOK, RecvHbSyn, Arrives, Packet, Flag
  <2> QED
    BY <1>13, <2>1 DEF TypeOK, RecvHbSyn, Arrives
<1>14. ASSUME NEW p \in Peer, NEW late \in BOOLEAN, RecvHbAck(p, late)
      PROVE  TypeOK'
  <2>1. net' \in [Packet -> Nat]
    BY <1>14, TakeType DEF TypeOK, RecvHbAck, Arrives, Packet, Flag
  <2> QED
    BY <1>14, <2>1 DEF TypeOK, RecvHbAck, Arrives, Fd
<1>15. ASSUME NEW p \in Peer, RecvPayload(p)
      PROVE  TypeOK'
  <2>1. net' \in [Packet -> Nat]
    BY <1>15, TakeType, PktType DEF TypeOK, RecvPayload, Arrives, Flag
  <2> QED
    BY <1>15, <2>1 DEF TypeOK, RecvPayload, Arrives
<1>16. ASSUME NEW p \in Peer, TunRead(p)
      PROVE  TypeOK'
  <2>1. net' \in [Packet -> Nat]
    BY <1>16, SendType DEF TypeOK, TunRead, Flag
  <2> QED
    BY <1>16, <2>1 DEF TypeOK, TunRead
<1>17. ASSUME NEW p \in Peer, TunReadParked(p)
      PROVE  TypeOK'
  <2>1. net' \in [Packet -> Nat]
    BY <1>17, SendType DEF TypeOK, TunReadParked, Flag
  <2> QED
    BY <1>17, <2>1 DEF TypeOK, TunReadParked
<1>18. ASSUME NEW p \in Peer, ReaderEnds(p)
      PROVE  TypeOK'
  BY <1>18 DEF TypeOK, ReaderEnds
<1>19. ASSUME NEW m \in Packet, Lose(m)
      PROVE  TypeOK'
  <2>1. net' \in [Packet -> Nat]
    BY <1>19, TakeType DEF TypeOK, Lose
  <2> QED
    BY <1>19, <2>1 DEF TypeOK, Lose
<1>20. CASE UNCHANGED vars
  BY <1>20 DEF TypeOK, vars
<1> QED
  BY <1>1, <1>2, <1>3, <1>4, <1>5, <1>6, <1>7, <1>8, <1>9, <1>10, <1>11, <1>12, <1>13, <1>14, <1>15, <1>16, <1>17, <1>18, <1>19, <1>20
     DEF Next, Timer, Receive, Reader

\* Type correctness of the session state (peer.h, struct peer).
THEOREM TypeCorrect == Spec => []TypeOK
<1>1. Init => TypeOK
  BY DEF Init, TypeOK, Fd
<1> QED
  BY <1>1, TypeStep, PTL DEF Spec

-----------------------------------------------------------------------------
(***************************************************************************)
(* Timers and device.  The two invariants need each other (hb tells that   *)
(* the session is established) and one fact the properties do not state:   *)
(* only a running process knows an address.                                *)
(***************************************************************************)
ControlInv ==
  /\ TimerDiscipline
  /\ TunFollowsSession
  /\ \A p \in Peer : found[p] => up[p]

\* One handler at a time keeps timers, device and session flag in step.
LEMMA ControlStep ==
  TypeOK /\ ControlInv /\ [Next]_vars => ControlInv'
<1> SUFFICES ASSUME TypeOK, ControlInv, [Next]_vars
             PROVE  ControlInv'
  OBVIOUS
<1> USE DEF TypeOK, ControlInv, TimerDiscipline, TunFollowsSession,
            session, timers, device, process, UtunClose
<1>1. ASSUME NEW p \in Peer, Start(p)
      PROVE  ControlInv'
  BY <1>1, SMTT(60) DEF Start
<1>2. ASSUME NEW p \in Peer, Crash(p)
      PROVE  ControlInv'
  BY <1>2 DEF Crash
<1>3. ASSUME NEW p \in Peer, FindRemotePeerOk(p)
      PROVE  ControlInv'
  BY <1>3 DEF FindRemotePeerOk
<1>4. ASSUME NEW p \in Peer, FindRemotePeerFailed(p)
      PROVE  ControlInv'
  BY <1>4 DEF FindRemotePeerFailed
<1>5. ASSUME NEW p \in Peer, UdpHolingHello(p)
      PROVE  ControlInv'
  BY <1>5 DEF UdpHolingHello
<1>6. ASSUME NEW p \in Peer, HeartbeatSend(p)
      PROVE  ControlInv'
  BY <1>6 DEF HeartbeatSend
<1>7. ASSUME NEW p \in Peer, HeartbeatBroken(p)
      PROVE  ControlInv'
  BY <1>7 DEF HeartbeatBroken
<1>8. ASSUME NEW p \in Peer, NEW m \in Packet, RecvUnknownSource(p, m)
      PROVE  ControlInv'
  BY <1>8 DEF RecvUnknownSource
<1>9. ASSUME NEW p \in Peer, RecvHelloSyn(p)
      PROVE  ControlInv'
  BY <1>9 DEF RecvHelloSyn
<1>10. ASSUME NEW p \in Peer, RecvHelloAckOpens(p)
      PROVE  ControlInv'
  <2>1. devs' = [devs EXCEPT ![p] = @ + 1]
    <3>1. NumDev[p] \in Nat /\ devs[p] \in Nat /\ devs[p] < NumDev[p] - 1
      BY <1>10, NumDevAssumption DEF RecvHelloAckOpens, UtunOpens
    <3>2. DevsAfterOpen(p) = devs[p] + 1
      BY <3>1 DEF DevsAfterOpen
    <3> QED
      BY <1>10, <3>2 DEF RecvHelloAckOpens
  <2>2. TimerDiscipline' /\ \A q \in Peer : found'[q] => up'[q]
    BY <1>10 DEF RecvHelloAckOpens
  <2>3. PICK started \in {0, 1} : readers' = [readers EXCEPT ![p] = @ + started]
    BY <1>10 DEF RecvHelloAckOpens
  <2>4. \A q \in Peer : parked'[q] <= readers'[q] /\ readers'[q] <= devs'[q]
    BY <1>10, <2>1, <2>3 DEF RecvHelloAckOpens
  <2>5. \A q \in Peer : helloed'[q] <=> tun_fd'[q] = "open"
    BY <1>10 DEF RecvHelloAckOpens
  <2> QED
    BY <2>2, <2>4, <2>5
<1>11. ASSUME NEW p \in Peer, RecvHelloAckFails(p)
      PROVE  ControlInv'
  <2>1. DevsAfterOpen(p) \in Nat /\ devs[p] <= DevsAfterOpen(p)
    BY DEF DevsAfterOpen
  <2> QED
    BY <1>11, <2>1 DEF RecvHelloAckFails
<1>12. ASSUME NEW p \in Peer, RecvHelloAckDrop(p)
      PROVE  ControlInv'
  BY <1>12 DEF RecvHelloAckDrop
<1>13. ASSUME NEW p \in Peer, NEW late \in BOOLEAN, RecvHbSyn(p, late)
      PROVE  ControlInv'
  BY <1>13 DEF RecvHbSyn
<1>14. ASSUME NEW p \in Peer, NEW late \in BOOLEAN, RecvHbAck(p, late)
      PROVE  ControlInv'
  BY <1>14 DEF RecvHbAck
<1>15. ASSUME NEW p \in Peer, RecvPayload(p)
      PROVE  ControlInv'
  BY <1>15 DEF RecvPayload
<1>16. ASSUME NEW p \in Peer, TunRead(p)
      PROVE  ControlInv'
  BY <1>16 DEF TunRead
<1>17. ASSUME NEW p \in Peer, TunReadParked(p)
      PROVE  ControlInv'
  BY <1>17 DEF TunReadParked
<1>18. ASSUME NEW p \in Peer, ReaderEnds(p)
      PROVE  ControlInv'
  BY <1>18 DEF ReaderEnds
<1>19. ASSUME NEW m \in Packet, Lose(m)
      PROVE  ControlInv'
  BY <1>19 DEF Lose
<1>20. CASE UNCHANGED vars
  BY <1>20 DEF vars
<1> QED
  BY <1>1, <1>2, <1>3, <1>4, <1>5, <1>6, <1>7, <1>8, <1>9, <1>10,
     <1>11, <1>12, <1>13, <1>14, <1>15, <1>16, <1>17, <1>18, <1>19, <1>20
     DEF Next, Timer, Receive, Reader

(***************************************************************************)
(* The timers pending in the event loop always match the phase of the      *)
(* session (peer.c: find_remote_peer, udp_holing_hello, peer_heartbeat).   *)
(***************************************************************************)
THEOREM TimersInStep == Spec => []TimerDiscipline
<1>1. Init => ControlInv
  BY DEF Init, ControlInv, TimerDiscipline, TunFollowsSession
<1>2. ControlInv => TimerDiscipline
  BY DEF ControlInv
<1> QED
  BY <1>1, <1>2, ControlStep, TypeCorrect, PTL DEF Spec

(***************************************************************************)
(* The tun device is open exactly while helloed, and there are no more     *)
(* reader threads, the parked ones among them, than devices opened         *)
(* (peer.c: recved_pkt_unpack, peer_heartbeat, recv_tun_device_thread).    *)
(***************************************************************************)
THEOREM TunInStep == Spec => []TunFollowsSession
<1>1. Init => ControlInv
  BY DEF Init, ControlInv, TimerDiscipline, TunFollowsSession
<1>2. ControlInv => TunFollowsSession
  BY DEF ControlInv
<1> QED
  BY <1>1, <1>2, ControlStep, TypeCorrect, PTL DEF Spec

-----------------------------------------------------------------------------
(***************************************************************************)
(* Heartbeat ledger.  Credit and unanswered heartbeats of the current      *)
(* connection always make up at least three: an ack moves a unit from one  *)
(* to the other, a late ack only adds credit.                              *)
(***************************************************************************)
Ledger == \A q \in Peer : syn_counts[q] + unacked[q] >= 3

\* No step of peer_heartbeat or of the receive path takes credit away twice.
LEMMA LedgerStep ==
  TypeOK /\ Ledger /\ [Next]_vars => Ledger'
<1> SUFFICES ASSUME TypeOK, Ledger, [Next]_vars
             PROVE  Ledger'
  OBVIOUS
<1> USE DEF TypeOK, Ledger, session, timers, device, process, UtunClose
<1>1. ASSUME NEW p \in Peer, Start(p)
      PROVE  Ledger'
  BY <1>1 DEF Start
<1>2. ASSUME NEW p \in Peer, Crash(p)
      PROVE  Ledger'
  BY <1>2 DEF Crash
<1>3. ASSUME NEW p \in Peer, FindRemotePeerOk(p)
      PROVE  Ledger'
  BY <1>3 DEF FindRemotePeerOk
<1>4. ASSUME NEW p \in Peer, FindRemotePeerFailed(p)
      PROVE  Ledger'
  BY <1>4 DEF FindRemotePeerFailed
<1>5. ASSUME NEW p \in Peer, UdpHolingHello(p)
      PROVE  Ledger'
  BY <1>5 DEF UdpHolingHello
<1>6. ASSUME NEW p \in Peer, HeartbeatSend(p)
      PROVE  Ledger'
  BY <1>6 DEF HeartbeatSend
<1>7. ASSUME NEW p \in Peer, HeartbeatBroken(p)
      PROVE  Ledger'
  BY <1>7 DEF HeartbeatBroken
<1>8. ASSUME NEW p \in Peer, NEW m \in Packet, RecvUnknownSource(p, m)
      PROVE  Ledger'
  BY <1>8 DEF RecvUnknownSource
<1>9. ASSUME NEW p \in Peer, RecvHelloSyn(p)
      PROVE  Ledger'
  BY <1>9 DEF RecvHelloSyn
<1>10. ASSUME NEW p \in Peer, RecvHelloAckOpens(p)
      PROVE  Ledger'
  BY <1>10 DEF RecvHelloAckOpens
<1>11. ASSUME NEW p \in Peer, RecvHelloAckFails(p)
      PROVE  Ledger'
  BY <1>11 DEF RecvHelloAckFails
<1>12. ASSUME NEW p \in Peer, RecvHelloAckDrop(p)
      PROVE  Ledger'
  BY <1>12 DEF RecvHelloAckDrop
<1>13. ASSUME NEW p \in Peer, NEW late \in BOOLEAN, RecvHbSyn(p, late)
      PROVE  Ledger'
  BY <1>13 DEF RecvHbSyn
<1>14. ASSUME NEW p \in Peer, NEW late \in BOOLEAN, RecvHbAck(p, late)
      PROVE  Ledger'
  BY <1>14 DEF RecvHbAck
<1>15. ASSUME NEW p \in Peer, RecvPayload(p)
      PROVE  Ledger'
  BY <1>15 DEF RecvPayload
<1>16. ASSUME NEW p \in Peer, TunRead(p)
      PROVE  Ledger'
  BY <1>16 DEF TunRead
<1>17. ASSUME NEW p \in Peer, TunReadParked(p)
      PROVE  Ledger'
  BY <1>17 DEF TunReadParked
<1>18. ASSUME NEW p \in Peer, ReaderEnds(p)
      PROVE  Ledger'
  BY <1>18 DEF ReaderEnds
<1>19. ASSUME NEW m \in Packet, Lose(m)
      PROVE  Ledger'
  BY <1>19 DEF Lose
<1>20. CASE UNCHANGED vars
  BY <1>20 DEF vars
<1> QED
  BY <1>1, <1>2, <1>3, <1>4, <1>5, <1>6, <1>7, <1>8, <1>9, <1>10,
     <1>11, <1>12, <1>13, <1>14, <1>15, <1>16, <1>17, <1>18, <1>19, <1>20
     DEF Next, Timer, Receive, Reader

(***************************************************************************)
(* peer_heartbeat never gives a connection up before three of its own      *)
(* heartbeats are unanswered, whatever the network and the remote do.      *)
(***************************************************************************)
THEOREM BreakNeedsThree == Spec => BreakOnlyAfterThree
<1>1. Init => Ledger
  BY DEF Init, Ledger
<1>2. TypeOK /\ Ledger
        => (\A p \in Peer : HeartbeatBroken(p) => unacked[p] >= 3)
  BY DEF TypeOK, Ledger, HeartbeatBroken
<1> QED
  BY <1>1, <1>2, LedgerStep, TypeCorrect, PTL DEF Spec, BreakOnlyAfterThree

-----------------------------------------------------------------------------
(***************************************************************************)
(* Handshake.  A HELLO_ACK comes from a process that has resolved the      *)
(* address, so the property is inductive together with the same fact       *)
(* about acks in flight.                                                   *)
(***************************************************************************)
AckSent(q) == helloed[q] \/ net[Pkt("HELLO_ACK", q)] > 0

Knowledge ==
  \A q \in Peer : AckSent(q) /\ crashes[Other(q)] = 0 => found[Other(q)]

\* What the network operations do to the HELLO_ACK packets in flight.
LEMMA HelloAckCount ==
  ASSUME NEW n \in [Packet -> Nat], NEW q \in Peer
  PROVE  LET h == Pkt("HELLO_ACK", q) IN
         /\ \A m \in Packet : m # h => Put(n, m)[h] = n[h]
         /\ \A m \in Packet : n[m] > 0 => (Take(n, m)[h] > 0 => n[h] > 0)
         /\ \A p \in Peer : Forsake(n, p)[h] = n[h]
BY PktType DEF Put, Take, Forsake, HeartbeatOf, Packet, Flag, Pkt


\* Only a peer that has resolved the address answers a greeting.
LEMMA KnowledgeStep ==
  TypeOK /\ ControlInv /\ Knowledge /\ [Next]_vars => Knowledge'
<1> SUFFICES ASSUME TypeOK, ControlInv, Knowledge, [Next]_vars
             PROVE  Knowledge'
  OBVIOUS
<1> USE DEF TypeOK, Knowledge, AckSent, session, timers, device, process, UtunClose
<1>1. ASSUME NEW p \in Peer, Start(p)
      PROVE  Knowledge'
  BY <1>1 DEF Start
<1>2. ASSUME NEW p \in Peer, Crash(p)
      PROVE  Knowledge'
  <2>1. \A q \in Peer : net'[Pkt("HELLO_ACK", q)] = net[Pkt("HELLO_ACK", q)]
    BY <1>2, HelloAckCount DEF Crash
  <2>2. /\ helloed' = [helloed EXCEPT ![p] = FALSE]
        /\ found' = [found EXCEPT ![p] = FALSE]
        /\ crashes' = [crashes EXCEPT ![p] = @ + 1]
    BY <1>2 DEF Crash
  <2>3. \A q \in Peer : AckSent(q)' => AckSent(q)
    BY <2>1, <2>2
  <2>4. crashes'[p] # 0
    BY <2>2
  <2>5. \A q \in Peer : q # p => crashes'[q] = crashes[q] /\ found'[q] = found[q]
    BY <2>2
  <2> HIDE DEF AckSent, TypeOK, session, timers, device, process
  <2> QED
    BY <2>3, <2>4, <2>5, OtherPeer
<1>3. ASSUME NEW p \in Peer, FindRemotePeerOk(p)
      PROVE  Knowledge'
  BY <1>3 DEF FindRemotePeerOk
<1>4. ASSUME NEW p \in Peer, FindRemotePeerFailed(p)
      PROVE  Knowledge'
  BY <1>4 DEF FindRemotePeerFailed
<1>5. ASSUME NEW p \in Peer, UdpHolingHello(p)
      PROVE  Knowledge'
  <2>1. \A q \in Peer : Pkt("HELLO_SYN", Other(p)) # Pkt("HELLO_ACK", q)
    BY DEF Pkt
  <2>2. Pkt("HELLO_SYN", Other(p)) \in Packet
    BY OtherPeer, PktType DEF Flag
  <2> QED
    BY <1>5, <2>1, <2>2, HelloAckCount DEF UdpHolingHello, Send
<1>6. ASSUME NEW p \in Peer, HeartbeatSend(p)
      PROVE  Knowledge'
  <2>1. \A q \in Peer : Pkt("HB_SYN", Other(p)) # Pkt("HELLO_ACK", q)
    BY DEF Pkt
  <2>2. Pkt("HB_SYN", Other(p)) \in Packet
    BY OtherPeer, PktType DEF Flag
  <2> QED
    BY <1>6, <2>1, <2>2, HelloAckCount, ZenonT(60) DEF HeartbeatSend, Send
<1>7. ASSUME NEW p \in Peer, HeartbeatBroken(p)
      PROVE  Knowledge'
  BY <1>7, HelloAckCount, OtherPeer, SMTT(60) DEF HeartbeatBroken
<1>8. ASSUME NEW p \in Peer, NEW m \in Packet, RecvUnknownSource(p, m)
      PROVE  Knowledge'
  BY <1>8, HelloAckCount DEF RecvUnknownSource, Arrives
<1>9. ASSUME NEW p \in Peer, RecvHelloSyn(p)
      PROVE  Knowledge'
  <2> DEFINE m == Pkt("HELLO_SYN", p)
             a == Pkt("HELLO_ACK", Other(p))
  <2>1. m \in Packet /\ a \in Packet
    BY OtherPeer, PktType DEF Flag
  <2>2. net[m] > 0 /\ net' = Put(Take(net, m), a) /\ found[p]
    BY <1>9 DEF RecvHelloSyn, Arrives, Send
  <2>3. Take(net, m) \in [Packet -> Nat]
    BY <2>1, <2>2, TakeType
  <2>4. a # Pkt("HELLO_ACK", p)
    BY OtherPeer DEF Pkt
  <2>5. net'[Pkt("HELLO_ACK", p)] > 0 => net[Pkt("HELLO_ACK", p)] > 0
    <3> HIDE DEF m, a
    <3> QED
      BY <2>1, <2>2, <2>3, <2>4, HelloAckCount
  <2>6. \A q \in Peer : q = p \/ Other(q) = p
    BY PeerAssumption, OtherPeer
  <2> QED
    BY <1>9, <2>2, <2>5, <2>6 DEF RecvHelloSyn
<1>10. ASSUME NEW p \in Peer, RecvHelloAckOpens(p)
      PROVE  Knowledge'
  <2> DEFINE m == Pkt("HELLO_ACK", p)
  <2>1. m \in Packet
    BY PktType DEF Flag
  <2>2. net[m] > 0 /\ net' = Take(net, m)
    BY <1>10 DEF RecvHelloAckOpens, Arrives
  <2>3. \A q \in Peer : net'[Pkt("HELLO_ACK", q)] > 0
                       => net[Pkt("HELLO_ACK", q)] > 0
    <3> HIDE DEF m
    <3> QED
      BY <2>1, <2>2, HelloAckCount
  <2>4. \A q \in Peer : helloed'[q] => helloed[q] \/ q = p
    BY <1>10 DEF RecvHelloAckOpens
  <2>5. \A q \in Peer : AckSent(q)' => AckSent(q)
    BY <2>2, <2>3, <2>4
  <2> QED
    BY <1>10, <2>5 DEF RecvHelloAckOpens
<1>11. ASSUME NEW p \in Peer, RecvHelloAckFails(p)
      PROVE  Knowledge'
  <2>1. Pkt("HELLO_ACK", p) \in Packet
    BY PktType DEF Flag
  <2> QED
    BY <1>11, <2>1, HelloAckCount DEF RecvHelloAckFails, Arrives
<1>12. ASSUME NEW p \in Peer, RecvHelloAckDrop(p)
      PROVE  Knowledge'
  <2>1. Pkt("HELLO_ACK", p) \in Packet
    BY PktType DEF Flag
  <2> QED
    BY <1>12, <2>1, HelloAckCount DEF RecvHelloAckDrop, Arrives
<1>13. ASSUME NEW p \in Peer, NEW late \in BOOLEAN, RecvHbSyn(p, late)
      PROVE  Knowledge'
  <2> DEFINE m == [flag |-> "HB_SYN", dst |-> p, late |-> late]
             a == [flag |-> "HB_ACK", dst |-> Other(p), late |-> late]
  <2>1. m \in Packet /\ a \in Packet
    BY OtherPeer DEF Packet, Flag
  <2>2. net[m] > 0 /\ net' = Put(Take(net, m), a)
    BY <1>13 DEF RecvHbSyn, Arrives
  <2>3. Take(net, m) \in [Packet -> Nat]
    BY <2>1, <2>2, TakeType
  <2>4. \A q \in Peer : a # Pkt("HELLO_ACK", q)
    BY DEF Pkt
  <2>5. \A q \in Peer : net'[Pkt("HELLO_ACK", q)] > 0
                       => net[Pkt("HELLO_ACK", q)] > 0
    <3> HIDE DEF m, a
    <3> QED
      BY <2>1, <2>2, <2>3, <2>4, HelloAckCount, SMTT(60)
  <2> QED
    BY <1>13, <2>5 DEF RecvHbSyn
<1>14. ASSUME NEW p \in Peer, NEW late \in BOOLEAN, RecvHbAck(p, late)
      PROVE  Knowledge'
  <2> DEFINE m == [flag |-> "HB_ACK", dst |-> p, late |-> late]
  <2>1. m \in Packet
    BY DEF Packet, Flag
  <2>2. net[m] > 0 /\ net' = Take(net, m)
    BY <1>14 DEF RecvHbAck, Arrives
  <2>3. \A q \in Peer : net'[Pkt("HELLO_ACK", q)] > 0
                       => net[Pkt("HELLO_ACK", q)] > 0
    <3> HIDE DEF m
    <3> QED
      BY <2>1, <2>2, HelloAckCount
  <2> QED
    BY <1>14, <2>3 DEF RecvHbAck
<1>15. ASSUME NEW p \in Peer, RecvPayload(p)
      PROVE  Knowledge'
  <2>1. Pkt("PAYLOAD", p) \in Packet
    BY PktType DEF Flag
  <2> QED
    BY <1>15, <2>1, HelloAckCount DEF RecvPayload, Arrives
<1>16. ASSUME NEW p \in Peer, TunRead(p)
      PROVE  Knowledge'
  <2>1. \A q \in Peer : Pkt("PAYLOAD", Other(p)) # Pkt("HELLO_ACK", q)
    BY DEF Pkt
  <2>2. Pkt("PAYLOAD", Other(p)) \in Packet
    BY OtherPeer, PktType DEF Flag
  <2> QED
    BY <1>16, <2>1, <2>2, HelloAckCount, ZenonT(60) DEF TunRead, Send
<1>17. ASSUME NEW p \in Peer, TunReadParked(p)
      PROVE  Knowledge'
  <2>1. \A q \in Peer : Pkt("PAYLOAD", Other(p)) # Pkt("HELLO_ACK", q)
    BY DEF Pkt
  <2>2. Pkt("PAYLOAD", Other(p)) \in Packet
    BY OtherPeer, PktType DEF Flag
  <2> QED
    BY <1>17, <2>1, <2>2, HelloAckCount DEF TunReadParked, Send
<1>18. ASSUME NEW p \in Peer, ReaderEnds(p)
      PROVE  Knowledge'
  BY <1>18 DEF ReaderEnds
<1>19. ASSUME NEW m \in Packet, Lose(m)
      PROVE  Knowledge'
  BY <1>19, HelloAckCount DEF Lose
<1>20. CASE UNCHANGED vars
  BY <1>20 DEF vars
<1> QED
  BY <1>1, <1>2, <1>3, <1>4, <1>5, <1>6, <1>7, <1>8, <1>9, <1>10,
     <1>11, <1>12, <1>13, <1>14, <1>15, <1>16, <1>17, <1>18, <1>19, <1>20
     DEF Next, Timer, Receive, Reader

(***************************************************************************)
(* A session established by a HELLO_ACK (recved_pkt_unpack) is known to    *)
(* the remote process, unless that was restarted since.                    *)
(***************************************************************************)
THEOREM SessionIsMutual == Spec => []MutualKnowledge
<1>1. Init => ControlInv
  BY DEF Init, ControlInv, TimerDiscipline, TunFollowsSession
<1>2. Init => Knowledge
  BY PktType DEF Init, Knowledge, AckSent, Flag
<1>3. Knowledge => MutualKnowledge
  BY DEF Knowledge, AckSent, MutualKnowledge
<1> QED
  BY <1>1, <1>2, <1>3, ControlStep, KnowledgeStep, TypeCorrect, PTL DEF Spec


-----------------------------------------------------------------------------
(***************************************************************************)
(* Credit.  Flying(q), as a function of the network contents.              *)
(***************************************************************************)
FlyingIn(n, q) == Copies(n, "HB_SYN", Other(q)) + Copies(n, "HB_ACK", q)
Unit(q, m) == IF HeartbeatOf(q, m) THEN 1 ELSE 0

\* A copy put on the wire adds at most one to its kind and nothing elsewhere.
LEMMA CopiesPut ==
  ASSUME NEW n \in [Packet -> Nat], NEW m \in Packet,
         NEW f \in Flag, NEW d \in Peer
  PROVE  /\ Copies(Put(n, m), f, d) \in Nat
         /\ Copies(Put(n, m), f, d) <= Copies(n, f, d)
              + (IF m.flag = f /\ m.dst = d THEN 1 ELSE 0)
<1> DEFINE x == [flag |-> f, dst |-> d, late |-> FALSE]
           y == [flag |-> f, dst |-> d, late |-> TRUE]
<1>1. x \in Packet /\ y \in Packet /\ x # y
  BY DEF Packet
<1>2. (m = x \/ m = y) => m.flag = f /\ m.dst = d
  OBVIOUS
<1> HIDE DEF x, y
<1>3. /\ Put(n, m)[x] \in Nat /\ Put(n, m)[y] \in Nat
      /\ Put(n, m)[x] + Put(n, m)[y]
           <= n[x] + n[y] + (IF m = x \/ m = y THEN 1 ELSE 0)
  BY <1>1 DEF Put
<1> QED
  BY <1>1, <1>2, <1>3 DEF Copies, x, y

\* Taking a copy removes one of its kind and nothing elsewhere.
LEMMA CopiesTake ==
  ASSUME NEW n \in [Packet -> Nat], NEW m \in Packet, n[m] > 0,
         NEW f \in Flag, NEW d \in Peer
  PROVE  Copies(Take(n, m), f, d) = Copies(n, f, d)
              - (IF m.flag = f /\ m.dst = d THEN 1 ELSE 0)
<1> DEFINE x == [flag |-> f, dst |-> d, late |-> FALSE]
           y == [flag |-> f, dst |-> d, late |-> TRUE]
<1>1. x \in Packet /\ y \in Packet /\ x # y
  BY DEF Packet
<1>2. (m = x \/ m = y) <=> m.flag = f /\ m.dst = d
  BY DEF Packet
<1> HIDE DEF x, y
<1>3. Take(n, m)[x] + Take(n, m)[y]
           = n[x] + n[y] - (IF m = x \/ m = y THEN 1 ELSE 0)
  BY <1>1 DEF Take
<1> QED
  BY <1>1, <1>2, <1>3 DEF Copies, x, y

\* Giving up on heartbeats relabels packets, and neither adds nor drops one.
LEMMA CopiesForsake ==
  ASSUME NEW n \in [Packet -> Nat], NEW p \in Peer,
         NEW f \in Flag, NEW d \in Peer
  PROVE  Copies(Forsake(n, p), f, d) = Copies(n, f, d)
<1> DEFINE x == [flag |-> f, dst |-> d, late |-> FALSE]
           y == [flag |-> f, dst |-> d, late |-> TRUE]
<1>1. x \in Packet /\ y \in Packet
  BY DEF Packet
<1>2. Pkt(y.flag, y.dst) = x
  BY DEF Pkt
<1>3. HeartbeatOf(p, x) <=> HeartbeatOf(p, y)
  BY DEF HeartbeatOf
<1>4. ~x.late /\ y.late
  OBVIOUS
<1> HIDE DEF x, y
<1>5. Forsake(n, p)[x] + Forsake(n, p)[y] = n[x] + n[y]
  BY <1>1, <1>2, <1>3, <1>4 DEF Forsake
<1> QED
  BY <1>5 DEF Copies, x, y

\* The copies of one kind under way to one peer are a number.
LEMMA CopiesType ==
  ASSUME NEW n \in [Packet -> Nat], NEW f \in Flag, NEW d \in Peer
  PROVE  Copies(n, f, d) \in Nat
<1>1. /\ [flag |-> f, dst |-> d, late |-> FALSE] \in Packet
      /\ [flag |-> f, dst |-> d, late |-> TRUE] \in Packet
  BY DEF Packet
<1> QED
  BY <1>1 DEF Copies

\* The heartbeats of one peer in flight are a number.
LEMMA FlyingType ==
  ASSUME NEW n \in [Packet -> Nat], NEW q \in Peer
  PROVE  FlyingIn(n, q) \in Nat
<1>1. "HB_SYN" \in Flag /\ "HB_ACK" \in Flag
  BY DEF Flag
<1> QED
  BY <1>1, CopiesType, OtherPeer DEF FlyingIn

\* A packet sent adds at most one heartbeat of p, and only of its own kind.
LEMMA FlyingPut ==
  ASSUME NEW n \in [Packet -> Nat], NEW m \in Packet, NEW q \in Peer
  PROVE  FlyingIn(Put(n, m), q) <= FlyingIn(n, q) + Unit(q, m)
<1>1. "HB_SYN" \in Flag /\ "HB_ACK" \in Flag
  BY DEF Flag
<1>2. \A f \in Flag, d \in Peer : Copies(n, f, d) \in Nat
  BY CopiesType
<1>3. ~(m.flag = "HB_SYN" /\ m.flag = "HB_ACK")
  OBVIOUS
<1>4. /\ Copies(Put(n, m), "HB_SYN", Other(q)) \in Nat
      /\ Copies(Put(n, m), "HB_ACK", q) \in Nat
      /\ Copies(Put(n, m), "HB_SYN", Other(q))
           <= Copies(n, "HB_SYN", Other(q))
              + (IF m.flag = "HB_SYN" /\ m.dst = Other(q) THEN 1 ELSE 0)
      /\ Copies(Put(n, m), "HB_ACK", q) <= Copies(n, "HB_ACK", q)
              + (IF m.flag = "HB_ACK" /\ m.dst = q THEN 1 ELSE 0)
  BY <1>1, OtherPeer, CopiesPut
<1> QED
  BY <1>1, <1>2, <1>3, <1>4, OtherPeer DEF FlyingIn, Unit, HeartbeatOf

\* A heartbeat packet of p that arrives or is lost is one less in flight.
LEMMA FlyingTake ==
  ASSUME NEW n \in [Packet -> Nat], NEW m \in Packet, n[m] > 0,
         NEW q \in Peer
  PROVE  FlyingIn(Take(n, m), q) = FlyingIn(n, q) - Unit(q, m)
<1>1. "HB_SYN" \in Flag /\ "HB_ACK" \in Flag
  BY DEF Flag
<1>2. \A f \in Flag, d \in Peer : Copies(n, f, d) \in Nat
  BY CopiesType
<1>3. ~(m.flag = "HB_SYN" /\ m.flag = "HB_ACK")
  OBVIOUS
<1>4. /\ Copies(Take(n, m), "HB_SYN", Other(q))
           = Copies(n, "HB_SYN", Other(q))
              - (IF m.flag = "HB_SYN" /\ m.dst = Other(q) THEN 1 ELSE 0)
      /\ Copies(Take(n, m), "HB_ACK", q) = Copies(n, "HB_ACK", q)
              - (IF m.flag = "HB_ACK" /\ m.dst = q THEN 1 ELSE 0)
  BY <1>1, OtherPeer, CopiesTake
<1> QED
  BY <1>1, <1>2, <1>3, <1>4, OtherPeer DEF FlyingIn, Unit, HeartbeatOf

\* A breakage or a restart changes no number of heartbeats in flight.
LEMMA FlyingForsake ==
  ASSUME NEW n \in [Packet -> Nat], NEW p \in Peer, NEW q \in Peer
  PROVE  FlyingIn(Forsake(n, p), q) = FlyingIn(n, q)
BY CopiesForsake, OtherPeer DEF FlyingIn, Flag


(***************************************************************************)
(* CreditBound in terms of FlyingIn.  A connection that breaks hands out   *)
(* three units of credit and stops being helloed; the device it leaves     *)
(* behind pays for them.                                                   *)
(***************************************************************************)
Credit ==
  \A q \in Peer :
    syn_counts[q] + FlyingIn(net, q)
      <= 3 * (1 + devs[q] - (IF helloed[q] THEN 1 ELSE 0) + crashes[q])

\* No step makes credit out of nothing.
LEMMA CreditStep ==
  TypeOK /\ TypeOK' /\ ControlInv /\ Credit /\ [Next]_vars => Credit'
<1> SUFFICES ASSUME TypeOK, TypeOK', ControlInv, Credit, [Next]_vars
             PROVE  Credit'
  OBVIOUS
<1> USE DEF TypeOK, Credit, session, timers, device, process, UtunClose
<1>t. \A q \in Peer : FlyingIn(net, q) \in Nat /\ FlyingIn(net', q) \in Nat
  BY FlyingType
<1>1. ASSUME NEW p \in Peer, Start(p)
      PROVE  Credit'
  BY <1>1 DEF Start
<1>2. ASSUME NEW p \in Peer, Crash(p)
      PROVE  Credit'
  <2>1. \A q \in Peer : FlyingIn(net', q) = FlyingIn(net, q)
    BY <1>2, FlyingForsake, SMTT(60) DEF Crash
  <2> QED
    BY <1>2, <2>1, <1>t DEF Crash
<1>3. ASSUME NEW p \in Peer, FindRemotePeerOk(p)
      PROVE  Credit'
  BY <1>3 DEF FindRemotePeerOk
<1>4. ASSUME NEW p \in Peer, FindRemotePeerFailed(p)
      PROVE  Credit'
  BY <1>4 DEF FindRemotePeerFailed
<1>5. ASSUME NEW p \in Peer, UdpHolingHello(p)
      PROVE  Credit'
  <2> DEFINE m == Pkt("HELLO_SYN", Other(p))
  <2>1. m \in Packet /\ \A q \in Peer : Unit(q, m) = 0
    BY OtherPeer, PktType DEF Flag, Pkt, Unit, HeartbeatOf
  <2>2. net' = net \/ net' = Put(net, m)
    BY <1>5 DEF UdpHolingHello, Send
  <2> HIDE DEF m
  <2>3. \A q \in Peer : FlyingIn(net', q) <= FlyingIn(net, q)
    BY <2>1, <2>2, FlyingPut, <1>t, SMTT(60)
  <2> QED
    BY <1>5, <2>3, <1>t DEF UdpHolingHello
<1>6. ASSUME NEW p \in Peer, HeartbeatSend(p)
      PROVE  Credit'
  <2> DEFINE m == Pkt("HB_SYN", Other(p))
  <2>1. m \in Packet
    BY OtherPeer, PktType DEF Flag
  <2>2. \A q \in Peer : Unit(q, m) = IF q = p THEN 1 ELSE 0
    BY OtherPeer DEF Pkt, Unit, HeartbeatOf
  <2>3. net' = Put(net, m)
    BY <1>6 DEF HeartbeatSend, Send
  <2> HIDE DEF m
  <2>4. \A q \in Peer : FlyingIn(net', q)
                       <= FlyingIn(net, q) + (IF q = p THEN 1 ELSE 0)
    BY <2>1, <2>2, <2>3, FlyingPut
  <2> QED
    BY <1>6, <2>4, <1>t DEF HeartbeatSend
<1>7. ASSUME NEW p \in Peer, HeartbeatBroken(p)
      PROVE  Credit'
  <2>1. \A q \in Peer : FlyingIn(net', q) = FlyingIn(net, q)
    BY <1>7, FlyingForsake DEF HeartbeatBroken
  <2>2. helloed[p]
    BY <1>7 DEF HeartbeatBroken, ControlInv, TimerDiscipline
  <2> QED
    BY <1>7, <2>1, <2>2, <1>t DEF HeartbeatBroken
<1>8. ASSUME NEW p \in Peer, NEW m \in Packet, RecvUnknownSource(p, m)
      PROVE  Credit'
  <2>1. \A q \in Peer : FlyingIn(net', q) <= FlyingIn(net, q)
    BY <1>8, FlyingTake, <1>t DEF RecvUnknownSource, Arrives, Unit
  <2> QED
    BY <1>8, <2>1, <1>t DEF RecvUnknownSource
<1>9. ASSUME NEW p \in Peer, RecvHelloSyn(p)
      PROVE  Credit'
  <2> DEFINE m == Pkt("HELLO_SYN", p)
             a == Pkt("HELLO_ACK", Other(p))
  <2>1. m \in Packet /\ a \in Packet
    BY OtherPeer, PktType DEF Flag
  <2>2. \A q \in Peer : Unit(q, m) = Unit(q, a)
    BY DEF Unit, HeartbeatOf, Pkt
  <2>3. net[m] > 0 /\ net' = Put(Take(net, m), a)
    BY <1>9 DEF RecvHelloSyn, Arrives, Send
  <2>4. Take(net, m) \in [Packet -> Nat]
    BY <2>1, <2>3, TakeType
  <2> HIDE DEF m, a
  <2>5. \A q \in Peer : /\ FlyingIn(Take(net, m), q) = FlyingIn(net, q) - Unit(q, m)
                       /\ FlyingIn(net', q) <= FlyingIn(Take(net, m), q) + Unit(q, a)
    BY <2>1, <2>3, <2>4, FlyingTake, FlyingPut
  <2>6. \A q \in Peer : FlyingIn(net', q) <= FlyingIn(net, q)
    BY <2>2, <2>4, <2>5, <1>t, FlyingType DEF Unit
  <2> QED
    BY <1>9, <2>6, <1>t DEF RecvHelloSyn
<1>10. ASSUME NEW p \in Peer, RecvHelloAckOpens(p)
      PROVE  Credit'
  <2>1. Pkt("HELLO_ACK", p) \in Packet
    BY PktType DEF Flag
  <2>2. \A q \in Peer : FlyingIn(net', q) <= FlyingIn(net, q)
    BY <1>10, <2>1, FlyingTake, <1>t, SMTT(60) DEF RecvHelloAckOpens, Arrives, Unit
  <2>3. devs[p] < NumDev[p]
    <3>1. NumDev[p] \in Nat
      BY NumDevAssumption
    <3>2. devs[p] \in Nat
      OBVIOUS
    <3>3. devs[p] < NumDev[p] - 1
      BY <1>10 DEF RecvHelloAckOpens, UtunOpens
    <3> QED
      BY <3>1, <3>2, <3>3
  <2>4. devs' = [devs EXCEPT ![p] = devs[p] + 1]
    BY <1>10, <2>3 DEF RecvHelloAckOpens, DevsAfterOpen
  <2>5. ~helloed[p] /\ helloed' = [helloed EXCEPT ![p] = TRUE]
    BY <1>10 DEF RecvHelloAckOpens
  <2>6. syn_counts' = syn_counts /\ crashes' = crashes
    BY <1>10 DEF RecvHelloAckOpens
  <2> QED
    BY <2>2, <2>4, <2>5, <2>6, <1>t
<1>11. ASSUME NEW p \in Peer, RecvHelloAckFails(p)
      PROVE  Credit'
  <2>1. Pkt("HELLO_ACK", p) \in Packet
    BY PktType DEF Flag
  <2>2. \A q \in Peer : FlyingIn(net', q) <= FlyingIn(net, q)
    BY <1>11, <2>1, FlyingTake, <1>t, SMTT(60) DEF RecvHelloAckFails, Arrives, Unit
  <2> QED
    BY <1>11, <2>2, NumDevAssumption, <1>t DEF RecvHelloAckFails, DevsAfterOpen
<1>12. ASSUME NEW p \in Peer, RecvHelloAckDrop(p)
      PROVE  Credit'
  <2>1. Pkt("HELLO_ACK", p) \in Packet
    BY PktType DEF Flag
  <2>2. \A q \in Peer : FlyingIn(net', q) <= FlyingIn(net, q)
    BY <1>12, <2>1, FlyingTake, <1>t, SMTT(60) DEF RecvHelloAckDrop, Arrives, Unit
  <2> QED
    BY <1>12, <2>2, <1>t DEF RecvHelloAckDrop
<1>13. ASSUME NEW p \in Peer, NEW late \in BOOLEAN, RecvHbSyn(p, late)
      PROVE  Credit'
  <2> DEFINE m == [flag |-> "HB_SYN", dst |-> p, late |-> late]
             a == [flag |-> "HB_ACK", dst |-> Other(p), late |-> late]
  <2>1. m \in Packet /\ a \in Packet
    BY OtherPeer DEF Packet, Flag
  <2>2. \A q \in Peer : Unit(q, m) = Unit(q, a)
    BY OtherPeer DEF Unit, HeartbeatOf
  <2>3. net[m] > 0 /\ net' = Put(Take(net, m), a)
    BY <1>13 DEF RecvHbSyn, Arrives
  <2>4. Take(net, m) \in [Packet -> Nat]
    BY <2>1, <2>3, TakeType
  <2> HIDE DEF m, a
  <2>5. \A q \in Peer : /\ FlyingIn(Take(net, m), q) = FlyingIn(net, q) - Unit(q, m)
                       /\ FlyingIn(net', q) <= FlyingIn(Take(net, m), q) + Unit(q, a)
    BY <2>1, <2>3, <2>4, FlyingTake, FlyingPut
  <2>6. \A q \in Peer : FlyingIn(net', q) <= FlyingIn(net, q)
    BY <2>2, <2>4, <2>5, <1>t, FlyingType, SMTT(60) DEF Unit
  <2> QED
    BY <1>13, <2>6, <1>t DEF RecvHbSyn
<1>14. ASSUME NEW p \in Peer, NEW late \in BOOLEAN, RecvHbAck(p, late)
      PROVE  Credit'
  <2> DEFINE m == [flag |-> "HB_ACK", dst |-> p, late |-> late]
  <2>1. m \in Packet
    BY DEF Packet, Flag
  <2>2. \A q \in Peer : Unit(q, m) = IF q = p THEN 1 ELSE 0
    BY DEF Unit, HeartbeatOf
  <2>3. net[m] > 0 /\ net' = Take(net, m)
    BY <1>14 DEF RecvHbAck, Arrives
  <2> HIDE DEF m
  <2>4. \A q \in Peer : FlyingIn(net', q)
                       = FlyingIn(net, q) - (IF q = p THEN 1 ELSE 0)
    BY <2>1, <2>2, <2>3, FlyingTake
  <2> QED
    BY <1>14, <2>4, <1>t DEF RecvHbAck
<1>15. ASSUME NEW p \in Peer, RecvPayload(p)
      PROVE  Credit'
  <2>1. Pkt("PAYLOAD", p) \in Packet
    BY PktType DEF Flag
  <2>2. \A q \in Peer : FlyingIn(net', q) <= FlyingIn(net, q)
    BY <1>15, <2>1, FlyingTake, <1>t, SMTT(60) DEF RecvPayload, Arrives, Unit
  <2> QED
    BY <1>15, <2>2, <1>t DEF RecvPayload
<1>16. ASSUME NEW p \in Peer, TunRead(p)
      PROVE  Credit'
  <2> DEFINE m == Pkt("PAYLOAD", Other(p))
  <2>1. m \in Packet /\ \A q \in Peer : Unit(q, m) = 0
    BY OtherPeer, PktType DEF Flag, Pkt, Unit, HeartbeatOf
  <2>2. net' = net \/ net' = Put(net, m)
    BY <1>16 DEF TunRead, Send
  <2> HIDE DEF m
  <2>3. \A q \in Peer : FlyingIn(net', q) <= FlyingIn(net, q)
    BY <2>1, <2>2, FlyingPut, <1>t
  <2> QED
    BY <1>16, <2>3, <1>t DEF TunRead
<1>17. ASSUME NEW p \in Peer, TunReadParked(p)
      PROVE  Credit'
  <2> DEFINE m == Pkt("PAYLOAD", Other(p))
  <2>1. m \in Packet /\ \A q \in Peer : Unit(q, m) = 0
    BY OtherPeer, PktType DEF Flag, Pkt, Unit, HeartbeatOf
  <2>2. net' = net \/ net' = Put(net, m)
    BY <1>17 DEF TunReadParked, Send
  <2> HIDE DEF m
  <2>3. \A q \in Peer : FlyingIn(net', q) <= FlyingIn(net, q)
    BY <2>1, <2>2, FlyingPut, <1>t
  <2> QED
    BY <1>17, <2>3, <1>t DEF TunReadParked
<1>18. ASSUME NEW p \in Peer, ReaderEnds(p)
      PROVE  Credit'
  BY <1>18, <1>t DEF ReaderEnds
<1>19. ASSUME NEW m \in Packet, Lose(m)
      PROVE  Credit'
  <2>1. \A q \in Peer : FlyingIn(net', q) <= FlyingIn(net, q)
    BY <1>19, FlyingTake, <1>t DEF Lose, Unit
  <2> QED
    BY <1>19, <2>1, <1>t DEF Lose
<1>20. CASE UNCHANGED vars
  BY <1>20 DEF vars
<1> QED
  BY <1>1, <1>2, <1>3, <1>4, <1>5, <1>6, <1>7, <1>8, <1>9, <1>10,
     <1>11, <1>12, <1>13, <1>14, <1>15, <1>16, <1>17, <1>18, <1>19, <1>20
     DEF Next, Timer, Receive, Reader

(***************************************************************************)
(* pr->syn_counts, with everything on the wire that may still raise it, is *)
(* bounded by three units per session, breakage and restart: the unguarded *)
(* increment in recved_pkt_unpack cannot run away.                         *)
(***************************************************************************)
THEOREM CreditIsBounded == Spec => []CreditBound
<1>1. Init => ControlInv
  BY DEF Init, ControlInv, TimerDiscipline, TunFollowsSession
<1>2. Init => Credit
  <2> SUFFICES ASSUME Init, NEW q \in Peer
               PROVE  syn_counts[q] + FlyingIn(net, q)
                        <= 3 * (1 + devs[q] - (IF helloed[q] THEN 1 ELSE 0)
                                + crashes[q])
    BY DEF Credit
  <2>1. \A f \in Flag, d \in Peer : Copies(net, f, d) = 0
    <3> TAKE f \in Flag, d \in Peer
    <3>1. /\ [flag |-> f, dst |-> d, late |-> FALSE] \in Packet
          /\ [flag |-> f, dst |-> d, late |-> TRUE] \in Packet
      BY DEF Packet
    <3> QED
      BY <3>1 DEF Init, Copies
  <2>2. "HB_SYN" \in Flag /\ "HB_ACK" \in Flag
    BY DEF Flag
  <2>3. FlyingIn(net, q) = 0
    BY <2>1, <2>2, OtherPeer DEF FlyingIn
  <2>4. /\ syn_counts[q] = 3 /\ devs[q] = 0 /\ crashes[q] = 0
        /\ helloed[q] = FALSE
    BY DEF Init
  <2> QED
    BY <2>3, <2>4
<1>3. Credit => CreditBound
  BY DEF Credit, CreditBound, FlyingIn, Flying
<1> QED
  BY <1>1, <1>2, <1>3, ControlStep, CreditStep, TypeCorrect, PTL DEF Spec

=============================================================================
