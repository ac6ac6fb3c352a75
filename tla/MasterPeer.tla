----------------------------- MODULE MasterPeer -----------------------------
(***************************************************************************)
(* Master peers (src/src/master_peer.c) and the registrations they keep.   *)
(* A peer process registers with its home master (registry_peer in peer.c) *)
(* and each master asks one neighbour, every few seconds and synchronously *)
(* inside its event loop, for a ping, for other masters and for the peers  *)
(* it knows.  While a master waits for its answer it serves nobody.        *)
(*                                                                         *)
(* A run of a peer process is an element of Run: it has a node id, drawn   *)
(* at random by init_peer, and the external address get_nat_type found.    *)
(***************************************************************************)
EXTENDS Naturals, Sequences, FiniteSets, Bucket

CONSTANTS
  Master,       \* master peers
  Neighbour,    \* the master_peer_ipv4 each master is configured with
  NumRun,       \* peer processes started over time, numbered 1..NumRun
  Vlan, Home,   \* vlan_local_ipv4 and master peer in the configuration of a run
  NodeId,       \* node id of a run
  Byte,         \* values of the byte after a node id, 0 among them
  GossipLimit,  \* items in one response (10)
  MaxTry        \* sends of a run in registry_peer (4)

Run == 1 .. NumRun

ASSUME MasterAssumption ==
  /\ Neighbour \in [Master -> Master]
  /\ \A m \in Master : Neighbour[m] # m
  /\ NumRun \in Nat
  /\ Home \in [Run -> Master]
  /\ DOMAIN Vlan = Run /\ DOMAIN NodeId = Run
  /\ 0 \in Byte /\ IsFiniteSet(Byte)
  /\ GossipLimit \in Nat \ {0} /\ MaxTry \in [Run -> Nat \ {0}]

(***************************************************************************)
(* PROBE is a ping or a discovery.  Neither changes a bucket: a ping       *)
(* carries nothing, and PMP_discovery_rsp_unpack reads the item count      *)
(* without ntohs, which makes every count but zero too large for the       *)
(* datagram, so the response is refused.                                   *)
(***************************************************************************)
Kind == {"PROBE", "G_PS"}
None == "none"

(***************************************************************************)
(* A bucket item: node_id as strcmp compares it, the 20 characters of the  *)
(* id and the byte after them, and the address, which is that of the run.  *)
(***************************************************************************)
Item(r, t) == [node_id |-> <<NodeId[r], t>>, vlan_ipv4 |-> Vlan[r], addr |-> r]

VARIABLES
  peer_bkt,  \* mstp->peer_bkt of each master
  stuck,     \* the event loop waits for ever in pop_back_bucket
  rpc,       \* the kind of answer a master's event loop waits for, or None
  inbox,     \* requests in a master's socket whose sender still waits
  reply,     \* answer on its way to a waiting master, or <<>>
  proc,      \* state of each run
  tries,     \* registration requests sent by a run
  reg, ack   \* runs with a request, with an answer in flight

vars == <<peer_bkt, stuck, rpc, inbox, reply, proc, tries, reg, ack>>
peers   == <<proc, tries, reg, ack>>
masters == <<peer_bkt, stuck, rpc, inbox, reply>>

TypeOK ==
  /\ \A m \in Master : Len(peer_bkt[m]) <= MaxBucket
  /\ stuck \in [Master -> BOOLEAN]
  /\ rpc \in [Master -> Kind \cup {None}]
  /\ inbox \in [Master -> SUBSET [from : Master, kind : Kind]]
  /\ proc \in [Run -> {"off", "registering", "running", "gone"}]
  /\ \A r \in Run : tries[r] \in 0 .. MaxTry[r]
  /\ reg \subseteq Run /\ ack \subseteq Run

Init ==
  /\ peer_bkt = [m \in Master |-> <<>>]
  /\ stuck = [m \in Master |-> FALSE]
  /\ rpc = [m \in Master |-> None]
  /\ inbox = [m \in Master |-> {}]
  /\ reply = [m \in Master |-> <<>>]
  /\ proc = [r \in Run |-> "off"]
  /\ tries = [r \in Run |-> 0]
  /\ reg = {}
  /\ ack = {}

-----------------------------------------------------------------------------
(* Peer processes: init_peer, registry_peer and the end of a process. *)

\* At most one process at a time runs with one configuration file.
Start(r) ==
  /\ proc[r] = "off"
  /\ \A s \in Run : s < r /\ Vlan[s] = Vlan[r] => proc[s] = "gone"
  /\ proc' = [proc EXCEPT ![r] = "registering"]
  /\ tries' = [tries EXCEPT ![r] = 1]
  /\ reg' = reg \cup {r}
  /\ UNCHANGED <<ack, masters>>

\* The receive timeout: send again on the same socket, or give up.
Retry(r) ==
  /\ proc[r] = "registering"
  /\ IF tries[r] < MaxTry[r]
     THEN /\ tries' = [tries EXCEPT ![r] = @ + 1]
          /\ reg' = reg \cup {r}
          /\ UNCHANGED proc
     ELSE /\ proc' = [proc EXCEPT ![r] = "gone"]
          /\ UNCHANGED <<tries, reg>>
  /\ UNCHANGED <<ack, masters>>

\* Any datagram ends the registration: the answer to an earlier try too.
Registered(r) ==
  /\ r \in ack
  /\ proc[r] = "registering"
  /\ proc' = [proc EXCEPT ![r] = "running"]
  /\ ack' = ack \ {r}
  /\ UNCHANGED <<tries, reg, masters>>

Exit(r) ==
  /\ proc[r] = "running"
  /\ proc' = [proc EXCEPT ![r] = "gone"]
  /\ UNCHANGED <<tries, reg, ack, masters>>

LosePeerPacket ==
  \/ \E r \in reg : reg' = reg \ {r} /\ UNCHANGED <<proc, tries, ack, masters>>
  \/ \E r \in ack : ack' = ack \ {r} /\ UNCHANGED <<proc, tries, reg, masters>>

-----------------------------------------------------------------------------
(* Master peers. *)

\* The event loop is free to run a handler.
Idle(m) == ~stuck[m] /\ rpc[m] = None

\* udp_recv_cb, R_P: the answer does not tell whether the item was new.
ServeRegistry(m, r) ==
  LET item == Item(r, 0) IN
  /\ Idle(m)
  /\ r \in reg /\ Home[r] = m
  /\ reg' = reg \ {r}
  /\ IF Blocks(peer_bkt[m], item)
     THEN /\ stuck' = [stuck EXCEPT ![m] = TRUE]
          /\ UNCHANGED <<peer_bkt, ack>>
     ELSE /\ peer_bkt' =
               [peer_bkt EXCEPT ![m] = push_front_bucket(@, item)]
          /\ ack' = ack \cup {r}
          /\ UNCHANGED stuck
  /\ UNCHANGED <<rpc, inbox, reply, proc, tries>>

\* ping_peer, discovery_proc, get_peers: send the request, then wait.
Ask(m, k) ==
  /\ Idle(m)
  /\ rpc' = [rpc EXCEPT ![m] = k]
  /\ inbox' = [inbox EXCEPT ![Neighbour[m]] =
                 @ \cup {[from |-> m, kind |-> k]}]
  /\ UNCHANGED <<peer_bkt, stuck, reply, peers>>

(***************************************************************************)
(* udp_recv_cb, PING, DISC and G_PS.  PMP_get_peers_rsp_pkt refuses an     *)
(* empty list, and then no answer is sent.  On the wire an item has its 20 *)
(* characters of node id only.                                             *)
(***************************************************************************)
ServeRequest(m, q) ==
  /\ Idle(m)
  /\ q \in inbox[m]
  /\ inbox' = [inbox EXCEPT ![m] = @ \ {q}]
  /\ reply' =
       IF q.kind # "G_PS" THEN [reply EXCEPT ![q.from] = <<0>>]
       ELSE LET top == get_top_bucket_items(peer_bkt[m], GossipLimit)
            IN  [reply EXCEPT ![q.from] = [i \in DOMAIN top |-> top[i].addr]]
  /\ UNCHANGED <<peer_bkt, stuck, rpc, peers>>

\* The answer to a ping, or to a discovery: no bucket changes.
Answered(m) ==
  /\ rpc[m] = "PROBE"
  /\ reply[m] # <<>>
  /\ rpc' = [rpc EXCEPT ![m] = None]
  /\ reply' = [reply EXCEPT ![m] = <<>>]
  /\ UNCHANGED <<peer_bkt, stuck, inbox, peers>>

\* Mutant: the loop over the items of a response ends one item early.
GotPeersShort(m) ==
  /\ rpc[m] = "G_PS"
  /\ reply[m] # <<>>
  /\ \E t \in Byte :
       LET in == [i \in 1 .. Len(reply[m]) - 1 |-> Item(reply[m][i], t)]
           s  == PushAll(peer_bkt[m], in)
       IN  /\ peer_bkt' = [peer_bkt EXCEPT ![m] = s.bkt]
           /\ stuck' = [stuck EXCEPT ![m] = s.stuck]
  /\ rpc' = [rpc EXCEPT ![m] = None]
  /\ reply' = [reply EXCEPT ![m] = <<>>]
  /\ UNCHANGED <<inbox, peers>>

(***************************************************************************)
(* get_peers with PMP_get_peers_rsp_unpack: the items are pushed in the    *)
(* order in which they came.  The local item is not initialised and only   *)
(* 20 bytes of node_id are copied: the byte after them is whatever the     *)
(* stack holds, the same for all items of one response.                    *)
(***************************************************************************)
GotPeers(m) ==
  /\ rpc[m] = "G_PS"
  /\ reply[m] # <<>>
  /\ \E t \in Byte :
       LET in == [i \in DOMAIN reply[m] |-> Item(reply[m][i], t)]
           s  == PushAll(peer_bkt[m], in)
       IN  /\ peer_bkt' = [peer_bkt EXCEPT ![m] = s.bkt]
           /\ stuck' = [stuck EXCEPT ![m] = s.stuck]
  /\ rpc' = [rpc EXCEPT ![m] = None]
  /\ reply' = [reply EXCEPT ![m] = <<>>]
  /\ UNCHANGED <<inbox, peers>>

(***************************************************************************)
(* The receive timeout.  Each call uses a socket of its own, so a request  *)
(* served later is answered to nobody: it is dropped here.                 *)
(***************************************************************************)
Timeout(m) ==
  /\ rpc[m] # None
  /\ rpc' = [rpc EXCEPT ![m] = None]
  /\ reply' = [reply EXCEPT ![m] = <<>>]
  /\ inbox' = [n \in Master |-> {q \in inbox[n] : q.from # m}]
  /\ UNCHANGED <<peer_bkt, stuck, peers>>

PeerNext ==
  \/ \E r \in Run : Start(r) \/ Retry(r) \/ Registered(r) \/ Exit(r)
  \/ LosePeerPacket

MasterNext ==
  \E m \in Master :
    \/ \E r \in Run : ServeRegistry(m, r)
    \/ \E k \in Kind : Ask(m, k)
    \/ \E q \in inbox[m] : ServeRequest(m, q)
    \/ Answered(m)
    \/ GotPeers(m)
    \/ Timeout(m)

Next == PeerNext \/ MasterNext

Spec == Init /\ [][Next]_vars

-----------------------------------------------------------------------------
Known(m, r) == \E i \in DOMAIN peer_bkt[m] : peer_bkt[m][i].addr = r

\* What a master answers to F_P (PMP_find_peer_req_unpack in pmp.c).
Find(m, v) == get_item_by_vlan_ipv4(peer_bkt[m], v)

(***************************************************************************)
(* No bucket holds a node id twice, whatever retries of registry_peer and  *)
(* responses of the neighbour bring: what is told apart by strcmp is told  *)
(* apart in the bucket.                                                    *)
(***************************************************************************)
NoDuplicateIds ==
  \A m \in Master : \A i, j \in DOMAIN peer_bkt[m] :
    peer_bkt[m][i].node_id = peer_bkt[m][j].node_id => i = j

\* init_peer draws node ids at random: no two peers got the same one.
IdsApart == \A r, s \in Run : NodeId[r] = NodeId[s] => Vlan[r] = Vlan[s]

(***************************************************************************)
(* A process that was told of its registration ("Registry peer success",   *)
(* peer.c:100) can be found at its home master by its vlan address, as     *)
(* long as no two peers have the same node id: nothing that happens        *)
(* between masters takes it out of the bucket.                             *)
(***************************************************************************)
AckedIsFindable ==
  IdsApart => \A r \in Run :
                proc[r] = "running" => Find(Home[r], Vlan[r]) # <<>>

(***************************************************************************)
(* A master stops for ever in push_front_bucket (bucket.c:46) only after   *)
(* more distinct node ids than the bucket has room for were started, each  *)
(* counted once per value the stray byte takes: retries, duplicates and    *)
(* rounds of gossip between masters alone never fill a bucket.             *)
(***************************************************************************)
StuckOnlyWhenFull ==
  (\E m \in Master : stuck[m])
    => Cardinality({NodeId[r] : r \in {x \in Run : tries[x] > 0}})
         * Cardinality(Byte) > MaxBucket

\* A registration is among those the next response of m is made of.
Offered(m, r) ==
  LET top == get_top_bucket_items(peer_bkt[m], GossipLimit)
  IN  \E i \in DOMAIN top : top[i].addr = r

(***************************************************************************)
(* When the get_peers calls of a master keep getting answers, it learns    *)
(* every registration that stays among the newest GossipLimit items of its *)
(* neighbour.  One that newer items push past that limit between two       *)
(* answers (10 of 255: bucket.c:61, master_peer.c:71) may never be told.   *)
(***************************************************************************)
RegistrationSpreads ==
  \A m \in Master :
    []<><<GotPeers(m)>>_vars =>
      \A r \in Run :
        Offered(Neighbour[m], r) ~> (Known(m, r) \/ ~Offered(Neighbour[m], r))

(***************************************************************************)
(* bucket.c:148: "Make sure the node information you get is most newest."  *)
(* A master that holds the item the home master answers with gives the     *)
(* same answer.                                                            *)
(***************************************************************************)
NewestEverywhere ==
  \A r \in Run, m \in Master :
    Known(m, r) /\ Find(Home[r], Vlan[r]) = <<Item(r, 0)>>
      => Find(m, Vlan[r])[1].addr = r

=============================================================================
