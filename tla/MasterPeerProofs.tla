-------------------------- MODULE MasterPeerProofs --------------------------
(***************************************************************************)
(* Proofs about MasterPeer and Bucket, for any number of masters and runs, *)
(* any bucket size and any number of items in a response.                  *)
(***************************************************************************)
EXTENDS MasterPeer, NatLemmas, SequenceTheorems, FiniteSetTheorems, TLAPS

-----------------------------------------------------------------------------
(* The bucket. *)

\* A bucket of items of I: not above its size, no node id twice.
Sound(b, I) ==
  /\ b \in Seq(I)
  /\ Len(b) <= MaxBucket
  /\ \A i, j \in DOMAIN b : b[i].node_id = b[j].node_id => i = j

\* c has the items of b in their places, and perhaps more behind them.
Prolongs(c, b) ==
  /\ Len(b) <= Len(c)
  /\ \A i \in DOMAIN b : c[i] = b[i]

\* Where successive pushes into b can be after some of them.
Pushing(s, b, I) ==
  /\ s \in [bkt : Seq(I), stuck : BOOLEAN]
  /\ Sound(s.bkt, I)
  /\ Prolongs(s.bkt, b)
  /\ s.stuck => \E item \in I : Blocks(s.bkt, item)

(***************************************************************************)
(* push_front_bucket (bucket.c:38) leaves a sound bucket when it returns,  *)
(* with every item where it was and the pushed one among them.             *)
(***************************************************************************)
LEMMA PushSound ==
  ASSUME NEW I, NEW b, Sound(b, I), NEW item \in I, ~Blocks(b, item)
  PROVE  /\ Sound(push_front_bucket(b, item), I)
         /\ Prolongs(push_front_bucket(b, item), b)
         /\ Holds(push_front_bucket(b, item), item)
<1>1. b \in Seq(I) /\ Len(b) \in Nat /\ DOMAIN b = 1 .. Len(b)
  BY DEF Sound
<1>2. CASE Holds(b, item)
  BY <1>1, <1>2 DEF push_front_bucket, Prolongs
<1>3. CASE ~Holds(b, item)
  <2> DEFINE c == Append(b, item)
  <2>1. /\ c \in Seq(I)
        /\ Len(c) = Len(b) + 1
        /\ DOMAIN c = 1 .. Len(b) + 1
        /\ \A i \in 1 .. Len(b) : c[i] = b[i]
        /\ c[Len(b) + 1] = item
    BY <1>1, AppendProperties
  <2>2. Len(b) # MaxBucket
    BY <1>3 DEF Blocks
  <2> HIDE DEF c
  <2>3. Len(c) <= MaxBucket
    <3>1. Len(b) <= MaxBucket
      BY DEF Sound
    <3>2. MaxBucket \in Nat
      BY MaxBucketAssumption
    <3>3. Len(b) \in Nat /\ Len(c) = Len(b) + 1
      BY <1>1, <2>1
    <3> QED
      BY <2>2, <3>1, <3>2, <3>3
  <2>4. \A i \in 1 .. Len(b) : c[i].node_id # item.node_id
    BY <1>1, <1>3, <2>1 DEF Holds
  <2>5. \A i, j \in DOMAIN c : c[i].node_id = c[j].node_id => i = j
    <3> SUFFICES ASSUME NEW i \in DOMAIN c, NEW j \in DOMAIN c,
                        c[i].node_id = c[j].node_id
                 PROVE  i = j
      OBVIOUS
    <3>1. \/ i \in 1 .. Len(b) /\ j \in 1 .. Len(b)
          \/ i = Len(b) + 1 /\ j = Len(b) + 1
      BY <1>1, <2>1, <2>4
    <3> QED
      BY <1>1, <2>1, <3>1 DEF Sound
  <2>6. Sound(c, I) /\ Prolongs(c, b) /\ Holds(c, item)
    BY <1>1, <2>1, <2>3, <2>5 DEF Sound, Prolongs, Holds
  <2> QED
    BY <1>3, <2>6 DEF push_front_bucket, c
<1> QED
  BY <1>2, <1>3

\* One more push of a response.
LEMMA PushStepSound ==
  ASSUME NEW I, NEW b, NEW s, Pushing(s, b, I), NEW item \in I
  PROVE  Pushing(PushStep(s, item), b, I)
<1>1. CASE s.stuck
  BY <1>1 DEF PushStep
<1>2. CASE ~s.stuck /\ Blocks(s.bkt, item)
  BY <1>2 DEF PushStep, Pushing
<1>3. CASE ~s.stuck /\ ~Blocks(s.bkt, item)
  <2> DEFINE c == push_front_bucket(s.bkt, item)
  <2>1. Sound(c, I) /\ Prolongs(c, s.bkt)
    BY <1>3, PushSound DEF Pushing
  <2>2. Prolongs(c, b)
    BY <2>1 DEF Prolongs, Pushing, Sound
  <2> HIDE DEF c
  <2>3. PushStep(s, item) = [s EXCEPT !.bkt = c]
    BY <1>3 DEF PushStep, c
  <2> QED
    BY <1>3, <2>1, <2>2, <2>3 DEF Pushing, Sound
<1> QED
  BY <1>1, <1>2, <1>3

(***************************************************************************)
(* The pushes of a response (PMP_get_peers_rsp_unpack) are made one after  *)
(* the other: the function of their results exists.                        *)
(***************************************************************************)
LEMMA PushesDefined ==
  ASSUME NEW b, NEW items, Len(items) \in Nat
  PROVE  \E f : /\ f[0] = [bkt |-> b, stuck |-> FALSE]
                /\ \A k \in 1 .. Len(items) : f[k] = PushStep(f[k - 1], items[k])
                /\ PushAll(b, items) = f[Len(items)]
<1> DEFINE Val(f, i) == IF i = 0 THEN [bkt |-> b, stuck |-> FALSE]
                        ELSE PushStep(f[i - 1], items[i])
           Upto(k) == \E f : f = [i \in 0 .. k |-> Val(f, i)]
           Bad == {k \in 0 .. Len(items) : ~Upto(k)}
<1>1. Upto(0)
  <2> WITNESS [i \in 0 .. 0 |-> [bkt |-> b, stuck |-> FALSE]]
  <2> QED
    OBVIOUS
<1>2. ASSUME NEW k \in Nat, Upto(k)
      PROVE  Upto(k + 1)
  <2> PICK f : f = [i \in 0 .. k |-> Val(f, i)]
    BY <1>2
  <2> DEFINE g == [i \in 0 .. k + 1 |->
                     IF i = k + 1 THEN PushStep(f[k], items[k + 1]) ELSE f[i]]
  <2> HIDE DEF Val
  <2>1. ASSUME NEW i \in 0 .. k + 1
        PROVE  g[i] = Val(g, i)
    <3>1. CASE i = k + 1
      BY <3>1 DEF Val
    <3>2. CASE i # k + 1
      <4>1. i \in 0 .. k /\ g[i] = f[i]
        BY <3>2
      <4>2. f[i] = Val(f, i)
        BY <4>1
      <4>3. Val(f, i) = Val(g, i)
        BY <4>1 DEF Val
      <4> QED
        BY <4>1, <4>2, <4>3
    <3> QED
      BY <3>1, <3>2
  <2>2. g = [i \in 0 .. k + 1 |-> Val(g, i)]
    BY <2>1
  <2> QED
    BY <2>2
<1>3. Bad = {}
  <2> SUFFICES ASSUME Bad # {}
               PROVE  FALSE
    OBVIOUS
  <2>1. PICK k \in Bad : \A y \in Bad : k <= y
    <3> Bad \subseteq Nat
      OBVIOUS
    <3> HIDE DEF Bad
    <3> QED
      BY LeastNat
  <2> HIDE DEF Upto
  <2>2. k # 0
    BY <1>1
  <2>3. k - 1 \in Nat /\ k - 1 \notin Bad
    BY <2>1, <2>2
  <2> QED
    BY <1>2, <2>3
<1>4. Upto(Len(items))
  <2> HIDE DEF Upto
  <2> QED
    BY <1>3
<1>5. PICK f : /\ f = [i \in 0 .. Len(items) |-> Val(f, i)]
               /\ PushAll(b, items) = f[Len(items)]
  BY <1>4 DEF PushAll
<1> HIDE DEF Val
<1>6. \A i \in 0 .. Len(items) : f[i] = Val(f, i)
  BY <1>5
<1>7. f[0] = [bkt |-> b, stuck |-> FALSE]
  <2>1. f[0] = Val(f, 0)
    BY <1>6
  <2> QED
    BY <2>1 DEF Val
<1>8. \A k \in 1 .. Len(items) : f[k] = PushStep(f[k - 1], items[k])
  <2> TAKE k \in 1 .. Len(items)
  <2>1. f[k] = Val(f, k)
    BY <1>6
  <2> QED
    BY <2>1 DEF Val
<1> QED
  BY <1>5, <1>7, <1>8

(***************************************************************************)
(* A response pushed into a sound bucket, to its end or to the push that   *)
(* blocks, leaves a sound bucket that has kept every item it had; when a   *)
(* push blocked, its item is not in the full bucket (bucket.c:46).         *)
(***************************************************************************)
LEMMA PushAllSound ==
  ASSUME NEW I, NEW b, Sound(b, I), NEW items \in Seq(I)
  PROVE  Pushing(PushAll(b, items), b, I)
<1>1. Len(items) \in Nat
  OBVIOUS
<1>2. PICK f : /\ f[0] = [bkt |-> b, stuck |-> FALSE]
               /\ \A k \in 1 .. Len(items) : f[k] = PushStep(f[k - 1], items[k])
               /\ PushAll(b, items) = f[Len(items)]
  BY <1>1, PushesDefined
<1> DEFINE Bad == {k \in 0 .. Len(items) : ~Pushing(f[k], b, I)}
<1>3. Pushing(f[0], b, I)
  BY <1>2 DEF Pushing, Sound, Prolongs
<1>4. ASSUME NEW k \in 1 .. Len(items), Pushing(f[k - 1], b, I)
      PROVE  Pushing(f[k], b, I)
  <2>1. items[k] \in I
    OBVIOUS
  <2>2. f[k] = PushStep(f[k - 1], items[k])
    BY <1>2
  <2> QED
    BY <1>4, <2>1, <2>2, PushStepSound
<1>5. Bad = {}
  <2> SUFFICES ASSUME Bad # {}
               PROVE  FALSE
    OBVIOUS
  <2>1. PICK k \in Bad : \A y \in Bad : k <= y
    <3> Bad \subseteq Nat
      OBVIOUS
    <3> HIDE DEF Bad
    <3> QED
      BY LeastNat
  <2>2. k # 0
    BY <1>3
  <2>3. k \in 1 .. Len(items) /\ k - 1 \notin Bad
    BY <1>1, <2>1, <2>2
  <2> QED
    BY <1>4, <2>3
<1> QED
  BY <1>1, <1>2, <1>5

-----------------------------------------------------------------------------
(* Items and node ids. *)

\* The runs that have sent a registration.
Started == {r \in Run : tries[r] > 0}

\* What buckets can hold of the runs R, and the node ids strcmp can see.
ItemsOf(R) == {Item(r, t) : r \in R, t \in Byte}
IdsOf(R)   == {NodeId[r] : r \in R} \X Byte

(***************************************************************************)
(* There are as many node ids as StuckOnlyWhenFull says.                   *)
(***************************************************************************)
LEMMA IdsCount ==
  ASSUME NEW R \in SUBSET Run
  PROVE  /\ IsFiniteSet(IdsOf(R))
         /\ Cardinality(IdsOf(R)) \in Nat
         /\ Cardinality(IdsOf(R)) =
              Cardinality({NodeId[r] : r \in R}) * Cardinality(Byte)
<1> DEFINE N == {NodeId[r] : r \in R}
           f == [r \in R |-> NodeId[r]]
<1>1. IsFiniteSet(R)
  <2>1. IsFiniteSet(1 .. NumRun)
    BY MasterAssumption, FS_Interval
  <2> QED
    BY <2>1, FS_Subset DEF Run
<1>2. f \in Surjection(R, N)
  BY DEF Surjection
<1>3. IsFiniteSet(N)
  BY <1>1, <1>2, FS_Surjection
<1>4. IsFiniteSet(Byte)
  BY MasterAssumption
<1> HIDE DEF N
<1>5. /\ IsFiniteSet(N \X Byte)
      /\ Cardinality(N \X Byte) = Cardinality(N) * Cardinality(Byte)
  BY <1>3, <1>4, FS_Product
<1>6. Cardinality(N \X Byte) \in Nat
  BY <1>5, FS_CardinalityType
<1> QED
  BY <1>5, <1>6 DEF IdsOf, N

(***************************************************************************)
(* A push that blocks (bucket.c:46) has found one node id more than fit    *)
(* into a bucket.                                                          *)
(***************************************************************************)
LEMMA BlockedMeansFull ==
  ASSUME NEW R \in SUBSET Run, NEW b, Sound(b, ItemsOf(R)),
         NEW item \in ItemsOf(R), Blocks(b, item)
  PROVE  Cardinality(IdsOf(R)) > MaxBucket
<1> DEFINE n == MaxBucket + 1
           f == [i \in 1 .. n |-> IF i = n THEN item.node_id ELSE b[i].node_id]
<1>1. MaxBucket \in Nat /\ n \in Nat
  BY MaxBucketAssumption
<1>2. b \in Seq(ItemsOf(R)) /\ Len(b) = MaxBucket /\ DOMAIN b = 1 .. MaxBucket
  BY DEF Sound, Blocks
<1>3. \A x \in ItemsOf(R) : x.node_id \in IdsOf(R)
  BY DEF ItemsOf, IdsOf, Item
<1>4. \A i \in 1 .. MaxBucket : b[i] \in ItemsOf(R)
  BY <1>2
<1>5. f \in [1 .. n -> IdsOf(R)]
  <2> SUFFICES ASSUME NEW i \in 1 .. n
               PROVE  f[i] \in IdsOf(R)
    OBVIOUS
  <2>1. CASE i = n
    BY <1>3, <2>1
  <2>2. CASE i # n
    <3>1. i \in 1 .. MaxBucket
      BY <1>1, <2>2
    <3> QED
      BY <1>3, <1>4, <2>2, <3>1
  <2> QED
    BY <2>1, <2>2
<1>6. \A i, j \in 1 .. n : f[i] = f[j] => i = j
  <2> SUFFICES ASSUME NEW i \in 1 .. n, NEW j \in 1 .. n, f[i] = f[j]
               PROVE  i = j
    OBVIOUS
  <2>1. \A k \in 1 .. MaxBucket : b[k].node_id # item.node_id
    BY <1>2 DEF Blocks, Holds
  <2>2. CASE i = n \/ j = n
    BY <1>1, <2>1, <2>2
  <2>3. CASE i # n /\ j # n
    <3>1. i \in 1 .. MaxBucket /\ j \in 1 .. MaxBucket
      BY <1>1, <2>3
    <3>2. b[i].node_id = b[j].node_id
      BY <2>3
    <3> QED
      BY <1>2, <3>1, <3>2 DEF Sound
  <2> QED
    BY <2>2, <2>3
<1>7. f \in Injection(1 .. n, IdsOf(R))
  <2> HIDE DEF f
  <2> QED
    BY <1>5, <1>6 DEF Injection, IsInjective
<1>8. Cardinality(1 .. n) <= Cardinality(IdsOf(R))
  <2> HIDE DEF f, n
  <2> QED
    BY <1>7, IdsCount, FS_Injection
<1>9. Cardinality(1 .. n) = n
  BY <1>1, FS_Interval
<1>10. Cardinality(IdsOf(R)) \in Nat
  BY IdsCount
<1> QED
  BY <1>1, <1>8, <1>9, <1>10

(***************************************************************************)
(* Whatever holds of the runs started so far holds when more have started. *)
(***************************************************************************)
LEMMA MoreStarted ==
  ASSUME NEW R \in SUBSET Run, NEW Q \in SUBSET Run, R \subseteq Q
  PROVE  /\ \A b : Sound(b, ItemsOf(R)) => Sound(b, ItemsOf(Q))
         /\ \A q \in Seq(R) : q \in Seq(Q)
         /\ Cardinality(IdsOf(R)) <= Cardinality(IdsOf(Q))
<1>1. ItemsOf(R) \subseteq ItemsOf(Q)
  BY DEF ItemsOf
<1>2. \A b \in Seq(ItemsOf(R)) : b \in Seq(ItemsOf(Q))
  BY <1>1, SeqMonotonic
<1>3. \A q \in Seq(R) : q \in Seq(Q)
  BY SeqMonotonic
<1>4. IdsOf(R) \in SUBSET IdsOf(Q)
  BY DEF IdsOf
<1>5. Cardinality(IdsOf(R)) <= Cardinality(IdsOf(Q))
  BY <1>4, IdsCount, FS_Subset
<1> QED
  BY <1>2, <1>3, <1>5 DEF Sound

-----------------------------------------------------------------------------
(* The inductive invariant. *)

\* Only runs that have sent a registration are in the network.
PeersOK ==
  /\ proc \in [Run -> {"off", "registering", "running", "gone"}]
  /\ tries \in [Run -> Nat]
  /\ \A r \in Run : tries[r] <= MaxTry[r]
  /\ reg \subseteq Started /\ ack \subseteq Run

\* Buckets hold items of such runs, each node id once.
BucketsOK ==
  /\ peer_bkt \in [Master -> Seq(ItemsOf(Run))]
  /\ stuck \in [Master -> BOOLEAN]
  /\ \A m \in Master : Sound(peer_bkt[m], ItemsOf(Started))

(***************************************************************************)
(* A master that waits has its request at its neighbour or an answer of    *)
(* the kind it waits for on its way; one that does not wait has neither.   *)
(***************************************************************************)
AnswersOK ==
  /\ rpc \in [Master -> Kind \cup {None}]
  /\ reply \in [Master -> Seq(Run \cup {0})]
  /\ \A m \in Master : /\ rpc[m] = None => reply[m] = <<>>
                       /\ rpc[m] = "G_PS" => reply[m] \in Seq(Started)

RequestsOK ==
  /\ inbox \in [Master -> SUBSET [from : Master, kind : Kind]]
  /\ \A m \in Master : \A q \in inbox[m] : /\ m = Neighbour[q.from]
                                           /\ rpc[q.from] = q.kind
                                           /\ reply[q.from] = <<>>

\* What was acknowledged is in the bucket of the home master.
HomeOK ==
  \A r \in Run : r \in ack \/ proc[r] = "running"
                   => Holds(peer_bkt[Home[r]], Item(r, 0))

\* An event loop that waits for ever has met one node id too many.
StuckOK ==
  (\E m \in Master : stuck[m]) => Cardinality(IdsOf(Started)) > MaxBucket

IInv ==
  PeersOK /\ BucketsOK /\ AnswersOK /\ RequestsOK /\ HomeOK /\ StuckOK

(***************************************************************************)
(* No process has started and every bucket is empty.                       *)
(***************************************************************************)
LEMMA InitIInv == Init => IInv
<1> SUFFICES ASSUME Init
             PROVE  IInv
  OBVIOUS
<1> USE DEF Init
<1>1. PeersOK
  BY MasterAssumption DEF PeersOK, Started
<1>2. BucketsOK
  BY MaxBucketAssumption DEF BucketsOK, Sound
<1>3. AnswersOK
  BY DEF AnswersOK, None, Kind
<1>4. RequestsOK
  BY DEF RequestsOK
<1>5. HomeOK
  BY DEF HomeOK
<1>6. StuckOK
  BY DEF StuckOK
<1> QED
  BY <1>1, <1>2, <1>3, <1>4, <1>5, <1>6 DEF IInv

(***************************************************************************)
(* A step of a peer process that starts a run, or none, and leaves the     *)
(* masters alone, keeps what is said of the masters.                       *)
(***************************************************************************)
LEMMA PeerStep ==
  ASSUME IInv, PeersOK', Started \subseteq Started', UNCHANGED masters,
         \A r \in Run : r \in ack' \/ proc'[r] = "running"
                          => r \in ack \/ proc[r] = "running"
  PROVE  IInv'
<1> DEFINE R == Started
           Q == Started'
<1>1. R \in SUBSET Run /\ Q \in SUBSET Run /\ R \subseteq Q
  BY DEF Started
<1> HIDE DEF R, Q
<1>2. /\ \A b : Sound(b, ItemsOf(R)) => Sound(b, ItemsOf(Q))
      /\ \A q \in Seq(R) : q \in Seq(Q)
      /\ Cardinality(IdsOf(R)) <= Cardinality(IdsOf(Q))
      /\ Cardinality(IdsOf(R)) \in Nat /\ Cardinality(IdsOf(Q)) \in Nat
  BY <1>1, MoreStarted, IdsCount
<1>3. UNCHANGED <<peer_bkt, stuck, rpc, inbox, reply>>
  BY DEF masters
<1>4. BucketsOK'
  BY <1>2, <1>3 DEF IInv, BucketsOK, R, Q
<1>5. AnswersOK'
  BY <1>2, <1>3 DEF IInv, AnswersOK, R, Q
<1>6. RequestsOK'
  BY <1>3 DEF IInv, RequestsOK
<1>7. HomeOK'
  BY <1>3 DEF IInv, HomeOK
<1>8. StuckOK'
  <2>1. MaxBucket \in Nat
    BY MaxBucketAssumption
  <2>2. StuckOK
    BY DEF IInv
  <2>3. (\E m \in Master : stuck[m]) => Cardinality(IdsOf(R)) > MaxBucket
    BY <2>2 DEF StuckOK, R
  <2>4. (\E m \in Master : stuck'[m]) => Cardinality(IdsOf(Q)) > MaxBucket
    BY <1>2, <1>3, <2>1, <2>3
  <2> QED
    BY <2>4 DEF StuckOK, Q
<1> QED
  BY <1>4, <1>5, <1>6, <1>7, <1>8 DEF IInv

-----------------------------------------------------------------------------
(* One lemma per action. *)

\* init_peer and the first send of registry_peer.
LEMMA StartIInv ==
  ASSUME IInv, NEW r \in Run, Start(r)
  PROVE  IInv'
<1>1. PeersOK
  BY DEF IInv
<1>2. Started \subseteq Started' /\ r \in Started'
  BY <1>1 DEF Start, Started, PeersOK
<1>3. PeersOK'
  <2>1. tries' \in [Run -> Nat] /\ \A s \in Run : tries'[s] <= MaxTry[s]
    BY <1>1, MasterAssumption DEF Start, PeersOK
  <2>2. proc' \in [Run -> {"off", "registering", "running", "gone"}]
    BY <1>1 DEF Start, PeersOK
  <2> QED
    BY <1>1, <1>2, <2>1, <2>2 DEF Start, PeersOK
<1>4. \A s \in Run : s \in ack' \/ proc'[s] = "running"
                       => s \in ack \/ proc[s] = "running"
  BY <1>1 DEF Start, PeersOK
<1> QED
  BY <1>2, <1>3, <1>4, PeerStep DEF Start

\* The receive timeout of registry_peer.
LEMMA RetryIInv ==
  ASSUME IInv, NEW r \in Run, Retry(r)
  PROVE  IInv'
<1>1. PeersOK
  BY DEF IInv
<1>2. Started \subseteq Started'
  BY <1>1 DEF Retry, Started, PeersOK
<1>3. PeersOK'
  <2>1. CASE tries[r] < MaxTry[r]
    <3>1. tries' \in [Run -> Nat] /\ \A s \in Run : tries'[s] <= MaxTry[s]
      BY <1>1, <2>1, MasterAssumption DEF Retry, PeersOK
    <3>2. r \in Started'
      BY <1>1, <2>1 DEF Retry, PeersOK, Started
    <3> QED
      BY <1>1, <1>2, <2>1, <3>1, <3>2 DEF Retry, PeersOK
  <2>2. CASE ~(tries[r] < MaxTry[r])
    BY <1>1, <1>2, <2>2 DEF Retry, PeersOK
  <2> QED
    BY <2>1, <2>2
<1>4. \A s \in Run : s \in ack' \/ proc'[s] = "running"
                       => s \in ack \/ proc[s] = "running"
  BY <1>1 DEF Retry, PeersOK
<1> QED
  BY <1>2, <1>3, <1>4, PeerStep DEF Retry

\* The other steps of a process: an answer, the end, a lost datagram.
LEMMA OtherPeerIInv ==
  ASSUME IInv, (\E r \in Run : Registered(r) \/ Exit(r)) \/ LosePeerPacket
  PROVE  IInv'
<1> USE DEF Registered, Exit, LosePeerPacket
<1>1. PeersOK
  BY DEF IInv
<1>2. Started' = Started /\ UNCHANGED masters
  BY DEF Started
<1>3. PeersOK'
  BY <1>1, <1>2 DEF PeersOK
<1>4. \A s \in Run : s \in ack' \/ proc'[s] = "running"
                       => s \in ack \/ proc[s] = "running"
  BY <1>1 DEF PeersOK
<1> QED
  BY <1>2, <1>3, <1>4, PeerStep

\* Holds of a bucket holds of every bucket that prolongs it.
LEMMA HoldsStays ==
  ASSUME NEW I, NEW b, NEW c, b \in Seq(I), c \in Seq(I), Prolongs(c, b),
         NEW item, Holds(b, item)
  PROVE  Holds(c, item)
<1>1. DOMAIN b = 1 .. Len(b) /\ DOMAIN c = 1 .. Len(c)
  OBVIOUS
<1>2. PICK i \in DOMAIN b : b[i].node_id = item.node_id
  BY DEF Holds
<1>3. i \in DOMAIN c /\ c[i] = b[i]
  BY <1>1 DEF Prolongs
<1> QED
  BY <1>2, <1>3 DEF Holds

(***************************************************************************)
(* What a step leaves behind that changes the bucket of one master by      *)
(* pushes, and perhaps stops its event loop in one of them.                *)
(***************************************************************************)
LEMMA PushesIntoBucket ==
  ASSUME IInv, NEW m \in Master, NEW s, Pushing(s, peer_bkt[m], ItemsOf(Started)),
         Started' = Started, proc' = proc, ack' \subseteq Run,
         peer_bkt' = [peer_bkt EXCEPT ![m] = s.bkt],
         stuck' \in [Master -> BOOLEAN],
         \A n \in Master : stuck'[n] => stuck[n] \/ s.stuck,
         \A r \in ack' : r \in ack \/ (Home[r] = m /\ Holds(s.bkt, Item(r, 0)))
  PROVE  BucketsOK' /\ HomeOK' /\ StuckOK'
<1> DEFINE R == Started
<1>1. R \in SUBSET Run
  BY DEF Started
<1>2. BucketsOK /\ HomeOK /\ StuckOK
  BY DEF IInv
<1>3. /\ Sound(s.bkt, ItemsOf(R)) /\ s.bkt \in Seq(ItemsOf(R))
      /\ Prolongs(s.bkt, peer_bkt[m])
      /\ s.stuck \in BOOLEAN
  BY DEF Pushing, Sound
<1>4. s.bkt \in Seq(ItemsOf(Run))
  <2>1. ItemsOf(R) \subseteq ItemsOf(Run)
    BY <1>1 DEF ItemsOf
  <2> QED
    BY <1>3, <2>1, SeqMonotonic
<1>5. BucketsOK'
  <2>1. peer_bkt' \in [Master -> Seq(ItemsOf(Run))]
    BY <1>2, <1>4 DEF BucketsOK
  <2>2. \A n \in Master : Sound(peer_bkt'[n], ItemsOf(R))
    BY <1>2, <1>3 DEF BucketsOK
  <2> QED
    BY <2>1, <2>2 DEF BucketsOK
<1>6. HomeOK'
  <2> SUFFICES ASSUME NEW r \in Run, r \in ack' \/ proc'[r] = "running"
               PROVE  Holds(peer_bkt'[Home[r]], Item(r, 0))
    BY DEF HomeOK
  <2>1. Home[r] \in Master
    BY MasterAssumption
  <2>2. CASE r \in ack \/ proc[r] = "running"
    <3>1. Holds(peer_bkt[Home[r]], Item(r, 0))
      BY <1>2, <2>2 DEF HomeOK
    <3>2. CASE Home[r] = m
      <4>1. peer_bkt[m] \in Seq(ItemsOf(Run))
        BY <1>2 DEF BucketsOK
      <4>2. Holds(s.bkt, Item(r, 0))
        BY <1>3, <1>4, <3>1, <3>2, <4>1, HoldsStays
      <4> QED
        BY <1>2, <3>2, <4>2 DEF BucketsOK
    <3>3. CASE Home[r] # m
      BY <1>2, <2>1, <3>1, <3>3 DEF BucketsOK
    <3> QED
      BY <3>2, <3>3
  <2>3. CASE ~(r \in ack \/ proc[r] = "running")
    <3>1. Home[r] = m /\ Holds(s.bkt, Item(r, 0))
      BY <2>3
    <3> QED
      BY <1>2, <3>1 DEF BucketsOK
  <2> QED
    BY <2>2, <2>3
<1>7. StuckOK'
  <2>1. CASE s.stuck
    <3>1. PICK item \in ItemsOf(R) : Blocks(s.bkt, item)
      BY <2>1 DEF Pushing
    <3>2. Cardinality(IdsOf(R)) > MaxBucket
      BY <1>1, <1>3, <3>1, BlockedMeansFull
    <3> QED
      BY <3>2 DEF StuckOK
  <2>2. CASE ~s.stuck
    <3>1. (\E n \in Master : stuck'[n]) => \E n \in Master : stuck[n]
      BY <2>2
    <3> QED
      BY <1>2, <3>1 DEF StuckOK
  <2> QED
    BY <2>1, <2>2
<1> QED
  BY <1>5, <1>6, <1>7

\* A registration at its home master.
LEMMA ServeRegistryIInv ==
  ASSUME IInv, NEW m \in Master, NEW r \in Run, ServeRegistry(m, r)
  PROVE  IInv'
<1> DEFINE item == Item(r, 0)
           b == peer_bkt[m]
           R == Started
<1>1. PeersOK /\ BucketsOK /\ AnswersOK /\ RequestsOK /\ HomeOK /\ StuckOK
  BY DEF IInv
<1>2. R \in SUBSET Run /\ r \in R /\ Started' = R
  BY <1>1 DEF ServeRegistry, Started, PeersOK
<1>3. item \in ItemsOf(R)
  BY <1>2, MasterAssumption DEF ItemsOf
<1>4. Sound(b, ItemsOf(R)) /\ b \in Seq(ItemsOf(R))
  BY <1>1 DEF BucketsOK, Sound
<1>5. PeersOK'
  BY <1>1, <1>2 DEF ServeRegistry, PeersOK
<1>6. AnswersOK' /\ RequestsOK'
  BY <1>1, <1>2 DEF ServeRegistry, AnswersOK, RequestsOK
<1>7. BucketsOK' /\ HomeOK' /\ StuckOK'
  <2>1. CASE Blocks(b, item)
    <3> DEFINE s == [bkt |-> b, stuck |-> TRUE]
    <3>1. Pushing(s, b, ItemsOf(R))
      BY <1>3, <1>4, <2>1 DEF Pushing, Prolongs, Sound
    <3>2. peer_bkt' = [peer_bkt EXCEPT ![m] = s.bkt]
      BY <1>1, <2>1 DEF ServeRegistry, BucketsOK
    <3>3. stuck' \in [Master -> BOOLEAN] /\ ack' = ack /\ proc' = proc
      BY <1>1, <2>1 DEF ServeRegistry, BucketsOK
    <3>4. s.stuck
      OBVIOUS
    <3> HIDE DEF s
    <3> QED
      BY <1>1, <1>2, <3>1, <3>2, <3>3, <3>4, PushesIntoBucket DEF PeersOK
  <2>2. CASE ~Blocks(b, item)
    <3> DEFINE c == push_front_bucket(b, item)
               s == [bkt |-> c, stuck |-> FALSE]
    <3>1. Sound(c, ItemsOf(R)) /\ Prolongs(c, b) /\ Holds(c, item)
      BY <1>3, <1>4, <2>2, PushSound
    <3>2. peer_bkt' = [peer_bkt EXCEPT ![m] = c]
      BY <2>2 DEF ServeRegistry
    <3>3. stuck' = stuck /\ stuck \in [Master -> BOOLEAN]
      BY <1>1, <2>2 DEF ServeRegistry, BucketsOK
    <3>4. ack' = ack \cup {r} /\ proc' = proc /\ Home[r] = m
      BY <2>2 DEF ServeRegistry
    <3> HIDE DEF c
    <3>5. Pushing(s, b, ItemsOf(R)) /\ s.bkt = c
      BY <3>1 DEF Pushing, Sound
    <3>6. \A x \in ack' : x \in ack \/ (Home[x] = m /\ Holds(s.bkt, Item(x, 0)))
      BY <3>1, <3>4, <3>5
    <3>7. ack' \subseteq Run
      BY <1>5 DEF PeersOK
    <3> HIDE DEF s
    <3> QED
      BY <1>2, <3>2, <3>3, <3>4, <3>5, <3>6, <3>7, PushesIntoBucket
  <2> QED
    BY <2>1, <2>2
<1> QED
  BY <1>5, <1>6, <1>7 DEF IInv

\* A step that changes neither buckets nor processes keeps what they say.
LEMMA SameBuckets ==
  ASSUME IInv, UNCHANGED <<peer_bkt, stuck, proc, tries, reg, ack>>
  PROVE  /\ Started' = Started
         /\ PeersOK' /\ BucketsOK' /\ HomeOK' /\ StuckOK'
<1>1. Started' = Started
  BY DEF Started
<1> QED
  BY <1>1 DEF IInv, PeersOK, BucketsOK, HomeOK, StuckOK

\* A call of the timers: ping_peer, discovery_proc, get_peers.
LEMMA AskIInv ==
  ASSUME IInv, NEW m \in Master, NEW k \in Kind, Ask(m, k)
  PROVE  IInv'
<1>1. AnswersOK /\ RequestsOK
  BY DEF IInv
<1>2. Started' = Started /\ PeersOK' /\ BucketsOK' /\ HomeOK' /\ StuckOK'
  BY SameBuckets DEF Ask, peers
<1>3. rpc[m] = None /\ reply[m] = <<>> /\ reply' = reply
  BY <1>1 DEF Ask, Idle, AnswersOK
<1>4. k # None /\ Kind \subseteq Kind \cup {None}
  BY DEF Kind, None
<1>5. AnswersOK'
  <2>1. rpc' \in [Master -> Kind \cup {None}]
    BY <1>1, <1>4 DEF Ask, AnswersOK
  <2> SUFFICES ASSUME NEW n \in Master
               PROVE  /\ rpc'[n] = None => reply[n] = <<>>
                      /\ rpc'[n] = "G_PS" => reply[n] \in Seq(Started)
    BY <1>1, <1>2, <1>3, <2>1 DEF AnswersOK
  <2>2. rpc'[n] = IF n = m THEN k ELSE rpc[n]
    BY <1>1 DEF Ask, AnswersOK
  <2> QED
    BY <1>1, <1>3, <1>4, <2>2 DEF AnswersOK
<1>6. RequestsOK'
  <2> DEFINE q0 == [from |-> m, kind |-> k]
  <2>1. q0 \in [from : Master, kind : Kind] /\ Neighbour[m] \in Master
    BY MasterAssumption
  <2>2. \A n \in Master : \A q \in inbox'[n] :
          q \in inbox[n] \/ (q = q0 /\ n = Neighbour[m])
    BY <1>1, <2>1 DEF Ask, RequestsOK
  <2>3. inbox' \in [Master -> SUBSET [from : Master, kind : Kind]]
    BY <1>1, <2>1 DEF Ask, RequestsOK
  <2>4. \A n \in Master : \A q \in inbox[n] : q.from # m
    BY <1>1, <1>3 DEF RequestsOK, Kind, None
  <2>5. ASSUME NEW n \in Master, NEW q \in inbox'[n]
        PROVE  n = Neighbour[q.from] /\ rpc'[q.from] = q.kind /\ reply[q.from] = <<>>
    <3>1. CASE q \in inbox[n]
      <4>1. q.from # m /\ q.from \in Master
        BY <1>1, <2>4, <3>1 DEF RequestsOK
      <4>2. rpc'[q.from] = rpc[q.from]
        BY <1>1, <4>1 DEF Ask, AnswersOK
      <4> QED
        BY <1>1, <3>1, <4>2 DEF RequestsOK
    <3>2. CASE q = q0 /\ n = Neighbour[m]
      <4>1. rpc'[m] = k
        BY <1>1 DEF Ask, AnswersOK
      <4> QED
        BY <1>3, <3>2, <4>1
    <3> QED
      BY <2>2, <3>1, <3>2
  <2> QED
    BY <1>3, <2>3, <2>5 DEF RequestsOK
<1> QED
  BY <1>2, <1>5, <1>6 DEF IInv

\* The items of a response come from the bucket (get_top_bucket_items).
LEMMA TopItems ==
  ASSUME NEW I, NEW b \in Seq(I), NEW n \in Nat
  PROVE  get_top_bucket_items(b, n) \in Seq(I)
<1> DEFINE c == Reverse(b)
           k == IF n > Len(b) THEN Len(b) ELSE n
<1>1. Len(b) \in Nat /\ k \in 0 .. Len(b)
  OBVIOUS
<1>2. \A i \in 1 .. k : c[i] \in I
  <2> TAKE i \in 1 .. k
  <2>1. i \in 1 .. Len(b) /\ Len(b) - i + 1 \in 1 .. Len(b)
    BY <1>1
  <2>2. c[i] = b[Len(b) - i + 1]
    BY <2>1 DEF Reverse
  <2> QED
    BY <2>1, <2>2
<1> HIDE DEF c, k
<1>3. SubSeq(c, 1, k) \in Seq(I)
  BY <1>1, <1>2, SubSeqProperties
<1> QED
  BY <1>3 DEF get_top_bucket_items, c, k

\* A request of another master is answered.
LEMMA ServeRequestIInv ==
  ASSUME IInv, NEW m \in Master, NEW q \in inbox[m], ServeRequest(m, q)
  PROVE  IInv'
<1>1. AnswersOK /\ RequestsOK /\ BucketsOK
  BY DEF IInv
<1>2. Started' = Started /\ PeersOK' /\ BucketsOK' /\ HomeOK' /\ StuckOK'
  BY SameBuckets DEF ServeRequest, peers
<1>3. /\ q \in [from : Master, kind : Kind] /\ q.from \in Master /\ q.kind \in Kind
      /\ m = Neighbour[q.from] /\ rpc[q.from] = q.kind
  BY <1>1 DEF RequestsOK
<1>4. PICK a : /\ reply' = [reply EXCEPT ![q.from] = a]
               /\ a \in Seq(Run \cup {0})
               /\ q.kind = "G_PS" => a \in Seq(Started)
  <2>1. CASE q.kind # "G_PS"
    <3>1. <<0>> \in Seq(Run \cup {0})
      OBVIOUS
    <3> QED
      BY <2>1, <3>1 DEF ServeRequest
  <2>2. CASE q.kind = "G_PS"
    <3> DEFINE top == get_top_bucket_items(peer_bkt[m], GossipLimit)
               a0  == [i \in DOMAIN top |-> top[i].addr]
    <3>1. GossipLimit \in Nat /\ peer_bkt[m] \in Seq(ItemsOf(Started))
      BY <1>1, MasterAssumption DEF BucketsOK, Sound
    <3>2. top \in Seq(ItemsOf(Started))
      BY <3>1, TopItems
    <3> HIDE DEF top
    <3>3. \A x \in ItemsOf(Started) : x.addr \in Started
      BY DEF ItemsOf, Item
    <3>4. a0 \in Seq(Started)
      BY <3>2, <3>3
    <3>5. Started \subseteq Run \cup {0}
      BY DEF Started
    <3>6. a0 \in Seq(Run \cup {0})
      BY <3>4, <3>5, SeqMonotonic
    <3>7. reply' = [reply EXCEPT ![q.from] = a0]
      BY <2>2 DEF ServeRequest, top
    <3> QED
      BY <3>4, <3>6, <3>7
  <2> QED
    BY <2>1, <2>2
<1>5. rpc' = rpc /\ inbox' = [inbox EXCEPT ![m] = @ \ {q}]
  BY DEF ServeRequest
<1>6. AnswersOK'
  <2>1. reply' \in [Master -> Seq(Run \cup {0})]
    BY <1>1, <1>3, <1>4 DEF AnswersOK
  <2>2. q.kind # None
    BY <1>3 DEF Kind, None
  <2>3. ASSUME NEW n \in Master
        PROVE  /\ rpc[n] = None => reply'[n] = <<>>
               /\ rpc[n] = "G_PS" => reply'[n] \in Seq(Started)
    <3>1. CASE n = q.from
      BY <1>1, <1>3, <1>4, <2>2, <3>1 DEF AnswersOK
    <3>2. CASE n # q.from
      BY <1>1, <1>3, <1>4, <3>2 DEF AnswersOK
    <3> QED
      BY <3>1, <3>2
  <2> QED
    BY <1>1, <1>2, <1>5, <2>1, <2>3 DEF AnswersOK
<1>7. RequestsOK'
  <2>1. inbox' \in [Master -> SUBSET [from : Master, kind : Kind]]
    BY <1>1, <1>5 DEF RequestsOK
  <2>2. ASSUME NEW n \in Master, NEW p \in inbox'[n]
        PROVE  n = Neighbour[p.from] /\ rpc[p.from] = p.kind /\ reply'[p.from] = <<>>
    <3>1. p \in inbox[n] /\ (n = m => p # q)
      BY <1>1, <1>5 DEF RequestsOK
    <3>2. /\ p \in [from : Master, kind : Kind] /\ p.from \in Master
          /\ n = Neighbour[p.from] /\ rpc[p.from] = p.kind /\ reply[p.from] = <<>>
      BY <1>1, <3>1 DEF RequestsOK
    <3>3. p.from # q.from
      BY <1>3, <3>1, <3>2
    <3> QED
      BY <1>1, <1>4, <3>2, <3>3 DEF AnswersOK
  <2> QED
    BY <1>5, <2>1, <2>2 DEF RequestsOK
<1> QED
  BY <1>2, <1>6, <1>7 DEF IInv

\* A call ends, with an answer or without, and leaves no request behind.
LEMMA CallEnds ==
  ASSUME IInv, NEW m \in Master, Started' = Started,
         rpc' = [rpc EXCEPT ![m] = None], reply' = [reply EXCEPT ![m] = <<>>],
         \/ inbox' = inbox /\ reply[m] # <<>>
         \/ inbox' = [n \in Master |-> {q \in inbox[n] : q.from # m}]
  PROVE  AnswersOK' /\ RequestsOK'
<1>1. AnswersOK /\ RequestsOK
  BY DEF IInv
<1>2. AnswersOK'
  <2>1. <<>> \in Seq(Run \cup {0}) /\ <<>> \in Seq(Started)
    OBVIOUS
  <2> QED
    BY <1>1, <2>1 DEF AnswersOK
<1>3. RequestsOK'
  <2>1. inbox' \in [Master -> SUBSET [from : Master, kind : Kind]]
    BY <1>1 DEF RequestsOK
  <2>2. ASSUME NEW n \in Master, NEW q \in inbox'[n]
        PROVE  n = Neighbour[q.from] /\ rpc'[q.from] = q.kind /\ reply'[q.from] = <<>>
    <3>1. q \in inbox[n] /\ q.from # m /\ q.from \in Master
      BY <1>1 DEF RequestsOK
    <3>2. n = Neighbour[q.from] /\ rpc[q.from] = q.kind /\ reply[q.from] = <<>>
      BY <1>1, <3>1 DEF RequestsOK
    <3> QED
      BY <1>1, <3>1, <3>2 DEF AnswersOK
  <2> QED
    BY <2>1, <2>2 DEF RequestsOK
<1> QED
  BY <1>2, <1>3

\* The answer to a probe, and the receive timeout.
LEMMA CallOverIInv ==
  ASSUME IInv, NEW m \in Master, Answered(m) \/ Timeout(m)
  PROVE  IInv'
<1>1. Started' = Started /\ PeersOK' /\ BucketsOK' /\ HomeOK' /\ StuckOK'
  BY SameBuckets DEF Answered, Timeout, peers
<1>2. AnswersOK' /\ RequestsOK'
  BY <1>1, CallEnds DEF Answered, Timeout
<1> QED
  BY <1>1, <1>2 DEF IInv

\* The answer to get_peers: its items are pushed.
LEMMA GotPeersIInv ==
  ASSUME IInv, NEW m \in Master, GotPeers(m)
  PROVE  IInv'
<1> DEFINE R == Started
           I == ItemsOf(R)
<1>1. PeersOK /\ BucketsOK /\ AnswersOK
  BY DEF IInv
<1>2. UNCHANGED <<proc, tries, reg, ack, inbox>>
  BY DEF GotPeers, peers
<1>3. Started' = Started /\ PeersOK'
  BY <1>1, <1>2 DEF Started, PeersOK
<1>4. AnswersOK' /\ RequestsOK'
  BY <1>2, <1>3, CallEnds DEF GotPeers
<1>5. PICK t \in Byte :
        LET in == [i \in DOMAIN reply[m] |-> Item(reply[m][i], t)]
            s  == PushAll(peer_bkt[m], in)
        IN  /\ peer_bkt' = [peer_bkt EXCEPT ![m] = s.bkt]
            /\ stuck' = [stuck EXCEPT ![m] = s.stuck]
  BY DEF GotPeers
<1> DEFINE in == [i \in DOMAIN reply[m] |-> Item(reply[m][i], t)]
           s  == PushAll(peer_bkt[m], in)
<1>6. reply[m] \in Seq(R) /\ Sound(peer_bkt[m], I)
  BY <1>1 DEF GotPeers, AnswersOK, BucketsOK
<1>7. in \in Seq(I)
  <2>1. \A r \in R : Item(r, t) \in I
    BY DEF ItemsOf
  <2> QED
    BY <1>6, <2>1
<1>8. Pushing(s, peer_bkt[m], I)
  <2> HIDE DEF in, I
  <2> QED
    BY <1>6, <1>7, PushAllSound
<1>9. /\ peer_bkt' = [peer_bkt EXCEPT ![m] = s.bkt]
      /\ stuck' = [stuck EXCEPT ![m] = s.stuck]
  BY <1>5
<1> HIDE DEF s
<1>10. /\ stuck' \in [Master -> BOOLEAN]
       /\ \A n \in Master : stuck'[n] => stuck[n] \/ s.stuck
  <2>1. s.stuck \in BOOLEAN
    BY <1>8 DEF Pushing
  <2> QED
    BY <1>1, <1>9, <2>1 DEF BucketsOK
<1>11. ack' \subseteq Run /\ \A r \in ack' : r \in ack
  BY <1>1, <1>2 DEF PeersOK
<1>12. BucketsOK' /\ HomeOK' /\ StuckOK'
  BY <1>2, <1>3, <1>8, <1>9, <1>10, <1>11, PushesIntoBucket
<1> QED
  BY <1>3, <1>4, <1>12 DEF IInv

(***************************************************************************)
(* Every step of the system keeps the invariant.                           *)
(***************************************************************************)
LEMMA NextIInv == IInv /\ [Next]_vars => IInv'
<1> SUFFICES ASSUME IInv, [Next]_vars
             PROVE  IInv'
  OBVIOUS
<1>1. CASE PeerNext
  BY <1>1, StartIInv, RetryIInv, OtherPeerIInv DEF PeerNext
<1>2. CASE MasterNext
  BY <1>2, ServeRegistryIInv, AskIInv, ServeRequestIInv, CallOverIInv, GotPeersIInv
     DEF MasterNext
<1>3. CASE UNCHANGED vars
  <2>1. UNCHANGED <<peer_bkt, stuck, rpc, inbox, reply, proc, tries, reg, ack>>
    BY <1>3 DEF vars
  <2>2. Started' = Started /\ PeersOK' /\ BucketsOK' /\ HomeOK' /\ StuckOK'
    BY <2>1, SameBuckets
  <2>3. AnswersOK' /\ RequestsOK'
    BY <2>1, <2>2 DEF IInv, AnswersOK, RequestsOK
  <2> QED
    BY <2>2, <2>3 DEF IInv
<1> QED
  BY <1>1, <1>2, <1>3 DEF Next

(***************************************************************************)
(* The invariant holds in every state of every behaviour.                  *)
(***************************************************************************)
LEMMA Invariant == Spec => []IInv
BY InitIInv, NextIInv, PTL DEF Spec

-----------------------------------------------------------------------------
(* What it says. *)

(***************************************************************************)
(* Buckets stay within MAX_BUCKET_SIZE, and processes, event loops and     *)
(* requests within their states, for any number of masters and runs.       *)
(***************************************************************************)
THEOREM TypeCorrect == Spec => []TypeOK
<1>1. IInv => TypeOK
  <2> SUFFICES ASSUME IInv
               PROVE  TypeOK
    OBVIOUS
  <2>1. PeersOK /\ BucketsOK /\ AnswersOK /\ RequestsOK
    BY DEF IInv
  <2>2. \A r \in Run : tries[r] \in 0 .. MaxTry[r]
    BY <2>1, MasterAssumption DEF PeersOK
  <2>3. \A m \in Master : Len(peer_bkt[m]) <= MaxBucket
    BY <2>1 DEF BucketsOK, Sound
  <2>4. reg \subseteq Run
    BY <2>1 DEF PeersOK, Started
  <2> QED
    BY <2>1, <2>2, <2>3, <2>4 DEF TypeOK, PeersOK, BucketsOK, AnswersOK, RequestsOK
<1> QED
  BY <1>1, Invariant, PTL

(***************************************************************************)
(* push_front_bucket tells node ids apart for good: no sequence of         *)
(* registrations, retries and responses puts one twice into a bucket.      *)
(***************************************************************************)
THEOREM NoDuplicates == Spec => []NoDuplicateIds
<1>1. IInv => NoDuplicateIds
  BY DEF IInv, BucketsOK, Sound, NoDuplicateIds
<1> QED
  BY <1>1, Invariant, PTL

(***************************************************************************)
(* A run that was told of its registration (registry_peer, peer.c:100) is  *)
(* found at its home master by its vlan address as long as it runs,        *)
(* provided that runs with the same node id have the same vlan address.    *)
(***************************************************************************)
THEOREM RegisteredIsFound == Spec => []AckedIsFindable
<1>1. IInv => AckedIsFindable
  <2> SUFFICES ASSUME IInv, IdsApart, NEW r \in Run, proc[r] = "running"
               PROVE  Find(Home[r], Vlan[r]) # <<>>
    BY DEF AckedIsFindable
  <2> DEFINE b == peer_bkt[Home[r]]
             T == {i \in 1 .. Len(b) : b[i].vlan_ipv4 = Vlan[r]}
  <2>1. Home[r] \in Master
    BY MasterAssumption
  <2>2. b \in Seq(ItemsOf(Run)) /\ Len(b) \in Nat /\ DOMAIN b = 1 .. Len(b)
    BY <2>1 DEF IInv, BucketsOK
  <2>3. PICK i \in 1 .. Len(b) : b[i].node_id = <<NodeId[r], 0>>
    BY <2>2 DEF IInv, HomeOK, Holds, Item
  <2>4. PICK s \in Run, t \in Byte : b[i] = Item(s, t)
    BY <2>2 DEF ItemsOf
  <2>5. b[i].vlan_ipv4 = Vlan[r]
    <3>1. NodeId[s] = NodeId[r]
      BY <2>3, <2>4 DEF Item
    <3> QED
      BY <2>4, <3>1 DEF Item, IdsApart
  <2>6. T # {} /\ T \subseteq 0 .. Len(b)
    BY <2>3, <2>5
  <2> HIDE DEF b
  <2>7. \E x \in T : \A y \in T : x >= y
    <3> HIDE DEF T
    <3> QED
      BY <2>2, <2>6, GreatestNat
  <2>8. Max(T) \in T
    BY <2>7 DEF Max
  <2>9. SelectLastInSeq(b, LAMBDA x : x.vlan_ipv4 = Vlan[r]) = Max(T)
    BY <2>6 DEF SelectLastInSeq
  <2>10. Max(T) # 0
    BY <2>2, <2>8
  <2>11. get_item_by_vlan_ipv4(b, Vlan[r]) = <<b[Max(T)]>>
    <3> HIDE DEF T
    <3> QED
      BY <2>9, <2>10 DEF get_item_by_vlan_ipv4
  <2> QED
    BY <2>11 DEF Find, b
<1> QED
  BY <1>1, Invariant, PTL

(***************************************************************************)
(* The self-deadlock of push_front_bucket (bucket.c:46) takes more node    *)
(* ids than a bucket holds, each counted once per stray byte: neither      *)
(* retries nor gossip alone bring a master there, whatever their number.   *)
(***************************************************************************)
THEOREM StuckMeansFull == Spec => []StuckOnlyWhenFull
<1>1. IInv => StuckOnlyWhenFull
  <2>1. Started \in SUBSET Run
    BY DEF Started
  <2>2. Cardinality(IdsOf(Started)) =
          Cardinality({NodeId[r] : r \in Started}) * Cardinality(Byte)
    BY <2>1, IdsCount
  <2> QED
    BY <2>2 DEF IInv, StuckOK, StuckOnlyWhenFull, Started
<1> QED
  BY <1>1, Invariant, PTL

=============================================================================
