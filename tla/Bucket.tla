------------------------------- MODULE Bucket -------------------------------
(***************************************************************************)
(* The bucket of known nodes (src/src/bucket.c): an array of at most       *)
(* MaxBucket items, the newest last.  Items are told apart by node_id, the *)
(* C string strcmp sees.                                                   *)
(*                                                                         *)
(* Every operation takes one static, non-recursive mutex for its whole     *)
(* body and is called from one event loop, so each is a function of the    *)
(* bucket.  The exception is a push into a full bucket: it calls           *)
(* pop_back_bucket with the mutex held, and the caller never returns.      *)
(***************************************************************************)
EXTENDS Naturals, Sequences, SequencesExt

CONSTANT MaxBucket   \* MAX_BUCKET_SIZE (255)

ASSUME MaxBucketAssumption == MaxBucket \in Nat \ {0}

Holds(b, item) == \E i \in DOMAIN b : b[i].node_id = item.node_id

\* Mutant: the test for a full array is off by one.
BlocksLate(b, item) == ~Holds(b, item) /\ Len(b) > MaxBucket

\* push_front_bucket enters pop_back_bucket, which waits for the held mutex.
Blocks(b, item) == ~Holds(b, item) /\ Len(b) = MaxBucket

\* Mutant: no search for the node_id.
PushAlways(b, item) == Append(b, item)

\* Mutant: the item is stored at top, which is not advanced.
PushOverTop(b, item) ==
  IF Holds(b, item) THEN b
  ELSE IF b = <<>> THEN <<item>> ELSE [b EXCEPT ![Len(b)] = item]

\* A known node_id is left where it is, with the address it came with first.
push_front_bucket(b, item) == IF Holds(b, item) THEN b ELSE Append(b, item)

(***************************************************************************)
(* Successive pushes, as the unpackers of PMP responses make them: they    *)
(* end at the first one that blocks.                                       *)
(***************************************************************************)
PushStep(s, item) ==
  IF s.stuck THEN s
  ELSE IF Blocks(s.bkt, item) THEN [s EXCEPT !.stuck = TRUE]
  ELSE [s EXCEPT !.bkt = push_front_bucket(@, item)]

PushAll(b, items) ==
  LET after[i \in 0 .. Len(items)] ==
        IF i = 0 THEN [bkt |-> b, stuck |-> FALSE]
        ELSE PushStep(after[i - 1], items[i])
  IN  after[Len(items)]

\* At most n items, newest first.
get_top_bucket_items(b, n) ==
  SubSeq(Reverse(b), 1, IF n > Len(b) THEN Len(b) ELSE n)

\* The newest item of a vlan address, as a sequence of at most one item.
get_item_by_vlan_ipv4(b, v) ==
  LET i == SelectLastInSeq(b, LAMBDA x : x.vlan_ipv4 = v)
  IN IF i = 0 THEN <<>> ELSE <<b[i]>>

=============================================================================
