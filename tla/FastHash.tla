------------------------------ MODULE FastHash ------------------------------
(***************************************************************************)
(* The preallocated hash table of common/fasthash.h: chained nodes, a free *)
(* list, and a circular list of node indexes for access by position that   *)
(* is repaired lazily.  A table is a record; the operations are functions  *)
(* from tables to tables.  Nodes are numbered from 0.                      *)
(***************************************************************************)
EXTENDS Naturals, Sequences, FiniteSets

S == INSTANCE SequencesExt

NoItem == [key |-> 0, value |-> 0]

(* Every node is free, in order; the index list is valid when empty.       *)
Init(fsize, tsize) ==
  [fsize |-> fsize, tsize |-> tsize, size |-> 0,
   node |-> [n \in 0..(fsize - 1) |-> NoItem],
   chain |-> [t \in 0..(tsize - 1) |-> <<>>],
   free |-> [n \in 1..fsize |-> n - 1],
   index |-> [n \in 0..(fsize - 1) |-> 0], valid |-> TRUE, start |-> 0]

IsPrime(p) == p > 1 /\ \A d \in 2..(p - 1) : p % d # 0

FindPrime(val) == CHOOSE p \in val..(2 * val + 2) :
                    IsPrime(p) /\ \A q \in val..(p - 1) : ~IsPrime(q)

(* Unless the caller gives one, the width of the table is the smallest     *)
(* prime that is not below the number of items.                            *)
InitTable(fsize, tsize) ==
  Init(fsize, IF tsize = 0 THEN FindPrime(fsize) ELSE tsize)

ResetTable(h) == Init(h.fsize, h.tsize)

Hash(h, key) == key % h.tsize

(* The chain a key belongs to, the most recently inserted node first, and  *)
(* the places in it where the key is.                                      *)
Chain(h, key) == h.chain[Hash(h, key)]

Places(h, key) == {i \in DOMAIN Chain(h, key) : h.node[Chain(h, key)[i]].key = key}

Exists(h, key) == Places(h, key) # {}

(* The first node of the chain that holds the key.                         *)
Find(h, key) == Chain(h, key)[S!Min(Places(h, key))]

Lookup(h, key) == h.node[Find(h, key)].value

(* All chains in order, from position 0.                                   *)
ReIndex(h) ==
  LET all == S!FlattenSeq([t \in 1..h.tsize |-> h.chain[t - 1]])
  IN  IF h.size = 0 THEN h
      ELSE [h EXCEPT !.valid = TRUE, !.start = 0,
              !.index = [n \in DOMAIN @ |-> IF n < Len(all) THEN all[n + 1] ELSE @[n]]]

(* Called before the size is incremented.                                  *)
UpdateIndexWithAdd(h, n) ==
  IF h.valid /\ h.size < h.fsize
    THEN [h EXCEPT !.index[(h.size + h.start) % h.fsize] = n] ELSE h

(* Called before the size is decremented: an item at either end of the     *)
(* list leaves it valid, one in the middle does not, and an empty table    *)
(* has a valid list again.                                                 *)
UpdateIndexWithRemove(h, n) ==
  LET last == (h.start + h.size - 1) % h.fsize IN
  IF h.size = 0 \/ (h.size > 1 /\ ~h.valid) THEN h
  ELSE IF h.size = 1 THEN [h EXCEPT !.valid = TRUE, !.start = 0]
  ELSE IF n = h.index[h.start] THEN [h EXCEPT !.start = (@ + 1) % h.fsize]
  ELSE IF n = h.index[last] THEN h
  ELSE [h EXCEPT !.valid = FALSE]

IsFull(h) == h.free = <<>>

(* A second item under the same key hides the first; a full table refuses. *)
Insert(h, key, value) ==
  LET n == Head(h.free) IN
  IF IsFull(h) THEN h
  ELSE [UpdateIndexWithAdd(h, n) EXCEPT !.free = Tail(@), !.size = @ + 1,
          !.node[n] = [key |-> key, value |-> value],
          !.chain[Hash(h, key)] = <<n>> \o @]

SetValue(h, key, value) == [h EXCEPT !.node[Find(h, key)].value = value]

Remove(h, key) ==
  LET n == Find(h, key) IN
  IF ~Exists(h, key) THEN h
  ELSE [UpdateIndexWithRemove(h, n) EXCEPT !.free = <<n>> \o @, !.size = @ - 1,
          !.node[n] = NoItem,
          !.chain[Hash(h, key)] = S!RemoveAt(@, S!Min(Places(h, key)))]

(* Access by position repairs the list first.                              *)
Indexed(h) == IF h.valid THEN h ELSE ReIndex(h)

LookupByIndex(h, i) ==
  LET g == Indexed(h) IN g.node[g.index[(g.start + i) % g.fsize]]

Nodes(h) == UNION {S!ToSet(h.chain[t]) : t \in DOMAIN h.chain}

Keys(h) == {h.node[n].key : n \in Nodes(h)}

(* The chains and the free list share out the nodes, each chain holds the  *)
(* keys that hash to it, and the positions from 0 to size - 1 reach every  *)
(* live node exactly once.                                                 *)
IndexSound(h) ==
  /\ Nodes(h) \cup S!ToSet(h.free) = 0..(h.fsize - 1)
  /\ Nodes(h) \cap S!ToSet(h.free) = {}
  /\ h.size = Cardinality(Nodes(h)) /\ Len(h.free) = h.fsize - h.size
  /\ \A t \in DOMAIN h.chain : \A n \in S!ToSet(h.chain[t]) : Hash(h, h.node[n].key) = t
  /\ LET g == Indexed(h)
     IN  h.size > 0 =>
           {g.index[(g.start + i) % g.fsize] : i \in 0..(g.size - 1)} = Nodes(h)
=============================================================================
