---------------------------- MODULE RateLimiter ----------------------------
(***************************************************************************)
(* The rate limiter of networkutils/ratelimiter.cpp: which packets of an   *)
(* address pass.  A limiter is a hash table from addresses to trackers;    *)
(* the constants stand for the numbers of ratelimiter.h, scaled down, and  *)
(* a count stops at CountCap, where the rate can no longer fall below the  *)
(* limit within the time the model covers.                                 *)
(***************************************************************************)
EXTENDS Naturals, Sequences, FiniteSets

CONSTANTS MIN_COUNT_FOR_CONSIDERATION, RESET_INTERVAL_SECONDS, PENALTY_TIME_SECONDS,
          CountCap

ASSUME LimiterAssumption ==
  /\ MIN_COUNT_FOR_CONSIDERATION \in Nat \ {0, 1} /\ CountCap \in Nat
  /\ RESET_INTERVAL_SECONDS \in Nat /\ PENALTY_TIME_SECONDS \in Nat

MAX_RATE == 3600

H == INSTANCE FastHash

\* Mutant: the smallest count worth looking at is forgotten.
get_rate_at_once(rt) ==
  (rt.count * 3600) \div (IF rt.last > rt.first THEN rt.last - rt.first ELSE 1)

get_rate(rt) ==
  IF rt.count < MIN_COUNT_FOR_CONSIDERATION THEN 0
  ELSE (rt.count * 3600) \div (IF rt.last > rt.first THEN rt.last - rt.first ELSE 1)

(* A table that has no room is dumped.                                     *)
Admit(table, addr, now) ==
  LET rt == [count |-> 1, first |-> now, last |-> now, penalty |-> 0]
  IN  H!Insert(IF H!IsFull(table) THEN H!ResetTable(table) ELSE table, addr, rt)

\* Mutant: too fast a sender is turned away without a penalty.
RateCheckNoPenalty(table, addr, now) ==
  LET old == H!Lookup(table, addr)
      rt  == [old EXCEPT !.count = IF @ < CountCap THEN @ + 1 ELSE @, !.last = now]
  IN  IF ~H!Exists(table, addr) THEN [table |-> Admit(table, addr, now), pass |-> TRUE]
      ELSE [table |-> H!SetValue(table, addr, rt), pass |-> get_rate(rt) < MAX_RATE]

(* The table afterwards and whether the packet may pass.  A penalty of 0   *)
(* is no penalty, so time starts at 1.                                     *)
RateCheck(table, addr, now) ==
  LET old == H!Lookup(table, addr)
      rt  == [old EXCEPT !.count = IF @ < CountCap THEN @ + 1 ELSE @, !.last = now]
      box == [rt EXCEPT !.penalty = now + PENALTY_TIME_SECONDS]
      fast == get_rate(rt) >= MAX_RATE
      Kept(v, pass) == [table |-> H!SetValue(table, addr, v), pass |-> pass]
  IN  IF ~H!Exists(table, addr) THEN [table |-> Admit(table, addr, now), pass |-> TRUE]
      ELSE IF rt.penalty # 0 /\ rt.penalty >= now THEN Kept(rt, FALSE)
      ELSE IF fast THEN Kept(box, FALSE)
      ELSE IF rt.penalty # 0 THEN Kept([rt EXCEPT !.penalty = 0], TRUE)
      ELSE IF rt.last - rt.first > RESET_INTERVAL_SECONDS
             THEN [table |-> H!Remove(table, addr), pass |-> TRUE]
      ELSE Kept(rt, TRUE)
=============================================================================
