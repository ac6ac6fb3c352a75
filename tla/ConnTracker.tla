---------------------------- MODULE ConnTracker ----------------------------
(***************************************************************************)
(* What the TCP server promises about the lifetime of a connection: it is  *)
(* fresh when accepted, a sweep closes the stale ones and ages the fresh   *)
(* ones, and none is left when the thread ends.  A connection therefore    *)
(* lives through one sweep at most, and every one is closed in the end.    *)
(***************************************************************************)
CONSTANT Sock

VARIABLES fresh, stale, running

vars == <<fresh, stale, running>>

Init == fresh = {} /\ stale = {} /\ running = TRUE

Open(s) ==
  /\ running /\ s \notin fresh \cup stale
  /\ fresh' = fresh \cup {s} /\ UNCHANGED <<stale, running>>

Close(s) ==
  /\ fresh' = fresh \ {s} /\ stale' = stale \ {s} /\ UNCHANGED running

Sweep ==
  /\ running
  /\ stale' = fresh /\ fresh' = {} /\ UNCHANGED running

Quit ==
  /\ fresh' = {} /\ stale' = {} /\ running' = FALSE

Next == (\E s \in Sock : Open(s) \/ Close(s)) \/ Sweep \/ Quit

(* Sweeps go on happening while there is something to sweep.               *)
Ends == \A s \in Sock : s \in stale ~> s \notin stale

Spec == Init /\ [][Next]_vars /\ Ends
=============================================================================
