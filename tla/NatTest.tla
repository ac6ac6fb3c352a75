------------------------------ MODULE NatTest ------------------------------
(***************************************************************************)
(* The NAT test a peer runs before it registers (src/stun/nat_test.c): up  *)
(* to four requests from one socket, each followed by one receive with a   *)
(* timeout of a second.  n is [pc, mapped]: which request is outstanding   *)
(* or the verdict, and the external address last seen.                     *)
(***************************************************************************)
EXTENDS ServerConfig

Verdicts == {"UDP_BLOCKED", "OPEN_INTERNET", "SYM_UDP_FIREWALL", "FULL_CONE",
             "RESTRICTED", "PORT_RESTRICTED", "SYM_NAT", "UNEXPECTED_NAT_TYPE"}

(* Twelve bytes of the id are those of the run, the other four whatever    *)
(* malloc left in the header.  No id is ever compared, here or by the      *)
(* server, which returns it: one value stands for all.  It is no cookie.   *)
TransId == <<1, 2, 3, 4>>

Header == AddTransactionId(AddHeader(TRUE, BINDING, Class.request), TransId)

test1 == GetResult(Header)

\* Mutant: the server is not asked to answer from elsewhere.
test2_unchanged == GetResult(AddChangeRequest(Header, FALSE, FALSE))

test2 == GetResult(AddChangeRequest(Header, TRUE, TRUE))

(* The external address is the mapped one; a message without one leaves it *)
(* as it was.  Neither type nor id of the message is looked at.            *)
stun_rsp_unpack(w, mapped) ==
  LET found == {i \in DOMAIN w.attrs : w.attrs[i].type = "MAPPED"}
  IN  IF found = {} THEN mapped
      ELSE w.attrs[CHOOSE i \in found : \A j \in found : i >= j].value

do_test == [pc |-> "test1", mapped |-> ZeroAddr]

(* The decisions after a test: ok if something came back in time.  The     *)
(* third test is the first one again.                                      *)
Decide(n, ok, source) ==
  LET same == n.mapped.ip = source IN
  CASE n.pc = "test1"  -> IF ~ok THEN "UDP_BLOCKED" ELSE IF same THEN "test2open" ELSE "test2"
    [] n.pc = "test2open" -> IF ok THEN "OPEN_INTERNET" ELSE "SYM_UDP_FIREWALL"
    [] n.pc = "test2"  -> IF ok THEN "FULL_CONE" ELSE "test1again"
    [] n.pc = "test1again" -> IF ~ok THEN "UNEXPECTED_NAT_TYPE"
                              ELSE IF same THEN "test3" ELSE "SYM_NAT"
    [] n.pc = "test3"  -> IF ok THEN "RESTRICTED" ELSE "PORT_RESTRICTED"

NatRequest(pc) == IF pc \in {"test2", "test2open"} THEN test2 ELSE test1
=============================================================================
