----------------------------- MODULE StunClient -----------------------------
(***************************************************************************)
(* The logic of the STUN client: the list of tests, retries and results    *)
(* (stuncore/stunclientlogic.cpp) and the tests themselves                 *)
(* (stuncore/stunclienttests.cpp).                                         *)
(*                                                                         *)
(* A client k is a record: cfg (server address, which tests, how often a   *)
(* request is sent), the tests in the order they run, the index of the     *)
(* current one, how often its request was sent, whether its early check    *)
(* ran, the completed tests, the transaction id of each (its random part   *)
(* is unique to the test) and the results.                                 *)
(***************************************************************************)
EXTENDS ServerConfig

Tests == {"binding", "filter2", "filter3", "behavior2", "behavior3"}

(* The results before any test.                                            *)
InitResults ==
  [binding |-> FALSE, direct |-> FALSE, other |-> FALSE,
   behaviorOk |-> FALSE, behavior |-> "unknown",
   filteringOk |-> FALSE, filtering |-> "unknown", got2 |-> FALSE,
   mapped |-> ZeroAddr, AP |-> ZeroAddr, AA |-> ZeroAddr, mappingAP |-> ZeroAddr]

NoTransid == <<0, 0, 0, 0>>

\* Mutant: the behaviour tests, which open the NAT, come first.
InitializeBehaviorFirst(cfg) ==
  [cfg |-> [cfg EXCEPT !.attempts = IF @ = 0 THEN 2 ELSE @],
   tests |-> <<"binding">>
             \o (IF cfg.behavior THEN <<"behavior2", "behavior3">> ELSE <<>>)
             \o (IF cfg.filtering THEN <<"filter2", "filter3">> ELSE <<>>),
   idx |-> 1, sendCount |-> 0, pre |-> FALSE, completed |-> {},
   transid |-> [t \in Tests |-> NoTransid], res |-> InitResults]

(* No number of attempts means two.                                        *)
Initialize(cfg) ==
  [cfg |-> [cfg EXCEPT !.attempts = IF @ = 0 THEN 2 ELSE @],
   tests |-> <<"binding">>
             \o (IF cfg.filtering THEN <<"filter2", "filter3">> ELSE <<>>)
             \o (IF cfg.behavior THEN <<"behavior2", "behavior3">> ELSE <<>>),
   idx |-> 1, sendCount |-> 0, pre |-> FALSE, completed |-> {},
   transid |-> [t \in Tests |-> NoTransid], res |-> InitResults]

Current(k) == k.tests[k.idx]

Complete(k, t, res) == [k EXCEPT !.completed = @ \cup {t}, !.res = res]

(* A client that sees its own address needs no more tests.                 *)
PreRunCheck(k, t) ==
  LET direct == k.res.binding /\ k.res.direct IN
  CASE t = "behavior2" /\ direct ->
         Complete(k, t, [k.res EXCEPT !.behavior = "direct", !.behaviorOk = TRUE])
    [] t = "filter2" /\ direct ->
         Complete(k, t, [k.res EXCEPT !.filtering = "EIF", !.filteringOk = TRUE])
    [] OTHER -> k

IsReadyToRun(k, t) ==
  /\ t \notin k.completed
  /\ t # "binding" => k.res.binding /\ k.res.other
  /\ t \in {"behavior2", "behavior3"} => ~k.res.behaviorOk
  /\ t = "behavior3" => ~IsIPAddressZero(k.res.mappingAP)
  /\ t \in {"filter2", "filter3"} => ~k.res.filteringOk /\ ~k.res.got2

(* One round of the loop that looks for a test to run.                     *)
Advance(k) ==
  IF k.idx > Len(k.tests) THEN k
  ELSE LET t == Current(k)
           c == IF k.pre THEN k ELSE [PreRunCheck(k, t) EXCEPT !.pre = TRUE]
       IN  IF IsReadyToRun(c, t) THEN c
           ELSE [c EXCEPT !.idx = @ + 1, !.sendCount = 0, !.pre = FALSE]

Settle(k) ==
  LET after[i \in 0..Len(k.tests)] == IF i = 0 THEN k ELSE Advance(after[i - 1])
  IN  after[Len(k.tests)]

(* No answer fails a binding or behaviour test; a filtering test expects   *)
(* none, and the third concludes from it.                                  *)
NotifyTimeout(k, t) ==
  Complete(k, t,
    CASE t = "binding" -> [k.res EXCEPT !.binding = FALSE]
      [] t \in {"behavior2", "behavior3"} -> [k.res EXCEPT !.behaviorOk = FALSE]
      [] t = "filter3" -> [k.res EXCEPT !.filtering = "APDF", !.filteringOk = TRUE]
      [] OTHER -> k.res)

(* A retry carries the transaction id of the first attempt.                *)
StartBindingRequest(k, t) ==
  IF k.transid[t] # NoTransid
    THEN AddTransactionId(AddHeader(FALSE, BINDING, Class.request), k.transid[t])
    ELSE AddRandomTransactionId(AddHeader(FALSE, BINDING, Class.request), k.idx, 0)

BasicGetMessage(k, t) ==
  [msg |-> GetResult(AddChangeRequest(StartBindingRequest(k, t), FALSE, FALSE)),
   dest |-> k.cfg.server]

BehaviorGetMessage(k, t) ==
  [msg |-> GetResult(AddChangeRequest(StartBindingRequest(k, t), FALSE, FALSE)),
   dest |-> IF t = "behavior3" THEN k.res.AA ELSE k.res.AP]

\* Mutant: the third test asks for the other address, too.
FilteringGetMessageSame(k, t) ==
  [msg |-> GetResult(AddChangeRequest(StartBindingRequest(k, t), TRUE, TRUE)),
   dest |-> k.cfg.server]

FilteringGetMessage(k, t) ==
  [msg |-> GetResult(AddChangeRequest(StartBindingRequest(k, t), t = "filter2", TRUE)),
   dest |-> k.cfg.server]

GetMessage(k, t) ==
  CASE t = "binding" -> BasicGetMessage(k, t)
    [] t \in {"behavior2", "behavior3"} -> BehaviorGetMessage(k, t)
    [] OTHER -> FilteringGetMessage(k, t)

(* Nothing to send: the results are ready, or an answer may still come.    *)
NoMessage(k, status) == [k |-> k, status |-> status, dest |-> NoAddr, msg |-> Reset]

SendMessage(k) ==
  LET g == GetMessage(k, Current(k))
  IN  [k |-> [k EXCEPT !.sendCount = @ + 1, !.transid[Current(k)] = g.msg.transid],
       status |-> "send", dest |-> g.dest, msg |-> g.msg]

\* Mutants: one attempt too many; the test starts over.
GiveUpLate(k, expired) ==
  IF k.idx <= Len(k.tests) /\ expired /\ k.sendCount > k.cfg.attempts
    THEN Settle(NotifyTimeout(k, Current(k))) ELSE k

GiveUpStartsOver(k, expired) ==
  IF k.idx <= Len(k.tests) /\ expired /\ k.sendCount >= k.cfg.attempts
    THEN [k EXCEPT !.sendCount = 0] ELSE k

(* expired: the timeout since the last message sent has passed; after the  *)
(* last attempt the test is told.                                          *)
GiveUp(k, expired) ==
  IF k.idx <= Len(k.tests) /\ expired /\ k.sendCount >= k.cfg.attempts
    THEN Settle(NotifyTimeout(k, Current(k))) ELSE k

NextMessage(k, expired) ==
  IF k.idx > Len(k.tests) THEN NoMessage(k, "ready")
  ELSE IF k.sendCount # 0 /\ ~expired THEN NoMessage(k, "waiting")
  ELSE SendMessage(k)

GetNextMessage(k, expired) == NextMessage(GiveUp(Settle(k), expired), expired)

\* Mutant: the transaction id is not compared.
BasicReaderValidationAny(k, t, r) == r.state = "BodyValidated"

(* A message that parses and has this test's transaction id; neither its   *)
(* class nor its sender is looked at.                                      *)
BasicReaderValidation(k, t, r) ==
  r.state = "BodyValidated" /\ r.transid = k.transid[t]

MappedOf(r) ==
  IF GetXorMappedAddress(r) # NoAddr THEN GetXorMappedAddress(r) ELSE GetMappedAddress(r)

BasicProcessResponse(k, t, r, local) ==
  LET other == GetOtherAddress(r)
      res == [k.res EXCEPT !.binding = TRUE, !.mapped = MappedOf(r),
                !.direct = IsSameIP_and_Port(local, MappedOf(r)), !.other = other # NoAddr]
  IN  IF MappedOf(r) = NoAddr THEN k
      ELSE Complete(k, t, IF other = NoAddr THEN res
             ELSE [res EXCEPT !.AA = other, !.AP = SetPort(other, k.cfg.server.port)])

(* Same mapping as the first: endpoint independent.  Otherwise the third   *)
(* test compares the two ports of the other address.                       *)
BehaviorProcessResponse(k, t, r) ==
  LET a == MappedOf(r) IN
  IF a = NoAddr THEN k
  ELSE Complete(k, t,
         IF t = "behavior3"
           THEN [k.res EXCEPT !.behaviorOk = TRUE,
                   !.behavior = IF IsSameIP_and_Port(a, k.res.mappingAP) THEN "ADM" ELSE "APDM"]
           ELSE IF IsSameIP_and_Port(a, k.res.mapped)
                  THEN [k.res EXCEPT !.mappingAP = a, !.behaviorOk = TRUE, !.behavior = "EIM"]
                  ELSE [k.res EXCEPT !.mappingAP = a])

(* That an answer came is all that matters.                                *)
FilteringProcessResponse(k, t) ==
  Complete(k, t,
    IF t = "filter3" THEN [k.res EXCEPT !.filteringOk = TRUE, !.filtering = "ADF"]
    ELSE [k.res EXCEPT !.got2 = TRUE, !.filteringOk = TRUE, !.filtering = "EIF"])

(* A response to a test that is over is refused.                           *)
ProcessParsed(k, t, r, local) ==
  IF t \in k.completed \/ ~BasicReaderValidation(k, t, r) THEN k
  ELSE CASE t = "binding" -> BasicProcessResponse(k, t, r, local)
         [] t \in {"behavior2", "behavior3"} -> BehaviorProcessResponse(k, t, r)
         [] OTHER -> FilteringProcessResponse(k, t)

ProcessResponse(k, w, local) ==
  IF k.idx > Len(k.tests) THEN k ELSE ProcessParsed(k, Current(k), Parse(w), local)
=============================================================================
