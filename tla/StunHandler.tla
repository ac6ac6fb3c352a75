----------------------------- MODULE StunHandler -----------------------------
(***************************************************************************)
(* The request handler of the STUN server (stuncore/messagehandler.cpp):   *)
(* what is sent back for a message, from which of the four sockets and to  *)
(* whom.  m is the message that came in: the role of the socket it came in *)
(* on, local and remote address, the reader that holds it, and whether it  *)
(* came over a connection.  set gives each role its address and whether it *)
(* is in use.                                                              *)
(***************************************************************************)
EXTENDS StunAuth

(* Socket roles: bit 0 alternate port, bit 1 alternate address.            *)
RolePP == 0
RolePA == 1
RoleAP == 2
RoleAA == 3
Role == 0..3

SwapPort(role) == Xor(role, 1)

SwapIP(role) == Xor(role, 2)

HasAddress(set, role) == set[role].valid

IsIPAddressZeroOrInvalid(set, role) ==
  ~HasAddress(set, role) \/ IsIPAddressZero(set[role].addr)

BADREQUEST == 400
UNAUTHORIZED == 401
STALENONCE == 438
BINDING == 1

(* Outcome of authentication: an error code or none, what to challenge     *)
(* with, and the key the answer is sealed with.                            *)
Passed(long, user, realm, password) ==
  [error |-> 0, realm |-> realm, nonce |-> <<>>, long |-> long, user |-> user,
   password |-> password]

Refused(error, v) ==
  [Passed(FALSE, <<>>, <<>>, <<>>) EXCEPT !.error = error,
     !.realm = IF error # BADREQUEST THEN v.realm ELSE <<>>,
     !.nonce = IF error # BADREQUEST THEN v.nonce ELSE <<>>]

\* Mutant: that there is a seal is enough.
SealedSomehow(reader, v) == HasMessageIntegrityAttribute(reader)

(* The seal is checked with the password the provider named.               *)
Sealed(reader, v) ==
  IF v.mech = "long"
    THEN ValidateMessageIntegrityLong(reader, GetStringAttributeByType(reader, "USERNAME"),
                                      GetStringAttributeByType(reader, "REALM"), v.password)
    ELSE ValidateMessageIntegrityShort(reader, v.password)

Judge(reader, v) ==
  CASE v.type = "StaleNonce"   -> Refused(STALENONCE, v)
    [] v.type = "Unauthorized" -> Refused(UNAUTHORIZED, v)
    [] v.type = "Reject"       -> Refused(BADREQUEST, v)
    [] v.type = "AllowConditional" ->
         IF Sealed(reader, v)
           THEN Passed(v.mech = "long", GetStringAttributeByType(reader, "USERNAME"),
                       GetStringAttributeByType(reader, "REALM"), v.password)
           ELSE Refused(UNAUTHORIZED, v)

ValidateAuth(m, auth, now) ==
  IF auth = "none" THEN Passed(FALSE, <<>>, <<>>, <<>>)
  ELSE Judge(m.reader, DoAuthCheck(auth, m.reader, now))

Response(role, dest, msg) == [role |-> role, dest |-> dest, msg |-> msg]

(* An error goes out of the socket the request came in on.                 *)
BuildErrorResponse(m, dest, a) ==
  LET refusal == AddErrorCode(AddTransactionId(AddHeader(m.reader.legacy, m.reader.type,
                   Class.failure), m.reader.transid), a.error, 6)
  IN  Response(m.role, dest, GetResult(
        AddStringAttribute(
          AddStringAttribute(refusal, "NONCE", a.nonce, IF a.nonce = <<>> THEN 0 ELSE 51),
          "REALM", a.realm, IF a.realm = <<>> THEN 0 ELSE 17)))

(* The socket a change request selects.                                    *)
OutputRole(m) ==
  LET c == GetChangeRequest(m.reader)
      r == IF c.fChangeIP THEN SwapIP(m.role) ELSE m.role
  IN  IF c.fChangePort THEN SwapPort(r) ELSE r

(* A padding attribute with a response port, and a change request that no  *)
(* socket can serve.                                                       *)
BindingRefused(m, set) ==
  \/ GetPaddingAttributeSize(m.reader) # NoNumber /\ GetResponsePort(m.reader) # 0
  \/ OutputRole(m) # m.role /\ (~HasAddress(set, OutputRole(m)) \/ m.tcp)

(* The other address is the opposite of the receiving socket, whatever     *)
(* socket the answer leaves from; a server that does not run all four, or  *)
(* does not know its address, keeps quiet about it.                        *)
OtherAddress(m, set) ==
  LET other == SwapIP(SwapPort(m.role))
  IN  IF (\A r \in Role : HasAddress(set, r)) /\ ~IsIPAddressZeroOrInvalid(set, other)
        THEN set[other].addr ELSE NoAddr

(* The address the answer leaves from, the local address of the packet     *)
(* when the socket is bound to any address.                                *)
OriginAddress(m, set) ==
  LET out == OutputRole(m) IN
  IF IsIPAddressZero(set[out].addr) /\ out = m.role THEN m.local ELSE set[out].addr

WithOrigin(b, origin) == IF IsIPAddressZero(origin) THEN b ELSE AddResponseOriginAddress(b, origin)

WithOther(b, other) == IF other = NoAddr THEN b ELSE AddOtherAddress(b, other)

WithSeal(b, a) ==
  IF a.password = <<>> THEN b
  ELSE IF a.long THEN AddMessageIntegrityLongTerm(b, a.user, a.realm, a.password)
  ELSE AddMessageIntegrityShortTerm(b, a.password)

(* The attributes in the order they are written.                           *)
ProcessBindingRequest(m, set, dest, a) ==
  LET mapped == AddMappedAddress(AddTransactionId(
                  AddHeader(m.reader.legacy, BINDING, Class.success), m.reader.transid), m.remote)
  IN  Response(OutputRole(m), dest, GetResult(
        WithSeal(AddXorMappedAddress(
          WithOther(WithOrigin(mapped, OriginAddress(m, set)), OtherAddress(m, set)),
          m.remote), a)))

NoResponse == Response(RolePP, NoAddr, Reset)

BadRequest == Refused(BADREQUEST, Verdict("Reject", "short", <<>>, <<>>))

RespondTo(m, set, dest, a) ==
  IF a.error # 0 THEN BuildErrorResponse(m, dest, a)
  ELSE IF BindingRefused(m, set) THEN BuildErrorResponse(m, dest, BadRequest)
  ELSE ProcessBindingRequest(m, set, dest, a)

(* Only a request gets an answer.  The response port is honoured for every *)
(* answer, errors included, unless it came over a connection.              *)
ProcessRequest(m, set, auth, now) ==
  LET port == GetResponsePort(m.reader) IN
  IF m.reader.state # "BodyValidated" \/ m.reader.class # Class.request THEN NoResponse
  ELSE RespondTo(m, set, IF port # 0 /\ ~m.tcp THEN SetPort(m.remote, port) ELSE m.remote,
                 IF (port # 0 /\ m.tcp) \/ m.reader.type # BINDING THEN BadRequest
                 ELSE ValidateAuth(m, auth, now))
=============================================================================
