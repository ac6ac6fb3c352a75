----------------------------- MODULE StunStream -----------------------------
(***************************************************************************)
(* A request with or without credentials, written by the builder, read by  *)
(* the server's reader in pieces as a stream hands them out, and answered  *)
(* by the handler under one of the authentication providers.               *)
(*                                                                         *)
(* st is [phase, opt, msg, reader, answer]: how the request was made, the  *)
(* message on its way, what the reader has of it, and the answer.          *)
(***************************************************************************)
EXTENDS StunHandler

CONSTANTS
  StreamOptions,  \* the requests to make
  Pieces          \* sizes of the pieces, besides what the reader asks for

(* A request is a flag for each of its features, the user's name, which    *)
(* has room in a message, and the provider that the server uses.           *)
ASSUME StreamAssumption ==
  /\ Pieces \subseteq Nat
  /\ \A o \in StreamOptions :
       /\ o \in [legacy : BOOLEAN, ip6 : BOOLEAN, class : {0, 1}, fingerprint : BOOLEAN,
                 tampered : BOOLEAN, right : BOOLEAN, seal : {"none", "short", "long"},
                 user : {o.user}, auth : {"none", "short", "long"}]
       /\ o.user \in Seq(ToSet(o.user)) /\ Len(o.user) <= 100

VARIABLE st

Remote(o) == Addr(IF o.ip6 THEN <<1, 2, 0, 3>> ELSE <<6>>, 7)

StreamSet == [r \in Role |-> [valid |-> r = RolePP, addr |-> Addr(<<3>>, 2)]]

(* The password the client believes in.                                    *)
PasswordUsed(o) == IF o.right THEN PasswordOf(o.user) ELSE <<"guess">>

(* What the client writes, in the order the builder needs: credentials,    *)
(* seal, fingerprint.                                                      *)
MakeRequest(o) ==
  LET h == AddTransactionId(AddHeader(o.legacy, BINDING, o.class),
                            <<IF o.legacy THEN 1 ELSE STUN_COOKIE, 2, 3, 4>>)
      u == AddStringAttribute(h, "USERNAME", o.user, 5 * Len(o.user))
      q == IF o.seal # "long" THEN u
           ELSE AddStringAttribute(AddStringAttribute(u, "REALM", Realm, 17),
                                   "NONCE", IF o.right THEN CreateNonce(0) ELSE Realm, 51)
      s == CASE o.seal = "none"  -> q
             [] o.seal = "short" -> AddMessageIntegrityShortTerm(q, PasswordUsed(o))
             [] o.seal = "long"  -> AddMessageIntegrityLongTerm(q, o.user, Realm, PasswordUsed(o))
  IN  GetResult(IF o.fingerprint THEN AddFingerprintAttribute(s) ELSE s)

(* A bit of the transaction id flips on the way.                           *)
Carried(o) ==
  IF o.tampered THEN [MakeRequest(o) EXCEPT !.transid[4] = 5] ELSE MakeRequest(o)

StreamStart(o) ==
  [phase |-> "read", opt |-> o, msg |-> Carried(o), reader |-> Reset, answer |-> NoResponse]

(* A piece no larger than what the reader needs.                           *)
Feed ==
  /\ st.phase = "read"
  /\ \E k \in Pieces \cup {HowManyBytesNeeded(st.reader)} :
       /\ k \in 1..HowManyBytesNeeded(st.reader)
       /\ st' = [st EXCEPT !.reader = AddBytes(@, st.msg, k)]

(* The message is complete: answer it.                                     *)
AnswerStream ==
  /\ st.phase = "read" /\ HowManyBytesNeeded(st.reader) = 0
  /\ st' = [st EXCEPT !.phase = "answered",
              !.answer = ProcessRequest([role |-> RolePP, local |-> Addr(<<3>>, 2),
                           remote |-> Remote(st.opt), reader |-> st.reader, tcp |-> TRUE],
                           StreamSet, st.opt.auth, 1)]

StreamNext == Feed \/ AnswerStream

-----------------------------------------------------------------------------
Reading == st.phase \in {"read", "answered"}

(* However a message is cut into pieces, the reader is ready exactly at    *)
(* its last byte, never asks for a byte beyond it, and then knows what it  *)
(* would know had the message come in one piece                            *)
(* (CStunMessageReader::AddBytes).                                         *)
ChunkingIrrelevant ==
  Reading =>
    /\ st.reader.size + HowManyBytesNeeded(st.reader) <= Size(st.msg)
    /\ (st.reader.state = "BodyValidated") = (st.reader.size = Size(st.msg))
    /\ st.reader.size = Size(st.msg) => st.reader = Parse(st.msg)

(* An answer reads back as what it says: the request's transaction id and  *)
(* format, the client's address twice for a success, an error code that    *)
(* the handler uses otherwise; only requests are answered.                 *)
AnswerReadsBack ==
  st.phase = "answered" =>
    LET r == Parse(st.answer.msg) IN
    IF st.opt.class # Class.request THEN st.answer = NoResponse
    ELSE /\ r.state = "BodyValidated" /\ st.answer.dest = Remote(st.opt)
         /\ r.transid = st.msg.transid /\ r.legacy = st.opt.legacy
         /\ IF r.class = Class.success
              THEN GetMappedAddress(r) = Remote(st.opt) /\ GetXorMappedAddress(r) = Remote(st.opt)
              ELSE r.class = Class.failure
                   /\ GetErrorCode(r) \in {BADREQUEST, UNAUTHORIZED, STALENONCE}

(* Under an authentication provider a request succeeds only with a known   *)
(* user's password over the message as it arrived, and under the short     *)
(* term provider it then does, with an answer sealed by that password; a   *)
(* fingerprint is valid just when nothing changed on the way.              *)
OnlyAuthorized ==
  st.phase = "answered" /\ st.opt.class = Class.request =>
    LET o == st.opt
        good == o.user \in User /\ o.right /\ o.seal = "short" /\ ~o.tampered
        r == Parse(st.answer.msg)
    IN  /\ o.auth # "none" /\ r.class = Class.success => good
        /\ o.auth = "short" /\ good => r.class = Class.success
             /\ ValidateMessageIntegrityShort(r, PasswordOf(o.user))
        /\ IsFingerprintAttributeValid(st.reader) = (o.fingerprint /\ ~o.tampered)
=============================================================================
