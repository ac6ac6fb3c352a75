----------------------------- MODULE StunReader -----------------------------
(***************************************************************************)
(* The incremental message reader (stuncore/stunreader.cpp).  A reader is  *)
(* fed the bytes of a message w (a record as the builder makes it) in      *)
(* pieces of any size; it knows how many it has, and its parse state.      *)
(***************************************************************************)
EXTENDS StunBuilder

(* Class of a message and parse states.                                    *)
Class == [request |-> 0, indication |-> 1, success |-> 2, failure |-> 3]

ParseState == {"HeaderNotRead", "HeaderValidated", "BodyValidated", "ParseError"}

MaxNumAttributes == 30

Reset == [state |-> "HeaderNotRead", size |-> 0, legacy |-> FALSE, type |-> 65535,
          class |-> 255, length |-> 0, transid |-> <<0, 0, 0, 0>>,
          attrs |-> <<>>, field |-> 0]

(* A type field above 14 bits and a length that is no multiple of four are *)
(* refused; the cookie only tells the format.                              *)
ReadHeader(r, w) ==
  LET f == w.field IN
  IF f >= 16384 \/ w.length % 4 # 0 \/ w.length > MaxMessage
    THEN [r EXCEPT !.state = "ParseError"]
    ELSE [r EXCEPT !.state = "HeaderValidated", !.field = f, !.length = w.length,
            !.transid = w.transid, !.legacy = w.transid[1] # STUN_COOKIE,
            !.type = (f % 16) + ((f \div 32) % 8) * 16 + (f \div 512) * 128,
            !.class = ((f \div 16) % 2) + ((f \div 256) % 2) * 2]

(* Where the attribute after the first n starts, walking from header to    *)
(* header by the stated sizes.                                             *)
Offset(w, n) ==
  HeaderSize + Total([i \in DOMAIN w.attrs |-> 4 + RoundUp4(w.attrs[i].size)], n)

(* Every attribute has to fit, and together they fill the body exactly.    *)
ReadBody(r, w) ==
  IF /\ Len(w.attrs) <= MaxNumAttributes
     /\ \A n \in 1..Len(w.attrs) :
          w.attrs[n].size <= MaxAttribute /\ Offset(w, n) <= r.size
     /\ Offset(w, Len(w.attrs)) = r.size
    THEN [r EXCEPT !.state = "BodyValidated", !.attrs = w.attrs]
    ELSE [r EXCEPT !.state = "ParseError"]

(* A header that promises no body completes the message.                  *)
HeaderStep(r, w) ==
  LET settled(h) == IF h.state = "HeaderValidated" /\ h.length = 0
                      THEN [h EXCEPT !.state = "BodyValidated"] ELSE h
  IN  IF r.state = "HeaderNotRead" /\ r.size >= HeaderSize
        THEN settled(ReadHeader(r, w)) ELSE r

BodyStep(r, w) ==
  IF r.state # "HeaderValidated" \/ r.size < r.length + HeaderSize THEN r
  ELSE IF r.size = r.length + HeaderSize THEN ReadBody(r, w)
  ELSE [r EXCEPT !.state = "ParseError"]

(* A complete message takes no more bytes.                                 *)
OverrunStep(r) ==
  IF r.state = "BodyValidated" /\ r.size > r.length + HeaderSize
    THEN [r EXCEPT !.state = "ParseError"] ELSE r

(* k more bytes of w: header and body, as far as they reach.               *)
AddBytes(r, w, k) ==
  IF r.state = "ParseError" \/ k = 0 THEN r
  ELSE OverrunStep(BodyStep(HeaderStep([r EXCEPT !.size = @ + k], w), w))

\* Mutant: asks for the whole body, however much of it has come.
HowManyBytesNeededWhole(r) ==
  CASE r.state = "HeaderNotRead"   -> HeaderSize - r.size
    [] r.state = "HeaderValidated" -> r.length
    [] OTHER -> 0

HowManyBytesNeeded(r) ==
  CASE r.state = "HeaderNotRead"   -> HeaderSize - r.size
    [] r.state = "HeaderValidated" -> r.length + HeaderSize - r.size
    [] OTHER -> 0

(* A datagram is read in one piece.                                        *)
Parse(w) == AddBytes(Reset, w, Size(w))

(* The attribute map keeps the last attribute inserted under a type.       *)
Positions(r, type) == {n \in 1..Len(r.attrs) : r.attrs[n].type = type}

HasAttribute(r, type) == Positions(r, type) # {}

IndexOf(r, type) == Max(Positions(r, type))

GetAttributeByType(r, type) == r.attrs[IndexOf(r, type)]

(* What a getter hands out when it fails: no address, no number.           *)
NoAddr == Addr(<<>>, 0)

NoNumber == 65536

GetResponsePort(r) ==
  IF HasAttribute(r, "RESPONSE_PORT") /\ GetAttributeByType(r, "RESPONSE_PORT").size = 2
    THEN GetAttributeByType(r, "RESPONSE_PORT").value ELSE 0

GetChangeRequest(r) ==
  LET ok == /\ HasAttribute(r, "CHANGEREQUEST")
            /\ GetAttributeByType(r, "CHANGEREQUEST").size = 4
      v  == IF ok THEN GetAttributeByType(r, "CHANGEREQUEST").value ELSE 0
  IN  [fChangeIP |-> (v \div 4) % 2 = 1, fChangePort |-> (v \div 2) % 2 = 1]

GetPaddingAttributeSize(r) ==
  IF HasAttribute(r, "PADDING") THEN GetAttributeByType(r, "PADDING").size ELSE NoNumber

GetErrorCode(r) ==
  IF HasAttribute(r, "ERRORCODE")
    THEN LET v == GetAttributeByType(r, "ERRORCODE").value IN (v[1] % 8) * 100 + v[2]
    ELSE NoNumber

(* Too short an attribute for its address family is refused.               *)
GetAddressHelper(r, type) ==
  IF /\ HasAttribute(r, type)
     /\ LET a == GetAttributeByType(r, type) IN a.size >= 4 + 4 * Len(a.value.ip)
    THEN GetAttributeByType(r, type).value ELSE NoAddr

FirstOf(r, type, legacyType) ==
  IF GetAddressHelper(r, type) # NoAddr THEN GetAddressHelper(r, type)
  ELSE GetAddressHelper(r, legacyType)

GetMappedAddress(r) == GetAddressHelper(r, "MAPPED")

GetOtherAddress(r) == FirstOf(r, "OTHER", "CHANGED")

GetResponseOriginAddress(r) == FirstOf(r, "ORIGIN", "SOURCE")

GetXorMappedAddress(r) ==
  LET a == FirstOf(r, "XORMAPPED", "XORMAPPED_OPTIONAL")
  IN  IF a = NoAddr THEN NoAddr ELSE ApplyStunXorMap(a, r.transid)

(* Strings are sequences of pieces.  One that does not fit the caller's    *)
(* buffer with its terminator leaves the buffer as it was, empty.          *)
GetStringAttributeByType(r, type) ==
  IF HasAttribute(r, type) /\ GetAttributeByType(r, type).size <= MaxAuthString
    THEN GetAttributeByType(r, type).value ELSE <<>>

HasMessageIntegrityAttribute(r) == HasAttribute(r, "MESSAGEINTEGRITY")

(* The CRC covers everything but the last eight bytes, so a fingerprint    *)
(* that is not the last attribute does not match.                          *)
IsFingerprintAttributeValid(r) ==
  /\ r.state = "BodyValidated" /\ HasAttribute(r, "FINGERPRINT")
  /\ GetAttributeByType(r, "FINGERPRINT").size = 4
  /\ GetAttributeByType(r, "FINGERPRINT").value
       = CRC(Text(r, r.length, Len(r.attrs) - 1))

(* Nothing but a fingerprint may follow the integrity attribute; its eight *)
(* bytes are then taken off the length that goes into the digest.          *)
ValidateMessageIntegrity(r, key) ==
  /\ r.state = "BodyValidated" /\ HasMessageIntegrityAttribute(r)
  /\ LET n == IndexOf(r, "MESSAGEINTEGRITY")
         last == Len(r.attrs)
     IN  /\ r.attrs[n].size = 20
         /\ n = last \/ (n = last - 1 /\ r.attrs[last].type = "FINGERPRINT")
         /\ r.attrs[n].value
              = HMAC(key, Text(r, r.length - (IF n = last THEN 0 ELSE 8), n - 1))

ValidateMessageIntegrityShort(r, password) ==
  password # <<>> /\ ValidateMessageIntegrity(r, password)

ValidateMessageIntegrityLong(r, user, realm, password) ==
  ValidateMessageIntegrity(r, MD5(<<user, realm, password>>))
=============================================================================
