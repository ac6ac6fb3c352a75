---------------------------- MODULE StunBuilder ----------------------------
(***************************************************************************)
(* Socket addresses (stuncore/socketaddress.cpp) and the message builder   *)
(* (stuncore/stunbuilder.cpp).                                             *)
(*                                                                         *)
(* A message under construction is a record: the 16-bit type field, the    *)
(* length field, the transaction id and the attributes in the order they   *)
(* were written.  An attribute has its type, the size its header states,   *)
(* the number of bytes really written behind the header, and a value.      *)
(* Addresses and transaction ids are sequences of 32-bit words, scaled     *)
(* down to a few bits; a transaction id has four words, of which the first *)
(* is the cookie, an IPv4 address one and an IPv6 address four.            *)
(***************************************************************************)
EXTENDS Naturals, Sequences, FiniteSets, SequencesExt

STUN_COOKIE == 5
HeaderSize == 20
MaxMessage == 800
MaxAttribute == 780
MaxAuthString == 64

Addr(ip, port) == [ip |-> ip, port |-> port]

ZeroAddr == Addr(<<0>>, 0)

IsIPAddressZero(a) == \A i \in DOMAIN a.ip : a.ip[i] = 0

IsSameIP(a, b) == a.ip = b.ip

IsSameIP_and_Port(a, b) == IsSameIP(a, b) /\ a.port = b.port

SetPort(a, p) == [a EXCEPT !.port = p]

(* Exclusive or of a word with a word of a transaction id or a constant,   *)
(* which have four bits here: the bits above them stay.                    *)
Xor(a, b) ==
  LET bit(p) == p * ((a \div p + b \div p) % 2)
  IN  16 * (a \div 16) + bit(8) + bit(4) + bit(2) + bit(1)

(* The port is combined with the first bytes of the transaction id, the    *)
(* address with as many words of it as the address has.                    *)
ApplyStunXorMap(a, transid) ==
  Addr([i \in DOMAIN a.ip |-> Xor(a.ip[i], transid[i])], Xor(a.port, transid[1]))

(* A library's digests: equal exactly when key and text are equal.         *)
HMAC(key, text) == <<"hmac", key, text>>

MD5(text) == <<"md5", text>>

CRC(text) == <<"crc", text>>

RoundUp4(n) == ((n + 3) \div 4) * 4

Attr(type, size, bytes, value) ==
  [type |-> type, size |-> size, bytes |-> bytes, value |-> value]

(* The sum of the first n members of a sequence of sizes.                  *)
Total(sizes, n) ==
  LET upTo[i \in 0..n] == IF i = 0 THEN 0 ELSE upTo[i - 1] + sizes[i] IN upTo[n]

(* Size in bytes of what has been written.                                 *)
Size(b) ==
  HeaderSize + Total([i \in DOMAIN b.attrs |-> 4 + b.attrs[i].bytes], Len(b.attrs))

Append1(b, a) == [b EXCEPT !.attrs = Append(@, a)]

(* Method and class are spread over the 14 bits of the type field:         *)
(* M11..M7 C1 M6..M4 C0 M3..M0.                                            *)
AddHeader(legacy, type, class) ==
  [legacy |-> legacy, length |-> 0, transid |-> <<0, 0, 0, 0>>, attrs |-> <<>>,
   field |-> (type \div 128) * 512 + (class \div 2) * 256
             + ((type \div 16) % 8) * 32 + (class % 2) * 16 + (type % 16)]

AddTransactionId(b, transid) == [b EXCEPT !.transid = transid]

(* The loop stops four bytes short of the end: the last word of the id is  *)
(* whatever was on the stack.                                              *)
AddRandomTransactionId(b, rand, stack) ==
  AddTransactionId(b, <<STUN_COOKIE, rand, rand, stack>>)

(* In legacy mode the header states the padded size.                       *)
AddAttribute(b, type, value, size) ==
  Append1(b, Attr(type, IF b.legacy THEN RoundUp4(size) ELSE size,
                  RoundUp4(size), value))

AddStringAttribute(b, type, str, size) ==
  IF size = 0 THEN b ELSE AddAttribute(b, type, str, size)

AddErrorCode(b, number, reasonSize) ==
  IF reasonSize >= 128 \/ number < 300 \/ number > 600 THEN b
  ELSE AddAttribute(b, "ERRORCODE", <<number \div 100, number % 100>>,
                    reasonSize + 4)

(* An odd list is padded by repeating its last element, in legacy mode     *)
(* only.                                                                   *)
AddUnknownAttributes(b, arr) ==
  LET size == 2 * (Len(arr) + IF b.legacy THEN Len(arr) % 2 ELSE 0)
  IN  Append1(b, Attr("UNKNOWNATTRIBUTES", size, size, arr))

AddMappedAddressImpl(b, type, a) ==
  LET size == 4 + 4 * Len(a.ip) IN Append1(b, Attr(type, size, size, a))

AddMappedAddress(b, a) == AddMappedAddressImpl(b, "MAPPED", a)

\* Mutant: the address is written as it is.
AddXorMappedPlain(b, a) ==
  AddMappedAddressImpl(b, IF b.legacy THEN "XORMAPPED_OPTIONAL" ELSE "XORMAPPED", a)

AddXorMappedAddress(b, a) ==
  AddMappedAddressImpl(b, IF b.legacy THEN "XORMAPPED_OPTIONAL" ELSE "XORMAPPED",
                       ApplyStunXorMap(a, b.transid))

AddResponseOriginAddress(b, a) ==
  AddMappedAddressImpl(b, IF b.legacy THEN "SOURCE" ELSE "ORIGIN", a)

AddOtherAddress(b, a) ==
  AddMappedAddressImpl(b, IF b.legacy THEN "CHANGED" ELSE "OTHER", a)

AddResponsePort(b, port) == AddAttribute(b, "RESPONSE_PORT", port, 2)

(* The size is rounded up before it goes into the header.                  *)
AddPaddingAttribute(b, size) ==
  Append1(b, Attr("PADDING", RoundUp4(size), RoundUp4(size), "zeros"))

AddChangeRequest(b, ip, port) ==
  AddAttribute(b, "CHANGEREQUEST",
               (IF ip THEN 4 ELSE 0) + (IF port THEN 2 ELSE 0), 4)

FixLengthField(b) == [b EXCEPT !.length = Size(b) - HeaderSize]

(* What a digest over the first n attributes covers.                       *)
Text(b, length, n) == <<b.field, length, b.transid, SubSeq(b.attrs, 1, n)>>

(* The last attribute's value is computed over everything before it, with  *)
(* the length field already counting it.                                   *)
Seal(b, digest(_)) ==
  LET f == FixLengthField(b)
      n == Len(f.attrs)
  IN  [f EXCEPT !.attrs[n].value = digest(Text(f, f.length, n - 1))]

AddFingerprintAttribute(b) ==
  Seal(Append1(b, Attr("FINGERPRINT", 4, 4, "dummy")), LAMBDA t : CRC(t))

AddMessageIntegrityImpl(b, key) ==
  Seal(AddAttribute(b, "MESSAGEINTEGRITY", "dummy", 20), LAMBDA t : HMAC(key, t))

(* An empty key leaves the message without the attribute.                  *)
AddMessageIntegrityShortTerm(b, password) ==
  IF password = <<>> THEN b ELSE AddMessageIntegrityImpl(b, password)

AddMessageIntegrityLongTerm(b, user, realm, password) ==
  AddMessageIntegrityImpl(b, MD5(<<user, realm, password>>))

(* The bytes handed out, with the length field settled.                    *)
GetResult(b) == FixLengthField(b)
=============================================================================
