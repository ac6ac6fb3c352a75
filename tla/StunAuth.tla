------------------------------ MODULE StunAuth ------------------------------
(***************************************************************************)
(* The authentication providers of server/sampleauthprovider.cpp: which    *)
(* answer a request's user, realm, nonce and integrity attributes get.     *)
(* Strings are sequences of pieces; time is counted in units of which      *)
(* NonceAge make two minutes.                                              *)
(***************************************************************************)
EXTENDS StunReader

NonceAge == 2
Realm == <<"YourRealmNameHere">>
PrivateKey == <<"PrivateKey">>
User == {<<"bruce">>, <<"steve">>}
PasswordOf(user) == IF user = <<"bruce">> THEN <<"AcesHigh">> ELSE <<"2MinToMid">>

LookupPassword(withRealm, user, realm) ==
  IF (withRealm /\ realm # Realm) \/ user \notin User THEN <<>> ELSE PasswordOf(user)

Verdict(type, mech, password, nonce) ==
  [type |-> type, mech |-> mech, password |-> password, nonce |-> nonce,
   realm |-> IF mech = "long" THEN Realm ELSE <<>>]

(* Short term: no integrity is a bad request, an unknown user is           *)
(* unauthorized, everything else depends on the integrity.                 *)
ShortTermAuthCheck(r, now) ==
  LET password == LookupPassword(FALSE, GetStringAttributeByType(r, "USERNAME"), <<>>)
      type == IF ~HasMessageIntegrityAttribute(r) THEN "Reject"
              ELSE IF password # <<>> THEN "AllowConditional" ELSE "Unauthorized"
  IN  Verdict(type, "short", password, <<>>)

(* A nonce is a time and a digest over the time with its colon.            *)
CreateNonce(now) == <<now, ":", HMAC(PrivateKey, <<now, ":">>)>>

(* The time is cut off at the colon before the digest is computed again.   *)
ValidateNonce(nonce, now) ==
  /\ Len(nonce) = 3
  /\ nonce[1] <= now /\ now - nonce[1] <= NonceAge
  /\ nonce[3] = HMAC(PrivateKey, <<nonce[1]>>)

(* Long term: the password is looked up under the nonce for the realm.     *)
LongTermAuthCheck(r, now) ==
  LET user  == GetStringAttributeByType(r, "USERNAME")
      nonce == GetStringAttributeByType(r, "NONCE")
      password == LookupPassword(TRUE, user, nonce)
      type == IF \/ ~HasMessageIntegrityAttribute(r) \/ nonce = <<>> \/ user = <<>>
                 \/ password = <<>>                     THEN "Unauthorized"
              ELSE IF ~ValidateNonce(nonce, now)       THEN "StaleNonce"
              ELSE "AllowConditional"
  IN  Verdict(type, "long", password, CreateNonce(now))

DoAuthCheck(auth, r, now) ==
  IF auth = "short" THEN ShortTermAuthCheck(r, now) ELSE LongTermAuthCheck(r, now)
=============================================================================
