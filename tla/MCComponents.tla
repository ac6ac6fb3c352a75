---------------------------- MODULE MCComponents ----------------------------
(* Servers, NATs, requests, files and sockets for Components.              *)
EXTENDS Components, TLC

Args(mode, protocol, advertised, alternate) ==
  [mode |-> mode, protocol |-> protocol, primaryInterface |-> None, altInterface |-> None,
   primaryPort |-> 2, altPort |-> 3, maxConnections |-> 0,
   primaryAdvertised |-> advertised, altAdvertised |-> alternate]

(* A basic server on any address, full servers on their own or on          *)
(* advertised addresses, over UDP and TCP, and one that asks for the same  *)
(* adapter twice and does not come up.                                     *)
Servers == {Args("basic", "udp", NoIp, NoIp), Args("full", "udp", NoIp, NoIp),
            Args("full", "udp", <<6>>, <<7>>), Args("full", "tcp", NoIp, NoIp),
            [Args("full", "udp", NoIp, NoIp) EXCEPT !.altInterface = "eth0"]}

(* One server or two, of which the second may be in the first one's way,   *)
(* or not come up; a file without configurations.                          *)
ServerLists ==
  {<<>>, <<Args("full", "udp", NoIp, NoIp), Args("full", "tcp", NoIp, NoIp)>>,
   <<Args("basic", "tcp", NoIp, NoIp), Args("basic", "udp", NoIp, NoIp)>>,
   <<Args("basic", "udp", NoIp, NoIp), Args("full", "udp", NoIp, NoIp)>>,
   <<Args("basic", "tcp", NoIp, NoIp), Args("full", "tls", NoIp, NoIp)>>}

AllModes == {"basic", "full", "behavior", "filtering"}
AllMaps == {"direct", "EIM", "ADM", "APDM"}
AllFilters == {"EIF", "ADF", "APDF"}

(* Requests: without credentials, or of a user, known or not, who knows    *)
(* the password or not.                                                    *)
Options ==
  {o \in [legacy : BOOLEAN, ip6 : BOOLEAN, class : {0, 1}, fingerprint : BOOLEAN,
          tampered : BOOLEAN, right : BOOLEAN, seal : {"none", "short", "long"},
          user : {<<>>, <<"bruce">>, <<"eve">>}, auth : {"none", "short", "long"}] :
     /\ o.seal = "none" => o.right
     /\ o.class = 1 => ~o.ip6 /\ ~o.tampered
     /\ o.legacy => ~o.ip6 /\ o.auth # "long"}

(* Pieces of five bytes cut header and attributes in the middle.           *)
Five == {5}

Files ==
  LET line == [key : {"port", "key"}, value : {<<"a">>, <<"b", "c">>}, ending : {"lf", "crlf"}]
      end  == [key : {"port", "key"}, value : {<<"a">>, <<"b", "c">>}, ending : {"lf", "none"}]
  IN  {<<e>> : e \in end} \cup {<<a, e>> : a \in line, e \in end}

ThreeSockets == 1..3
=============================================================================
