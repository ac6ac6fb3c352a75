--------------------------- MODULE StunDiscovery ---------------------------
(***************************************************************************)
(* NAT discovery end to end: the STUN client (client/clientmain.cpp with   *)
(* StunClient) or the peer's own NAT test (NatTest), a NAT and a network   *)
(* that may lose, delay, reorder and, for the STUN client, duplicate       *)
(* packets, and the STUN server's handler behind its sockets.              *)
(*                                                                         *)
(* env is what does not change during a run: the program, the NAT's        *)
(* mapping and filtering, the server's address set, the client's options.  *)
(* k and n are the two programs' states, pc says whether the STUN client   *)
(* is running, waits in recv, or has ended; net holds the packets, as seen outside the NAT;       *)
(* opened the destinations the NAT has seen each mapping used for; prompt  *)
(* remembers that no timeout has fired while an answer was under way.      *)
(***************************************************************************)
EXTENDS StunClient, NatTest

CONSTANTS
  ServerArgs,    \* the servers' arguments
  ClientModes,   \* modes of the STUN client
  MapClasses,    \* mapping behaviours of the NAT, "direct" for none
  FilterClasses  \* filtering behaviours of the NAT or firewall

ASSUME DiscoveryAssumption ==
  /\ ClientModes \subseteq {"basic", "full", "behavior", "filtering"}
  /\ MapClasses \subseteq {"direct", "EIM", "ADM", "APDM"}
  /\ FilterClasses \subseteq {"EIF", "ADF", "APDF"}

VARIABLES env, k, n, pc, net, opened, prompt

discoveryVars == <<env, k, n, pc, net, opened, prompt>>

LocalIp == <<1>>
ExternalIp == <<2>>
ServerIp == <<3>>
Adapters == << [name |-> "eth0", ip |-> ServerIp, up |-> TRUE],
               [name |-> "eth1", ip |-> <<4>>, up |-> TRUE] >>

(* The NAT: the address the server sees for a packet to dest.              *)
MappedAddress(nat, local, dest) ==
  CASE nat.map = "direct" -> local
    [] nat.map = "EIM"    -> Addr(ExternalIp, 100 * local.port)
    [] nat.map = "ADM"    -> Addr(ExternalIp, 100 * local.port + dest.ip[1])
    [] nat.map = "APDM"   -> Addr(ExternalIp, 100 * local.port + 10 * dest.ip[1] + dest.port)

(* The NAT lets a packet in if it has let one out to its sender, or to the *)
(* sender's address, or to anyone, from the same mapping.                  *)
Allowed(p) ==
  \E o \in opened :
    /\ o[1] = p.dst
    /\ CASE env.nat.filter = "EIF"  -> TRUE
         [] env.nat.filter = "ADF"  -> o[2].ip = p.src.ip
         [] env.nat.filter = "APDF" -> o[2] = p.src

(* The server's address as the network knows it; a socket bound to any     *)
(* address is reached at the adapter's.                                    *)
PublicAddress(set, role) ==
  IF IsIPAddressZero(set[role].addr) THEN Addr(ServerIp, set[role].addr.port)
  ELSE set[role].addr

Server == PublicAddress(env.set, RolePP)

(* The servers' addresses are their own, and where one runs all sockets,   *)
(* the one with the other address and port is known under another address. *)
ASSUME ServersAssumption ==
  \A args \in ServerArgs :
    LET config == BuildServerConfigurationFromArgs(args, Adapters)
        set    == UdpAddressSet(config)
    IN  config.ok => \A r \in config.has :
          /\ PublicAddress(set, r).ip \notin {LocalIp, ExternalIp}
          /\ config.has = Role =>
               PublicAddress(set, SwapPort(SwapIP(r))).ip # PublicAddress(set, r).ip

(* Options of the STUN client; the filtering test is left out of the full  *)
(* mode over TCP, and only there.                                          *)
CreateConfigFromCommandLine(mode, tcp, server) ==
  [server |-> server, attempts |-> IF tcp THEN 1 ELSE 0,
   behavior |-> mode \in {"full", "behavior"},
   filtering |-> mode = "filtering" \/ (mode = "full" /\ ~tcp)]

(* Without a local port every TCP connection, of which each test makes one *)
(* at most, gets a new one.                                                *)
LocalAddress ==
  Addr(LocalIp, IF env.tcp /\ ~env.fixedPort THEN k.idx ELSE 1)

Packet(src, dst, msg) == [src |-> src, dst |-> dst, msg |-> msg]

(* A packet out of the client's UDP socket.                                *)
SendTo(dest, msg) ==
  LET mapped == MappedAddress(env.nat, LocalAddress, dest)
  IN  /\ net' = net \cup {Packet(mapped, dest, msg)}
      /\ opened' = opened \cup {<<mapped, dest>>}

Roles(p) == {r \in Role : env.set[r].valid /\ PublicAddress(env.set, r) = p.dst}

(* The answer the server's UDP sockets give, none to what is no request.   *)
Answer(p) ==
  LET role == CHOOSE r \in Roles(p) : TRUE
      sent(a) == IF a.dest = NoAddr THEN {}
                 ELSE {Packet(PublicAddress(env.set, a.role), a.dest, a.msg)}
  IN  sent(ProcessRequest([role |-> role, local |-> p.dst, remote |-> p.src,
                           reader |-> Parse(p.msg), tcp |-> FALSE], env.set, "none", 0))

(* A request arrives: the STUN client's may arrive again.                  *)
ProcessRequestAndSendResponse(p) ==
  /\ p \in net /\ Roles(p) # {}
  /\ net' = (IF env.prog = "nat_test" THEN net \ {p} ELSE net) \cup Answer(p)
  /\ UNCHANGED <<env, k, n, pc, opened, prompt>>

-----------------------------------------------------------------------------
(* The STUN client over UDP.                                               *)

ForClient(p) == p \in net /\ Roles(p) = {} /\ Allowed(p)

(* One round of the loop: what GetNextMessage decides.                     *)
Round(g) ==
  /\ k' = g.k
  /\ pc' = IF g.status = "ready" THEN "done" ELSE "run"
  /\ IF g.status = "send" THEN SendTo(g.dest, g.msg) ELSE UNCHANGED <<net, opened>>

IsUdpClient == env.prog = "stunclient" /\ ~env.tcp /\ pc = "run"

Begin ==
  /\ IsUdpClient /\ k.sendCount = 0
  /\ Round(GetNextMessage(k, FALSE))
  /\ UNCHANGED <<env, n, prompt>>

UdpReceive(p) ==
  /\ IsUdpClient /\ ForClient(p)
  /\ Round(GetNextMessage(ProcessResponse(k, p.msg, LocalAddress), FALSE))
  /\ UNCHANGED <<env, n, prompt>>

(* Something that would still be answered, or an answer that has come.     *)
UnderWay ==
  \E p \in net :
    /\ p.msg.transid = k.transid[Current(k)]
    /\ \/ ForClient(p)
       \/ Roles(p) # {} /\ ~(Answer(p) \subseteq net)

UdpTimeout ==
  /\ IsUdpClient /\ k.sendCount # 0
  /\ Round(GetNextMessage(k, TRUE))
  /\ prompt' = (prompt /\ ~UnderWay)
  /\ UNCHANGED <<env, n>>

-----------------------------------------------------------------------------
(* The STUN client over TCP: a connection for every request.               *)

(* The reader asks for the header, then for the rest.                      *)
ReadResponse(w) ==
  LET more(r) == AddBytes(r, w, HowManyBytesNeeded(r)) IN more(more(Reset))

TcpAnswer(g) ==
  LET role == CHOOSE r \in Roles(Packet(NoAddr, g.dest, g.msg)) : TRUE
  IN  ProcessRequest([role |-> role, local |-> g.dest,
                      remote |-> MappedAddress(env.nat, LocalAddress, g.dest),
                      reader |-> Parse(g.msg), tcp |-> TRUE], env.set, "none", 0)

IsTcpClient(at) == env.prog = "stunclient" /\ env.tcp /\ pc = at

(* Connect and send; a connection that is refused, or one that breaks,     *)
(* ends the loop without results.                                          *)
TcpConnect(g) ==
  /\ k' = g.k
  /\ \/ Roles(Packet(NoAddr, g.dest, g.msg)) # {} /\ pc' = "receiving"
     \/ pc' = "aborted"

(* The timeout since the last message may have passed when a response did  *)
(* not complete the test: the test is given up then, as over UDP.          *)
TcpRound ==
  /\ IsTcpClient("run")
  /\ \E expired \in BOOLEAN : \E g \in {GetNextMessage(k, expired)} :
       \/ g.status = "send" /\ TcpConnect(g)
       \/ g.status = "ready" /\ k' = g.k /\ pc' = "done"
  /\ UNCHANGED <<env, n, net, opened, prompt>>

(* When it has not passed the loop ends without results.                   *)
TcpStillWaiting ==
  /\ IsTcpClient("run")
  /\ \E g \in {GetNextMessage(k, FALSE)} :
       g.status = "waiting" /\ k' = g.k /\ pc' = "aborted"
  /\ UNCHANGED <<env, n, net, opened, prompt>>

(* recv has no timeout: it ends with bytes, with the connection, or never. *)
(* The response is read into the buffer of the request, so a connection    *)
(* closed before its first byte leaves the logic the request to look at,   *)
(* and one closed later the beginning of a response, which does not parse. *)
TcpReceive ==
  /\ IsTcpClient("receiving")
  /\ \E g \in {GetMessage(k, Current(k))} :
       \/ /\ \E w \in {TcpAnswer(g).msg} :
               /\ ReadResponse(w).state = "BodyValidated"
               /\ k' = ProcessResponse(k, w, LocalAddress)
          /\ pc' = "run"
       \/ k' = ProcessResponse(k, g.msg, LocalAddress) /\ pc' = "run"
       \/ k' = k /\ pc' \in {"run", "aborted"}
  /\ UNCHANGED <<env, n, net, opened, prompt>>

-----------------------------------------------------------------------------
(* The peer's NAT test.                                                    *)

IsNatTest == env.prog = "nat_test" /\ n.pc \notin Verdicts

(* The request of the test just entered, and what it leaves in the net.    *)
EnterTest(next, left) ==
  IF next.pc \in Verdicts THEN net' = left /\ opened' = opened
  ELSE LET mapped == MappedAddress(env.nat, LocalAddress, Server)
       IN  /\ net' = left \cup {Packet(mapped, Server, NatRequest(next.pc))}
           /\ opened' = opened \cup {<<mapped, Server>>}

NatBegin ==
  /\ IsNatTest /\ opened = {}
  /\ EnterTest(n, net)
  /\ UNCHANGED <<env, k, n, pc, prompt>>

NatReceive(p) ==
  /\ IsNatTest /\ ForClient(p)
  /\ LET m == [n EXCEPT !.mapped = stun_rsp_unpack(p.msg, n.mapped)]
     IN  n' = [m EXCEPT !.pc = Decide(m, TRUE, env.source)]
  /\ EnterTest(n', net \ {p})
  /\ UNCHANGED <<env, k, pc, prompt>>

NatTimeout ==
  /\ IsNatTest /\ opened # {}
  /\ n' = [n EXCEPT !.pc = Decide(n, FALSE, env.source)]
  /\ EnterTest(n', net)
  /\ UNCHANGED <<env, k, pc, prompt>>

-----------------------------------------------------------------------------
(* A server that came up with its arguments, and a program to run.         *)
Env(prog, tcp, fixedPort, source, nat, config) ==
  [prog |-> prog, tcp |-> tcp, fixedPort |-> fixedPort, source |-> source, nat |-> nat,
   full |-> config.has = Role,
   set |-> IF tcp THEN TcpAddressSet(config) ELSE UdpAddressSet(config)]

Start(args, map, filter, mode, prog, fixedPort, source, running) ==
  LET config == BuildServerConfigurationFromArgs(args, Adapters)
  IN  /\ config.ok
      /\ prog = "nat_test" => ~config.fTCP /\ mode = "basic"
      /\ fixedPort \/ config.fTCP
      /\ source = LocalIp \/ prog = "nat_test"
      /\ env = Env(prog, config.fTCP, fixedPort, source,
                   [map |-> map, filter |-> filter], config)
      /\ k = Initialize(CreateConfigFromCommandLine(mode, config.fTCP,
                          PublicAddress(env.set, RolePP)))
      /\ n = do_test /\ net = {} /\ opened = {}
      /\ pc = (IF running THEN "run" ELSE "done") /\ prompt = running

DiscoveryInit ==
  \E args \in ServerArgs, map \in MapClasses, filter \in FilterClasses,
     mode \in ClientModes, prog \in {"stunclient", "nat_test"},
     fixedPort \in BOOLEAN, source \in {LocalIp, NoIp} :
    Start(args, map, filter, mode, prog, fixedPort, source, TRUE)

(* No program to run.                                                      *)
DiscoveryIdle ==
  LET args == CHOOSE a \in ServerArgs : BuildServerConfigurationFromArgs(a, Adapters).ok
  IN  Start(args, "direct", "EIF", "basic", "stunclient", TRUE, LocalIp, FALSE)

Ended == IF env.prog = "nat_test" THEN n.pc \in Verdicts ELSE pc \in {"done", "aborted"}

(* A program that has ended stays so.                                      *)
Stay == Ended /\ UNCHANGED discoveryVars

DiscoveryNext ==
  \/ \E p \in net : ProcessRequestAndSendResponse(p)
  \/ Begin \/ (\E p \in net : UdpReceive(p)) \/ UdpTimeout
  \/ TcpRound \/ TcpStillWaiting \/ TcpReceive
  \/ NatBegin \/ (\E p \in net : NatReceive(p)) \/ NatTimeout
  \/ Stay

(* Waiting over UDP ends by itself: select and the NAT test's recvfrom     *)
(* have timeouts, and so has the operating system's connect.  The recv of  *)
(* the TCP client has none, and the server may stay silent.  Until the     *)
(* program has ended or is in that recv, one of Begin, UdpTimeout,         *)
(* TcpRound, TcpStillWaiting, NatBegin and NatTimeout can always be taken  *)
(* and moves the program, so this is weak fairness of their disjunction;   *)
(* nothing is assumed of TcpReceive.                                       *)
Receiving == pc = "receiving"

ProgramMoves == <<k, n, pc, opened>>' # <<k, n, pc, opened>>

DiscoveryFairness == []<>(Ended \/ Receiving) \/ []<><<ProgramMoves>>_discoveryVars

-----------------------------------------------------------------------------
(* Types: packets lie between the client's mappings and the server, the    *)
(* programs are in known states.                                           *)
TypeOK ==
  /\ pc \in {"run", "receiving", "done", "aborted"} /\ prompt \in BOOLEAN
  /\ n.pc \in Verdicts \cup {"test1", "test2", "test2open", "test1again", "test3"}
  /\ k.idx \in 1..(Len(k.tests) + 1) /\ k.sendCount \in 0..k.cfg.attempts
  /\ k.completed \subseteq Tests
  /\ \A o \in opened : o \in {<<MappedAddress(env.nat, LocalAddress, o[2]), o[2]>>}

(* Whatever is lost, repeated or late, a mapping behaviour the STUN client *)
(* reports is the NAT's: late answers of one test never decide another     *)
(* (transaction ids, CBehaviorTest::ProcessResponse).  Over TCP this needs *)
(* a fixed local port.                                                     *)
BehaviorRight ==
  k.res.behaviorOk /\ env.fixedPort => k.res.behavior = env.nat.map

(* Over UDP and behind a NAT the reported filtering is never more open     *)
(* than the NAT's: the filtering tests run before anything else has        *)
(* opened the NAT towards the other address (CStunClientLogic::Initialize) *)
(* and the server answers from the socket it was asked to.                 *)
FilteringNeverTooOpen ==
  k.res.filteringOk /\ ~k.res.direct /\ ~env.tcp =>
    /\ k.res.filtering = "EIF" => env.nat.filter = "EIF"
    /\ k.res.filtering = "ADF" => env.nat.filter \in {"EIF", "ADF"}

(* When no timeout fired while an answer was under way, a client that      *)
(* talks to a server with all four sockets finishes with every test it was *)
(* asked for successful and the exact classes, whatever the order of       *)
(* packets, repeated answers included.                                     *)
ExactWhenPrompt ==
  env.prog = "stunclient" /\ ~env.tcp /\ pc = "done" /\ prompt /\ env.full =>
    /\ k.res.binding /\ k.res.direct = (env.nat.map = "direct")
    /\ k.cfg.behavior => k.res.behaviorOk /\ k.res.behavior = env.nat.map
    /\ k.cfg.filtering => k.res.filteringOk
         /\ k.res.filtering = IF k.res.direct THEN "EIF" ELSE env.nat.filter

(* The peer's NAT test, against a server with all four sockets and without *)
(* repeated packets, calls nothing open that is not: FULL_CONE and         *)
(* OPEN_INTERNET mean that anyone reaches the peer, OPEN_INTERNET and      *)
(* SYM_UDP_FIREWALL that its address is not translated.                    *)
NatVerdictSound ==
  env.full =>
    /\ n.pc \in {"FULL_CONE", "OPEN_INTERNET"} => env.nat.filter = "EIF"
    /\ n.pc \in {"OPEN_INTERNET", "SYM_UDP_FIREWALL"} => env.nat.map = "direct"

(* Every program ends, with whatever packets come back: the retries are    *)
(* bounded (CStunClientLogic::GetNextMessage) and so are the tests.  The   *)
(* one thing that can hold it up for ever is the recv of a TCP connection, *)
(* which has no timeout (clientmain.cpp:442), on a server that is silent.  *)
DiscoveryEnds == <>Ended \/ <>[]Receiving
=============================================================================
