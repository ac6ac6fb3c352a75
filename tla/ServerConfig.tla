---------------------------- MODULE ServerConfig ----------------------------
(***************************************************************************)
(* From the server's arguments to its sockets: the configuration built by  *)
(* server/main.cpp, the adapters it picks (networkutils/adapters.cpp), and *)
(* the address sets the UDP and the TCP server hand to the handler.        *)
(*                                                                         *)
(* adapters is the list the system enumerates, each [name, ip, up]; args   *)
(* is [mode, protocol, primaryInterface, altInterface, primaryPort,        *)
(* altPort, primaryAdvertised, altAdvertised, maxConnections], with None   *)
(* for what was not given; an advertised address is an ip.                 *)
(***************************************************************************)
EXTENDS StunHandler

None == "none"
NoIp == <<0>>
DEFAULT_STUN_PORT == 3478

(* The first and the second adapter that are up, loopback left out.        *)
GetDefaultAdapters(adapters) == SelectSeq(adapters, LAMBDA d : d.up)

HasAtLeastTwoAdapters(adapters) == Len(GetDefaultAdapters(adapters)) >= 2

GetBestAddressForSocketBind(adapters, primary) ==
  LET n == IF primary THEN 1 ELSE 2 IN
  IF Len(GetDefaultAdapters(adapters)) < n THEN NoAddr
  ELSE Addr(GetDefaultAdapters(adapters)[n].ip, 0)

(* An adapter asked for by name, or by its address, need not be up.        *)
GetSocketAddressForAdapter(adapters, name) ==
  LET found == SelectSeq(adapters, LAMBDA d : d.name = name)
  IN  IF found = <<>> THEN NoAddr ELSE Addr(Head(found).ip, 0)

ResolveAdapterName(adapters, primary, name) ==
  IF name = None THEN GetBestAddressForSocketBind(adapters, primary)
  ELSE GetSocketAddressForAdapter(adapters, name)

(* A number given by the user has to be in its range.                      *)
PortOr(given, default) == IF given = 0 THEN default ELSE given

NoConfig == [ok |-> FALSE]

(* Basic mode: one socket, on every adapter when none is named.  Full      *)
(* mode: two different addresses, two ports on each.                       *)
Sockets(args, adapters, port, altPort) ==
  LET basic == IF args.primaryInterface = None THEN ZeroAddr
               ELSE GetSocketAddressForAdapter(adapters, args.primaryInterface)
      p == ResolveAdapterName(adapters, TRUE, args.primaryInterface)
      a == ResolveAdapterName(adapters, FALSE, args.altInterface)
  IN  IF args.mode = "full"
        THEN [ok |-> HasAtLeastTwoAdapters(adapters) /\ NoAddr \notin {p, a}
                     /\ ~IsSameIP(p, a),
              has |-> Role,
              addr |-> (RolePP :> SetPort(p, port)) @@ (RolePA :> SetPort(p, altPort))
                    @@ (RoleAP :> SetPort(a, port)) @@ (RoleAA :> SetPort(a, altPort))]
        ELSE [ok |-> basic # NoAddr, has |-> {RolePP},
              addr |-> [r \in Role |-> IF r = RolePP THEN SetPort(basic, port) ELSE ZeroAddr]]

(* The checks of mode, protocol, number of connections and ports.          *)
ArgsAccepted(args, port, altPort) ==
  /\ args.mode \in {"basic", "full"} /\ args.protocol \in {"udp", "tcp"}
  /\ args.protocol = "tcp" => args.maxConnections \in 0..100000
  /\ port \in 1..65535 /\ altPort \in 1..65535 /\ port # altPort

(* Asking for an alternate advertised address outside full mode is logged  *)
(* as an error and accepted.                                               *)
ConfigWith(args, s) ==
  [ok |-> TRUE, fTCP |-> args.protocol = "tcp", has |-> s.has, addr |-> s.addr,
   nMaxConnections |-> args.maxConnections,
   advertised |-> [r \in Role |-> IF r < RoleAP THEN args.primaryAdvertised
                                  ELSE args.altAdvertised]]

BuildServerConfigurationFromArgs(args, adapters) ==
  LET port == PortOr(args.primaryPort, DEFAULT_STUN_PORT)
      altPort == PortOr(args.altPort, DEFAULT_STUN_PORT + 1)
      s == Sockets(args, adapters, port, altPort)
  IN  IF ArgsAccepted(args, port, altPort) /\ s.ok THEN ConfigWith(args, s) ELSE NoConfig

(* What the handler is told of a socket: the advertised address, when      *)
(* there is one, with the port it listens on.                              *)
SetEntry(config, role) ==
  [valid |-> role \in config.has,
   addr |-> IF role \notin config.has THEN ZeroAddr
            ELSE IF config.advertised[role] = NoIp THEN config.addr[role]
            ELSE Addr(config.advertised[role], config.addr[role].port)]

(* The UDP server's sockets and their address set.                         *)
AddSocket(config, role) == SetEntry(config, role)

UdpAddressSet(config) == [r \in Role |-> AddSocket(config, r)]

(* The TCP server keeps the set only to know what other address to offer.  *)
InitTSA(config, role) == SetEntry(config, role)

TcpAddressSet(config) == [r \in Role |-> InitTSA(config, r)]
=============================================================================
