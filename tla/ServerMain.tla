----------------------------- MODULE ServerMain -----------------------------
(***************************************************************************)
(* The server program (server/main.cpp): it starts one UDP or TCP server   *)
(* for every configuration, waits for a signal, and stops them.  What a    *)
(* failure half way leaves behind is the point, so sockets are opened one  *)
(* by one.                                                                 *)
(*                                                                         *)
(* main is [file, next, pc, udp, tcp, role]: the configurations, the index *)
(* of the one being started, the servers started so far in their two       *)
(* vectors, and the role whose socket is opened next.  bound are the       *)
(* sockets the kernel holds for the process, each [owner, tcp, addr].      *)
(***************************************************************************)
EXTENDS ServerConfig

CONSTANTS
  ServerFiles,    \* configuration files, sequences of arguments
  HostAdapters    \* what the system enumerates

(* A file is a sequence.                                                   *)
ASSUME ServerFilesAssumption == \A f \in ServerFiles : f \in Seq(ToSet(f))

VARIABLES main, bound

mainVars == <<main, bound>>

(* A file without configurations is refused like one that does not parse.  *)
LoadConfigsFromFile(file) ==
  /\ main = [file |-> file, next |-> 1, pc |-> IF file = <<>> THEN "exited" ELSE "build",
             udp |-> <<>>, tcp |-> <<>>, role |-> RolePP]
  /\ bound = {}

Config(m) == BuildServerConfigurationFromArgs(m.file[m.next], HostAdapters)

(* The top of the loop: a configuration that cannot be built ends it.      *)
BuildNext ==
  /\ main.pc = "build"
  /\ main' = [main EXCEPT !.role = RolePP,
       !.pc = IF main.next > Len(main.file) THEN "waiting"
              ELSE IF Config(main).ok THEN "open" ELSE "stopUdp"]
  /\ UNCHANGED bound

(* Two sockets of a protocol cannot share a port on one address, and a     *)
(* socket bound to any address has them all.                               *)
InUse(tcp, a) ==
  \E b \in bound : /\ b.tcp = tcp /\ b.addr.port = a.port
                   /\ IsSameIP(b.addr, a) \/ IsIPAddressZero(b.addr) \/ IsIPAddressZero(a)

(* UDPInit or TCPInit of the next role that the configuration has.         *)
InitSocket ==
  /\ main.pc = "open" /\ main.role \in Role
  /\ LET c == Config(main)
         a == c.addr[main.role]
         wanted == main.role \in c.has
     IN  /\ wanted => ~InUse(c.fTCP, a)
         /\ bound' = IF wanted THEN bound \cup {[owner |-> main.next, tcp |-> c.fTCP, addr |-> a]}
                     ELSE bound
  /\ main' = [main EXCEPT !.role = @ + 1]

(* All sockets are open and the threads have started: the vector holds the *)
(* server, and its place in the file stands for it.                        *)
StartServer ==
  /\ main.pc = "open" /\ main.role \notin Role
  /\ main' = [main EXCEPT !.pc = "build", !.next = @ + 1,
       !.udp = IF Config(main).fTCP THEN @ ELSE Append(@, main.next),
       !.tcp = IF Config(main).fTCP THEN Append(@, main.next) ELSE @]
  /\ UNCHANGED bound

\* Mutant: what a failed server had opened stays open.
StartFailsOpen ==
  /\ main.pc = "open" /\ main' = [main EXCEPT !.pc = "stopUdp"]
  /\ UNCHANGED bound

(* A socket or a thread cannot be had: Initialize shuts the server down,   *)
(* or its last reference goes, and main leaves the loop.                   *)
StartFails ==
  /\ main.pc = "open" /\ main' = [main EXCEPT !.pc = "stopUdp"]
  /\ bound' = {b \in bound : b.owner # main.next}

WaitForAppExitSignal ==
  /\ main.pc = "waiting" /\ main' = [main EXCEPT !.pc = "stopUdp"]
  /\ UNCHANGED bound

(* Stopping a UDP server ends its threads; the sockets go with the server  *)
(* when main returns.  Stopping a TCP server closes its sockets.           *)
StopUdpServer ==
  /\ main.pc = "stopUdp"
  /\ main' = IF main.udp = <<>> THEN [main EXCEPT !.pc = "stopTcp"]
             ELSE [main EXCEPT !.udp = Tail(@)]
  /\ UNCHANGED bound

StopTcpServer ==
  /\ main.pc = "stopTcp"
  /\ IF main.tcp = <<>>
       THEN main' = [main EXCEPT !.pc = "exited"] /\ bound' = {}
       ELSE /\ main' = [main EXCEPT !.tcp = Tail(@)]
            /\ bound' = {b \in bound : b.owner # Head(main.tcp)}

MainNext ==
  \/ BuildNext \/ InitSocket \/ StartServer \/ StartFails
  \/ WaitForAppExitSignal \/ StopUdpServer \/ StopTcpServer

-----------------------------------------------------------------------------
Started(m) == ToSet(m.udp) \cup ToSet(m.tcp)

(* Whatever fails, and in the middle of which server: while main waits for *)
(* its signal every configured server runs; between two servers, and from  *)
(* a failure on, only sockets of servers that main knows to stop are open; *)
(* and no two of them are in each other's way (main, CStunServer and       *)
(* CTCPServer::Initialize).                                                *)
ServersAllOrNone ==
  /\ main.pc = "waiting" =>
       /\ Started(main) = 1..Len(main.file)
       /\ \A i \in Started(main) :
            {b.addr : b \in {x \in bound : x.owner = i}}
              = LET c == Config([main EXCEPT !.next = i]) IN {c.addr[r] : r \in c.has}
  /\ main.pc = "build" => {b.owner : b \in bound} = Started(main)
  /\ main.pc = "stopUdp" => {b.owner : b \in bound} \subseteq 1..(main.next - 1)
  /\ main.pc = "stopTcp" => \A b \in bound : b.tcp => b.owner \in Started(main)
  /\ \A a, b \in bound : a # b /\ a.tcp = b.tcp => ~IsSameIP_and_Port(a.addr, b.addr)
=============================================================================
