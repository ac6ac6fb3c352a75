-------------------------- MODULE ComponentsProofs --------------------------
(***************************************************************************)
(* Proofs about the parts of Components, for any files, arguments, streams *)
(* and descriptors: the automaton, the configuration file, the server      *)
(* program, the poll set, the stream of STUN messages with its answers,    *)
(* and the peer's NAT test.                                                *)
(***************************************************************************)
EXTENDS Components, PollSetProofs

-----------------------------------------------------------------------------
(* The automaton. *)

\* The last step was one of set_next_dfa_state, on a state of the matrix.
DfaInv ==
  /\ dfa.from \in State /\ dfa.state \in State
  /\ \/ dfa.cond = 0
     \/ dfa.cond \in Condition /\ dfa.state = set_next_dfa_state(dfa.from, dfa.cond)

\* A condition stands in one cell of the matrix (src/dfa_state.h).
LEMMA OneCell ==
  ASSUME NEW s \in State, NEW t \in State, NEW x \in State, NEW y \in State,
         state_matrix[s][t] # 0, state_matrix[x][y] = state_matrix[s][t]
  PROVE  x = s /\ y = t
<1>1. \A a \in State :
        /\ state_matrix[a][1] = IF a = 2 THEN 2 ELSE 0
        /\ state_matrix[a][2] = IF a = 1 THEN 1 ELSE IF a = 3 THEN 4 ELSE 0
        /\ state_matrix[a][3] = IF a = 2 THEN 3 ELSE 0
        /\ state_matrix[a][4] = IF a = 3 THEN 5 ELSE IF a = 4 THEN 6 ELSE 0
  BY DEF state_matrix, State, S_START, S_RUN, C_START_AUTHEN, C_AUTHEN_FAILED,
         C_START_KEYEXC, C_KEY_EXEC_FAILED, C_KEY_EXEC_SUCCESS, C_SEND_PAY_LOAD
<1>2. t \in {1, 2, 3, 4} /\ y \in {1, 2, 3, 4}
  BY DEF State, S_START, S_RUN
<1> QED
  BY <1>1, <1>2

\* The first of a set with one member.
LEMMA FirstOfOne ==
  ASSUME NEW s \in State, NEW set, set = {s}
  PROVE  First(set) = s
  BY DEF First, State, S_START, S_RUN

\* Wherever a search ends, it is at a state.
LEMMA NextIsState ==
  ASSUME NEW s \in State, NEW c
  PROVE  set_next_dfa_state(s, c) \in State
<1>1. \A set \in SUBSET State : set # {} => First(set) \in State
  <2> SUFFICES ASSUME NEW set \in SUBSET State, set # {} PROVE First(set) \in State
    OBVIOUS
  <2>1. set \subseteq Nat
    BY DEF State, S_START, S_RUN
  <2>2. \E x \in set : \A y \in set : x <= y
    BY <2>1, LeastNat
  <2> QED
    BY <2>2 DEF First
<1>2. /\ {x \in State : state_matrix[x][s] = c} \in SUBSET State
      /\ {x \in State : state_matrix[s][x] = c} \in SUBSET State
  OBVIOUS
<1> QED
  BY <1>1, <1>2 DEF set_next_dfa_state

\* The line of a state decides, although its column is searched first.
LEMMA LineDecides ==
  ASSUME NEW s \in State, NEW t \in State, state_matrix[s][t] # 0
  PROVE  set_next_dfa_state(s, state_matrix[s][t]) = t
<1> DEFINE c == state_matrix[s][t]
           lines == {x \in State : state_matrix[x][s] = c}
           cols == {x \in State : state_matrix[s][x] = c}
<1>1. \A x \in lines : x = s /\ s = t
  BY OneCell
<1>2. \A x \in cols : x = t
  BY OneCell
<1>3. t \in cols
  OBVIOUS
<1>4. cols = {t} /\ (lines # {} => lines = {t})
  BY <1>1, <1>2, <1>3
<1>5. First(cols) = t /\ (lines # {} => First(lines) = t)
  BY <1>4, FirstOfOne
<1>6. set_next_dfa_state(s, c) = IF lines # {} THEN First(lines) ELSE IF cols # {} THEN First(cols) ELSE s
  BY DEF set_next_dfa_state
<1> QED
  BY <1>4, <1>5, <1>6

\* Whatever conditions are signalled, in whatever order.
LEMMA InitDfa == Init => DfaInv
  BY DEF Init, DfaInv, init_dfa, State, S_START, S_RUN

LEMMA NextDfa == DfaInv /\ [Next]_vars => DfaInv'
<1> SUFFICES ASSUME DfaInv, [Next]_vars PROVE DfaInv'
  OBVIOUS
<1>1. CASE Signal
  BY <1>1, NextIsState DEF DfaInv, Signal
<1>2. CASE UNCHANGED dfa
  BY <1>2 DEF DfaInv
<1> QED
  BY <1>1, <1>2 DEF Next, vars, Discover, Stream, Serve, Poll, ReadConf

\* A condition that the matrix has in the line of the current state leads to
\* that column (DfaFollowsMatrix, set_next_dfa_state), from whatever state
\* and after whatever conditions.
THEOREM DfaAlwaysFollowsMatrix == Spec => []DfaFollowsMatrix
<1>1. DfaInv => DfaFollowsMatrix
  <2> SUFFICES ASSUME DfaInv, NEW s \in State, dfa.cond # 0,
                      state_matrix[dfa.from][s] = dfa.cond
               PROVE  dfa.state = s
    BY DEF DfaFollowsMatrix
  <2> QED
    BY LineDecides DEF DfaInv
<1> QED
  BY <1>1, InitDfa, NextDfa, PTL DEF Spec

-----------------------------------------------------------------------------
(* The poll set. *)

\* The other parts leave the poll set alone.
THEOREM ComponentsPoll == Spec => PollSpec
<1>1. Init => PollStart
  BY DEF Init
<1>2. [Next]_vars => [PollNext]_pollVars
  BY DEF Next, vars, Discover, Stream, Serve, Poll, ReadConf, Signal
<1> QED
  BY <1>1, <1>2, PTL DEF Spec, PollSpec

\* Among the components as alone, the table of the poll set finds every
\* socket at its place, and no event is handed out that an earlier socket
\* with the same number left behind (PollConsistent, CPoll).
THEOREM ComponentsPollConsistent == Spec => []PollConsistent
  BY ComponentsPoll, PollAlwaysConsistent, PTL

-----------------------------------------------------------------------------
(* The configuration file. *)

\* The items are what the lines read last give.
ConfInv ==
  /\ conf = [lines |-> conf.lines, items |-> read_conf(conf.lines)]
  /\ conf.lines = <<>> \/ conf.lines \in ConfFiles

\* A line that ends in a line feed gives its value.
LEMMA ParsedLine ==
  ASSUME NEW lines, NEW i \in 1 .. Len(lines), NEW S, lines[i].value \in Seq(S),
         lines[i].ending = "lf"
  PROVE  conf_parser(lines)[i] = [key |-> lines[i].key, value |-> lines[i].value]
<1> DEFINE v == lines[i].value
           rest == v \o Ending["lf"]
<1>1. Ending["lf"] = <<"LF">>
  BY DEF Ending
<1>2. v \in Seq(S \cup {"LF"}) /\ <<"LF">> \in Seq(S \cup {"LF"})
  OBVIOUS
<1>3. Len(rest) = Len(v) + 1 /\ \A j \in 1 .. Len(v) : rest[j] = v[j]
  BY <1>1, <1>2
<1>4. SubSeq(rest, 1, Len(rest) - 1) = v
  BY <1>1, <1>2, <1>3
<1> QED
  BY <1>4 DEF conf_parser

\* The items are as many as the lines, and carry their keys.
LEMMA ItemsOf ==
  ASSUME NEW lines
  PROVE  /\ DOMAIN conf_parser(lines) = 1 .. Len(lines)
         /\ \A i \in 1 .. Len(lines) : conf_parser(lines)[i].key = lines[i].key
  BY DEF conf_parser

\* The first item under a key is found.
LEMMA FirstFound ==
  ASSUME NEW items, NEW size \in Nat, DOMAIN items = 1 .. size, NEW i \in 1 .. size,
         \A j \in 1 .. (i - 1) : items[j].key # items[i].key
  PROVE  get_value(items, items[i].key) = items[i].value
<1> DEFINE found == {j \in DOMAIN items : items[j].key = items[i].key}
           m == CHOOSE j \in found : \A l \in found : j <= l
<1>1. i \in found /\ \A l \in found : i <= l
  OBVIOUS
<1>2. m \in found /\ \A l \in found : m <= l
  BY <1>1
<1>3. m = i
  BY <1>1, <1>2
<1> QED
  BY <1>1, <1>3 DEF get_value

LEMMA InitConf == Init => ConfInv
<1>1. read_conf(<<>>) = <<>>
  BY DEF read_conf, conf_parser
<1> QED
  BY <1>1 DEF Init, ConfInv

LEMMA NextConf == ConfInv /\ [Next]_vars => ConfInv'
<1> SUFFICES ASSUME ConfInv, [Next]_vars PROVE ConfInv'
  OBVIOUS
<1>1. CASE ReadConf
  BY <1>1 DEF ConfInv, ReadConf
<1>2. CASE UNCHANGED conf
  BY <1>2 DEF ConfInv
<1> QED
  BY <1>1, <1>2 DEF Next, vars, Discover, Stream, Serve, Poll, Signal

\* A value whose line ends in a line feed is read exactly (ConfExact,
\* conf_parser and get_value), whatever characters it and the other lines
\* have.
THEOREM ConfAlwaysExact == Spec => []ConfExact
<1>1. ConfInv => ConfExact
  <2> SUFFICES ASSUME ConfInv, NEW i \in 1 .. Len(conf.lines), conf.lines[i].ending = "lf",
                      \A j \in 1 .. (i - 1) : conf.lines[j].key # conf.lines[i].key
               PROVE  get_value(conf.items, conf.lines[i].key) = conf.lines[i].value
    BY DEF ConfExact
  <2> DEFINE lines == conf.lines
             items == conf_parser(lines)
  <2>1. conf.items = items
    BY DEF ConfInv, read_conf
  <2>2. lines \in ConfFiles
    BY DEF ConfInv
  <2>3. lines \in Seq(ToSet(lines)) /\ lines[i].value \in Seq(ToSet(lines[i].value))
    BY <2>2, ConfAssumption
  <2>4. items[i] = [key |-> lines[i].key, value |-> lines[i].value]
    BY <2>3, ParsedLine
  <2>5. Len(lines) \in Nat
    BY <2>3
  <2>6. DOMAIN items = 1 .. Len(lines) /\ \A j \in 1 .. Len(lines) : items[j].key = lines[j].key
    BY ItemsOf
  <2>7. \A j \in 1 .. (i - 1) : items[j].key # items[i].key
    BY <2>5, <2>6
  <2> HIDE DEF items, lines
  <2>8. get_value(items, items[i].key) = items[i].value
    BY <2>5, <2>6, <2>7, FirstFound DEF lines
  <2> QED
    BY <2>1, <2>4, <2>8 DEF lines
<1> QED
  BY <1>1, InitConf, NextConf, PTL DEF Spec

-----------------------------------------------------------------------------
(* The server program.  ConfigOf(f, i) is the configuration of the i-th    *)
(* server of a file, Ports(bound, i) the addresses of its open sockets.    *)

ConfigOf(f, i) == BuildServerConfigurationFromArgs(f[i], HostAdapters)

AddrsOf(c) == {c.addr[r] : r \in c.has}

AddrsBelow(c, role) == {c.addr[r] : r \in {x \in c.has : x < role}}

Ports(set, i) == {b.addr : b \in {x \in set : x.owner = i}}

MainShape ==
  /\ main = [file |-> main.file, next |-> main.next, pc |-> main.pc,
             udp |-> main.udp, tcp |-> main.tcp, role |-> main.role]
  /\ main.file \in {<<>>} \cup ServerFiles
  /\ main.next \in 1 .. (Len(main.file) + 1)
  /\ main.pc \in {"build", "open", "waiting", "stopUdp", "stopTcp", "exited"}
  /\ main.udp \in Seq(Nat) /\ main.tcp \in Seq(Nat)

\* Until main stops servers: those before next run, with all their sockets.
Running ==
  main.pc \in {"build", "open", "waiting"} =>
    /\ Started(main) = 1 .. (main.next - 1)
    /\ \A i \in 1 .. (main.next - 1) :
         /\ ConfigOf(main.file, i).ok
         /\ i \in ToSet(main.tcp) <=> ConfigOf(main.file, i).fTCP
         /\ Ports(bound, i) = AddrsOf(ConfigOf(main.file, i))
    /\ \A b \in bound : b.tcp = ConfigOf(main.file, b.owner).fTCP

\* The sockets of the server being started, up to its next role.
Opening ==
  main.pc = "open" =>
    LET c == ConfigOf(main.file, main.next)
    IN  /\ main.next <= Len(main.file) /\ c.ok /\ main.role \in 0 .. 4
        /\ Ports(bound, main.next) = AddrsBelow(c, main.role)

\* Every socket has an owner that main knows.
Owned ==
  /\ main.pc # "exited" => \A b \in bound :
       b.owner \in 1 .. IF main.pc = "open" THEN main.next ELSE main.next - 1
  /\ main.pc \in {"stopUdp", "stopTcp"} => \A b \in bound : b.tcp => b.owner \in ToSet(main.tcp)
  /\ main.pc = "stopTcp" => main.udp = <<>>
  /\ main.pc = "waiting" => main.next = Len(main.file) + 1
  /\ main.pc = "exited" => bound = {}

Apart == \A a, b \in bound : a # b /\ a.tcp = b.tcp => ~IsSameIP_and_Port(a.addr, b.addr)

MainInv == MainShape /\ Running /\ Opening /\ Owned /\ Apart

\* A configuration that can be built has sockets of known roles.
LEMMA ConfigRoles ==
  ASSUME NEW args, NEW adapters,
         BuildServerConfigurationFromArgs(args, adapters).ok
  PROVE  LET c == BuildServerConfigurationFromArgs(args, adapters)
         IN  c.fTCP \in BOOLEAN /\ c.has \subseteq 0 .. 3 /\ c.has # {}
<1> DEFINE port == PortOr(args.primaryPort, DEFAULT_STUN_PORT)
           altPort == PortOr(args.altPort, DEFAULT_STUN_PORT + 1)
           s == Sockets(args, adapters, port, altPort)
           c == BuildServerConfigurationFromArgs(args, adapters)
<1>1. s.has = Role \/ s.has = {RolePP}
  BY DEF Sockets
<1>2. s.has \subseteq 0 .. 3 /\ s.has # {}
  BY <1>1 DEF Role, RolePP
<1>3. c = IF ArgsAccepted(args, port, altPort) /\ s.ok THEN ConfigWith(args, s) ELSE NoConfig
  BY DEF BuildServerConfigurationFromArgs
<1>4. c # NoConfig
  BY DEF NoConfig
<1>5. c = ConfigWith(args, s)
  BY <1>3, <1>4
<1>6. ConfigWith(args, s).has = s.has /\ ConfigWith(args, s).fTCP = (args.protocol = "tcp")
  BY DEF ConfigWith
<1> HIDE DEF c, s
<1> QED
  BY <1>2, <1>5, <1>6 DEF c

\* The file's length, and the roles of a built configuration.
LEMMA MainFile ==
  ASSUME MainShape
  PROVE  /\ Len(main.file) \in Nat /\ main.next \in Nat \ {0}
         /\ \A i : ConfigOf(main.file, i).ok =>
              /\ ConfigOf(main.file, i).fTCP \in BOOLEAN
              /\ ConfigOf(main.file, i).has \subseteq 0 .. 3
              /\ ConfigOf(main.file, i).has # {}
<1>1. main.file = <<>> \/ main.file \in Seq(ToSet(main.file))
  BY ServerFilesAssumption DEF MainShape
<1>2. Len(main.file) \in Nat
  BY <1>1
<1> QED
  BY <1>2, ConfigRoles DEF MainShape, ConfigOf

LEMMA InitMain == Init => MainInv
<1> SUFFICES ASSUME Init PROVE MainInv
  OBVIOUS
<1>1. PICK f \in {<<>>} \cup ServerFiles : LoadConfigsFromFile(f)
  BY DEF Init
<1>2. f = <<>> \/ f \in Seq(ToSet(f))
  BY ServerFilesAssumption
<1>3. Len(f) \in Nat
  BY <1>2
<1>4. /\ main = [file |-> f, next |-> 1, pc |-> IF f = <<>> THEN "exited" ELSE "build",
                 udp |-> <<>>, tcp |-> <<>>, role |-> RolePP]
      /\ bound = {}
  BY <1>1 DEF LoadConfigsFromFile
<1>5. ToSet(<<>>) = {}
  BY DEF ToSet
<1>6. MainShape
  BY <1>3, <1>4 DEF MainShape
<1> QED
  BY <1>3, <1>4, <1>5, <1>6 DEF MainInv, Running, Opening, Owned, Apart, Started

LEMMA BuildMain == MainInv /\ BuildNext => MainInv'
<1> SUFFICES ASSUME MainInv, BuildNext PROVE MainInv'
  OBVIOUS
<1> DEFINE c == ConfigOf(main.file, main.next)
<1>1. /\ MainShape /\ Running /\ Opening /\ Owned /\ Apart
      /\ Len(main.file) \in Nat /\ main.next \in Nat \ {0}
      /\ c.ok => c.has \subseteq 0 .. 3
  BY MainFile DEF MainInv
<1>2. /\ main.pc = "build" /\ bound' = bound
      /\ main' = [main EXCEPT !.role = 0,
           !.pc = IF main.next > Len(main.file) THEN "waiting"
                  ELSE IF c.ok THEN "open" ELSE "stopUdp"]
  BY DEF BuildNext, Config, ConfigOf, RolePP
<1>3. /\ main'.file = main.file /\ main'.next = main.next
      /\ main'.udp = main.udp /\ main'.tcp = main.tcp /\ main'.role = 0
      /\ main'.pc = IF main.next > Len(main.file) THEN "waiting"
                    ELSE IF c.ok THEN "open" ELSE "stopUdp"
  BY <1>1, <1>2 DEF MainShape
<1>4. MainShape'
  BY <1>1, <1>2, <1>3 DEF MainShape
<1>5. Running'
  BY <1>1, <1>2, <1>3 DEF Running, Started, Ports
<1>6. Opening'
  <2>1. SUFFICES ASSUME main'.pc = "open" PROVE Opening'
    BY DEF Opening
  <2>2. main.next <= Len(main.file) /\ c.ok
    BY <1>1, <1>3, <2>1
  <2>3. {x \in c.has : x < 0} = {}
    BY <1>1, <2>2
  <2>4. Ports(bound, main.next) = {}
    BY <1>1, <1>2 DEF Owned, Ports
  <2>5. /\ Ports(bound', main'.next) = {} /\ ConfigOf(main'.file, main'.next) = c
        /\ AddrsBelow(c, 0) = {}
    BY <1>2, <1>3, <2>3, <2>4 DEF AddrsBelow
  <2> HIDE DEF c
  <2> QED
    BY <1>3, <2>2, <2>5 DEF Opening
<1>7. Owned'
  <2>1. ASSUME NEW b \in bound
        PROVE  /\ b.owner \in 1 .. (main.next - 1)
               /\ b.tcp => b.owner \in ToSet(main.tcp)
    <3>1. b.owner \in 1 .. (main.next - 1)
      BY <1>1, <1>2 DEF Owned
    <3>2. b.tcp => ConfigOf(main.file, b.owner).fTCP
      BY <1>1, <1>2 DEF Running
    <3> QED
      BY <1>1, <1>2, <3>1, <3>2 DEF Running
  <2>2. main'.pc \in {"waiting", "open", "stopUdp"} /\ bound' = bound
    BY <1>2, <1>3
  <2>3. \A b \in bound' :
          /\ b.owner \in 1 .. IF main'.pc = "open" THEN main'.next ELSE main'.next - 1
          /\ b.tcp => b.owner \in ToSet(main'.tcp)
    BY <1>1, <1>3, <2>1, <2>2
  <2>4. main'.pc = "waiting" => main'.next = Len(main'.file) + 1
    BY <1>1, <1>3 DEF MainShape
  <2> QED
    BY <2>2, <2>3, <2>4 DEF Owned
<1>8. Apart'
  BY <1>1, <1>2 DEF Apart
<1> QED
  BY <1>4, <1>5, <1>6, <1>7, <1>8 DEF MainInv

LEMMA SocketMain == MainInv /\ InitSocket => MainInv'
<1> SUFFICES ASSUME MainInv, InitSocket PROVE MainInv'
  OBVIOUS
<1> DEFINE c == ConfigOf(main.file, main.next)
           a == c.addr[main.role]
           new == [owner |-> main.next, tcp |-> c.fTCP, addr |-> a]
<1>1. /\ MainShape /\ Running /\ Opening /\ Owned /\ Apart
      /\ Len(main.file) \in Nat /\ main.next \in Nat \ {0}
      /\ c.ok => c.has \subseteq 0 .. 3
  BY MainFile DEF MainInv
<1>2. /\ main.pc = "open" /\ main.role \in 0 .. 3
      /\ main.role \in c.has => ~InUse(c.fTCP, a)
      /\ bound' = IF main.role \in c.has THEN bound \cup {new} ELSE bound
      /\ main' = [main EXCEPT !.role = main.role + 1]
  BY DEF InitSocket, Config, ConfigOf, Role
<1>3. /\ main'.file = main.file /\ main'.next = main.next /\ main'.pc = "open"
      /\ main'.udp = main.udp /\ main'.tcp = main.tcp /\ main'.role = main.role + 1
  BY <1>1, <1>2 DEF MainShape
<1>4. MainShape'
  BY <1>1, <1>2, <1>3 DEF MainShape
<1>5. c.ok /\ c.has \subseteq 0 .. 3 /\ Ports(bound, main.next) = AddrsBelow(c, main.role)
      /\ main.next <= Len(main.file)
  BY <1>1, <1>2 DEF Opening
<1>6. new.owner = main.next /\ new.tcp = c.fTCP /\ new.addr = a
  OBVIOUS
<1> HIDE DEF new
<1>7. Running'
  <2>1. \A i \in 1 .. (main.next - 1) : Ports(bound', i) = Ports(bound, i)
    BY <1>1, <1>2, <1>6 DEF Ports
  <2>2. \A b \in bound' : b.tcp = ConfigOf(main.file, b.owner).fTCP
    BY <1>1, <1>2, <1>6 DEF Running
  <2> QED
    BY <1>1, <1>2, <1>3, <2>1, <2>2 DEF Running, Started
<1>8. Opening'
  <2>1. Ports(bound', main.next) = AddrsBelow(c, main.role + 1)
    <3>1. CASE main.role \in c.has
      <4>1. Ports(bound', main.next) = Ports(bound, main.next) \cup {a}
        BY <1>2, <1>6, <3>1 DEF Ports
      <4>2. AddrsBelow(c, main.role + 1) = AddrsBelow(c, main.role) \cup {a}
        <5>1. {x \in c.has : x < main.role + 1} = {x \in c.has : x < main.role} \cup {main.role}
          BY <1>2, <1>5, <3>1
        <5> QED
          BY <5>1 DEF AddrsBelow
      <4> QED
        BY <1>5, <4>1, <4>2
    <3>2. CASE main.role \notin c.has
      <4>1. {x \in c.has : x < main.role + 1} = {x \in c.has : x < main.role}
        BY <1>2, <1>5, <3>2
      <4> QED
        BY <1>2, <1>5, <3>2, <4>1 DEF AddrsBelow
    <3> QED
      BY <3>1, <3>2
  <2>2. main'.role \in 0 .. 4 /\ ConfigOf(main'.file, main'.next) = c
    BY <1>2, <1>3
  <2> HIDE DEF c
  <2> QED
    BY <1>3, <1>5, <2>1, <2>2 DEF Opening
<1>9. Owned'
  <2>1. \A b \in bound : b.owner \in 1 .. main.next
    BY <1>1, <1>2 DEF Owned
  <2>2. \A b \in bound' : b.owner \in 1 .. main.next
    BY <1>1, <1>2, <1>6, <2>1
  <2> QED
    BY <1>3, <2>2 DEF Owned
<1>10. Apart'
  <2>1. CASE main.role \notin c.has
    BY <1>1, <1>2, <2>1 DEF Apart
  <2>2. CASE main.role \in c.has
    <3>1. \A b \in bound : b.tcp = new.tcp =>
            ~IsSameIP_and_Port(b.addr, new.addr) /\ ~IsSameIP_and_Port(new.addr, b.addr)
      BY <1>2, <1>6, <2>2 DEF InUse, IsSameIP_and_Port, IsSameIP
    <3> QED
      BY <1>1, <1>2, <2>2, <3>1 DEF Apart
  <2> QED
    BY <2>1, <2>2
<1> QED
  BY <1>4, <1>7, <1>8, <1>9, <1>10 DEF MainInv

\* The members of a sequence with one more, and with one less.
LEMMA AppendSet ==
  ASSUME NEW q \in Seq(Nat), NEW x \in Nat
  PROVE  ToSet(Append(q, x)) = ToSet(q) \cup {x}
<1>1. /\ DOMAIN Append(q, x) = 1 .. (Len(q) + 1) /\ DOMAIN q = 1 .. Len(q)
      /\ \A j \in 1 .. Len(q) : Append(q, x)[j] = q[j]
      /\ Append(q, x)[Len(q) + 1] = x
      /\ Len(q) \in Nat
  OBVIOUS
<1>2. 1 .. (Len(q) + 1) = 1 .. Len(q) \cup {Len(q) + 1}
  BY <1>1
<1> HIDE DEF ToSet
<1> QED
  BY <1>1, <1>2 DEF ToSet

LEMMA TailSet ==
  ASSUME NEW q \in Seq(Nat), q # <<>>
  PROVE  ToSet(q) = ToSet(Tail(q)) \cup {Head(q)} /\ Tail(q) \in Seq(Nat)
<1>1. /\ DOMAIN q = 1 .. Len(q) /\ DOMAIN Tail(q) = 1 .. (Len(q) - 1)
      /\ \A j \in 1 .. (Len(q) - 1) : Tail(q)[j] = q[j + 1]
      /\ Head(q) = q[1] /\ Len(q) \in Nat \ {0} /\ Tail(q) \in Seq(Nat)
  OBVIOUS
<1>2. \A x \in ToSet(q) : x \in ToSet(Tail(q)) \/ x = Head(q)
  <2> SUFFICES ASSUME NEW j \in 1 .. Len(q), j # 1 PROVE q[j] \in ToSet(Tail(q))
    BY <1>1, ZenonT(30), SMTT(60) DEF ToSet
  <2>1. j - 1 \in 1 .. (Len(q) - 1) /\ Tail(q)[j - 1] = q[j]
    BY <1>1
  <2> QED
    BY <1>1, <2>1 DEF ToSet
<1>3. ToSet(Tail(q)) \subseteq ToSet(q) /\ Head(q) \in ToSet(q)
  BY <1>1, SMTT(60) DEF ToSet
<1> QED
  BY <1>1, <1>2, <1>3

LEMMA StartMain == MainInv /\ StartServer => MainInv'
<1> SUFFICES ASSUME MainInv, StartServer PROVE MainInv'
  OBVIOUS
<1> DEFINE c == ConfigOf(main.file, main.next)
           udp == IF c.fTCP THEN main.udp ELSE Append(main.udp, main.next)
           tcp == IF c.fTCP THEN Append(main.tcp, main.next) ELSE main.tcp
<1>1. /\ MainShape /\ Running /\ Opening /\ Owned /\ Apart
      /\ Len(main.file) \in Nat /\ main.next \in Nat \ {0}
      /\ c.ok => c.fTCP \in BOOLEAN /\ c.has \subseteq 0 .. 3
  BY MainFile DEF MainInv
<1>2. /\ main.pc = "open" /\ main.role \notin 0 .. 3 /\ bound' = bound
      /\ main' = [main EXCEPT !.pc = "build", !.next = main.next + 1, !.udp = udp, !.tcp = tcp]
  BY DEF StartServer, Config, ConfigOf, Role
<1>0. udp \in Seq(Nat) /\ tcp \in Seq(Nat)
  BY <1>1 DEF MainShape
<1> HIDE DEF udp, tcp
<1>3. /\ main'.file = main.file /\ main'.next = main.next + 1 /\ main'.pc = "build"
      /\ main'.udp = udp /\ main'.tcp = tcp /\ main'.role = main.role
      /\ main' = [file |-> main.file, next |-> main.next + 1, pc |-> "build",
                  udp |-> udp, tcp |-> tcp, role |-> main.role]
  BY <1>1, <1>2 DEF MainShape
<1>4. /\ c.ok /\ c.fTCP \in BOOLEAN /\ c.has \subseteq 0 .. 3 /\ main.role = 4
      /\ Ports(bound, main.next) = AddrsBelow(c, 4) /\ main.next <= Len(main.file)
  <2>1. c.ok /\ main.role \in 0 .. 4 /\ main.next <= Len(main.file)
        /\ Ports(bound, main.next) = AddrsBelow(c, main.role)
    BY <1>1, <1>2 DEF Opening
  <2>2. main.role = 4
    BY <1>2, <2>1
  <2> QED
    BY <1>1, <2>1, <2>2
<1>5. main.udp \in Seq(Nat) /\ main.tcp \in Seq(Nat) /\ main.file \in {<<>>} \cup ServerFiles
  BY <1>1 DEF MainShape
<1>6. MainShape'
  BY <1>0, <1>1, <1>3, <1>4, <1>5 DEF MainShape
<1>7. AddrsOf(c) = Ports(bound, main.next)
  <2>1. {x \in c.has : x < 4} = c.has
    BY <1>4
  <2> QED
    BY <1>4, <2>1 DEF AddrsOf, AddrsBelow
<1>8. /\ Started(main)' = Started(main) \cup {main.next}
      /\ ToSet(main'.tcp) = IF c.fTCP THEN ToSet(main.tcp) \cup {main.next} ELSE ToSet(main.tcp)
  <2>1. /\ ToSet(Append(main.udp, main.next)) = ToSet(main.udp) \cup {main.next}
        /\ ToSet(Append(main.tcp, main.next)) = ToSet(main.tcp) \cup {main.next}
    BY <1>1, <1>5, AppendSet
  <2>2. CASE c.fTCP
    BY <1>3, <2>1, <2>2 DEF Started, udp, tcp
  <2>3. CASE ~c.fTCP
    BY <1>3, <2>1, <2>3 DEF Started, udp, tcp
  <2> QED
    BY <2>2, <2>3
<1> HIDE DEF c
<1>9. Running'
  <2>1. 1 .. (main'.next - 1) = 1 .. (main.next - 1) \cup {main.next} /\ main.next \notin 1 .. (main.next - 1)
    BY <1>1, <1>3, SMTT(60) DEF MainShape
  <2>2. /\ Started(main) = 1 .. (main.next - 1)
        /\ \A i \in 1 .. (main.next - 1) :
             /\ ConfigOf(main.file, i).ok
             /\ i \in ToSet(main.tcp) <=> ConfigOf(main.file, i).fTCP
             /\ Ports(bound, i) = AddrsOf(ConfigOf(main.file, i))
        /\ \A b \in bound : b.tcp = ConfigOf(main.file, b.owner).fTCP
    BY <1>1, <1>2 DEF Running
  <2>3. main.next \notin ToSet(main.tcp)
    BY <2>1, <2>2 DEF Started
  <2>4. \A i \in 1 .. (main'.next - 1) :
          /\ ConfigOf(main.file, i).ok
          /\ i \in ToSet(main'.tcp) <=> ConfigOf(main.file, i).fTCP
          /\ Ports(bound, i) = AddrsOf(ConfigOf(main.file, i))
    <3> SUFFICES ASSUME NEW i \in 1 .. (main'.next - 1)
                 PROVE  /\ ConfigOf(main.file, i).ok
                        /\ i \in ToSet(main'.tcp) <=> ConfigOf(main.file, i).fTCP
                        /\ Ports(bound, i) = AddrsOf(ConfigOf(main.file, i))
      OBVIOUS
    <3>1. CASE i = main.next
      BY <1>4, <1>7, <1>8, <2>3, <3>1 DEF c
    <3>2. CASE i \in 1 .. (main.next - 1)
      BY <1>8, <2>1, <2>2, <3>2
    <3> QED
      BY <2>1, <3>1, <3>2
  <2>5. Started(main)' = 1 .. (main'.next - 1)
    BY <1>8, <2>1, <2>2
  <2> QED
    BY <1>2, <1>3, <2>2, <2>4, <2>5 DEF Running
<1>10. Owned'
  <2>1. \A b \in bound : b.owner \in 1 .. main.next
    BY <1>1, <1>2 DEF Owned
  <2>2. \A b \in bound' : b.owner \in 1 .. (main'.next - 1)
    BY <1>1, <1>2, <1>3, <2>1
  <2> QED
    BY <1>3, <2>2 DEF Owned
<1>11. Apart' /\ Opening'
  BY <1>1, <1>2, <1>3 DEF Apart, Opening
<1> QED
  BY <1>6, <1>9, <1>10, <1>11 DEF MainInv

LEMMA FailMain == MainInv /\ StartFails => MainInv'
<1> SUFFICES ASSUME MainInv, StartFails PROVE MainInv'
  OBVIOUS
<1>1. /\ MainShape /\ Running /\ Opening /\ Owned /\ Apart
      /\ Len(main.file) \in Nat /\ main.next \in Nat \ {0}
  BY MainFile DEF MainInv
<1>2. /\ main.pc = "open" /\ bound' = {b \in bound : b.owner # main.next}
      /\ main' = [main EXCEPT !.pc = "stopUdp"]
  BY DEF StartFails
<1>3. /\ main'.file = main.file /\ main'.next = main.next /\ main'.pc = "stopUdp"
      /\ main'.udp = main.udp /\ main'.tcp = main.tcp /\ main'.role = main.role
  BY <1>1, <1>2 DEF MainShape
<1>4. MainShape'
  BY <1>1, <1>2, <1>3 DEF MainShape
<1>5. \A b \in bound' : b \in bound /\ b.owner \in 1 .. (main.next - 1)
  BY <1>1, <1>2 DEF Owned
<1>6. \A b \in bound' : b.tcp => b.owner \in ToSet(main.tcp)
  BY <1>1, <1>2, <1>5 DEF Running
<1>7. Owned'
  BY <1>3, <1>5, <1>6 DEF Owned
<1> QED
  BY <1>1, <1>3, <1>4, <1>5, <1>7 DEF MainInv, Running, Opening, Apart

LEMMA SignalMain == MainInv /\ WaitForAppExitSignal => MainInv'
<1> SUFFICES ASSUME MainInv, WaitForAppExitSignal PROVE MainInv'
  OBVIOUS
<1>1. /\ MainShape /\ Running /\ Opening /\ Owned /\ Apart
      /\ Len(main.file) \in Nat /\ main.next \in Nat \ {0}
  BY MainFile DEF MainInv
<1>2. main.pc = "waiting" /\ bound' = bound /\ main' = [main EXCEPT !.pc = "stopUdp"]
  BY DEF WaitForAppExitSignal
<1>3. /\ main'.file = main.file /\ main'.next = main.next /\ main'.pc = "stopUdp"
      /\ main'.udp = main.udp /\ main'.tcp = main.tcp /\ main'.role = main.role
  BY <1>1, <1>2 DEF MainShape
<1>4. MainShape'
  BY <1>1, <1>2, <1>3, ZenonT(30), SMTT(60) DEF MainShape
<1>5. \A b \in bound : b.owner \in 1 .. (main.next - 1)
  BY <1>1, <1>2 DEF Owned
<1>6. \A b \in bound : b.tcp => b.owner \in ToSet(main.tcp)
  BY <1>1, <1>2, <1>5 DEF Running
<1>7. Owned'
  BY <1>2, <1>3, <1>5, <1>6 DEF Owned
<1> QED
  BY <1>1, <1>2, <1>3, <1>4, <1>7 DEF MainInv, Running, Opening, Apart

LEMMA StopUdpMain == MainInv /\ StopUdpServer => MainInv'
<1> SUFFICES ASSUME MainInv, StopUdpServer PROVE MainInv'
  OBVIOUS
<1>1. /\ MainShape /\ Owned /\ Apart /\ Len(main.file) \in Nat /\ main.next \in Nat \ {0}
  BY MainFile DEF MainInv
<1>2. main.pc = "stopUdp" /\ bound' = bound
  BY DEF StopUdpServer
<1>3. /\ \A b \in bound : b.owner \in 1 .. (main.next - 1)
      /\ \A b \in bound : b.tcp => b.owner \in ToSet(main.tcp)
  BY <1>1, <1>2 DEF Owned
<1>4. CASE main.udp = <<>>
  <2>1. main' = [main EXCEPT !.pc = "stopTcp"]
    BY <1>4 DEF StopUdpServer
  <2>2. /\ main'.file = main.file /\ main'.next = main.next /\ main'.pc = "stopTcp"
        /\ main'.udp = main.udp /\ main'.tcp = main.tcp
    BY <1>1, <2>1 DEF MainShape
  <2>3. MainShape'
    BY <1>1, <2>1, <2>2 DEF MainShape
  <2>4. Owned'
    BY <1>2, <1>3, <1>4, <2>2 DEF Owned
  <2> QED
    BY <1>1, <1>2, <2>2, <2>3, <2>4 DEF MainInv, Running, Opening, Apart
<1>5. CASE main.udp # <<>>
  <2>1. main' = [main EXCEPT !.udp = Tail(main.udp)] /\ Tail(main.udp) \in Seq(Nat)
    BY <1>1, <1>5, TailSet DEF StopUdpServer, MainShape
  <2>2. /\ main'.file = main.file /\ main'.next = main.next /\ main'.pc = "stopUdp"
        /\ main'.udp = Tail(main.udp) /\ main'.tcp = main.tcp
    BY <1>1, <1>2, <2>1 DEF MainShape
  <2>3. MainShape'
    BY <1>1, <2>1, <2>2 DEF MainShape
  <2>4. Owned'
    BY <1>2, <1>3, <2>2 DEF Owned
  <2> QED
    BY <1>1, <1>2, <2>2, <2>3, <2>4 DEF MainInv, Running, Opening, Apart
<1> QED
  BY <1>4, <1>5

LEMMA StopTcpMain == MainInv /\ StopTcpServer => MainInv'
<1> SUFFICES ASSUME MainInv, StopTcpServer PROVE MainInv'
  OBVIOUS
<1>1. /\ MainShape /\ Owned /\ Apart /\ Len(main.file) \in Nat /\ main.next \in Nat \ {0}
  BY MainFile DEF MainInv
<1>2. main.pc = "stopTcp"
  BY DEF StopTcpServer
<1>3. /\ \A b \in bound : b.owner \in 1 .. (main.next - 1)
      /\ \A b \in bound : b.tcp => b.owner \in ToSet(main.tcp)
      /\ main.udp = <<>>
  BY <1>1, <1>2 DEF Owned
<1>4. CASE main.tcp = <<>>
  <2>1. main' = [main EXCEPT !.pc = "exited"] /\ bound' = {}
    BY <1>4 DEF StopTcpServer
  <2>2. main'.pc = "exited" /\ MainShape'
    BY <1>1, <2>1 DEF MainShape
  <2> QED
    BY <2>1, <2>2 DEF MainInv, Running, Opening, Owned, Apart
<1>5. CASE main.tcp # <<>>
  <2>1. /\ main' = [main EXCEPT !.tcp = Tail(main.tcp)]
        /\ bound' = {b \in bound : b.owner # Head(main.tcp)}
        /\ Tail(main.tcp) \in Seq(Nat)
        /\ ToSet(main.tcp) = ToSet(Tail(main.tcp)) \cup {Head(main.tcp)}
    BY <1>1, <1>5, TailSet DEF StopTcpServer, MainShape
  <2>2. /\ main'.file = main.file /\ main'.next = main.next /\ main'.pc = "stopTcp"
        /\ main'.udp = main.udp /\ main'.tcp = Tail(main.tcp)
    BY <1>1, <1>2, <2>1 DEF MainShape
  <2>3. MainShape'
    BY <1>1, <2>1, <2>2 DEF MainShape
  <2>4. Owned'
    BY <1>3, <2>1, <2>2 DEF Owned
  <2> QED
    BY <1>1, <2>1, <2>2, <2>3, <2>4 DEF MainInv, Running, Opening, Apart
<1> QED
  BY <1>4, <1>5

LEMMA NextMain == MainInv /\ [Next]_vars => MainInv'
<1> SUFFICES ASSUME MainInv, [Next]_vars PROVE MainInv'
  OBVIOUS
<1>1. CASE UNCHANGED mainVars
  BY <1>1 DEF MainInv, MainShape, Running, Opening, Owned, Apart, Started, Ports, mainVars
<1>2. CASE MainNext
  BY <1>2, BuildMain, SocketMain, StartMain, FailMain, SignalMain, StopUdpMain, StopTcpMain
     DEF MainNext
<1> QED
  BY <1>1, <1>2 DEF Next, vars, Discover, Stream, Serve, Poll, ReadConf, Signal

\* What main does with its servers, for any file and any adapters.
THEOREM MainInvariant == Spec => []MainInv
  BY InitMain, NextMain, PTL DEF Spec

\* Whatever fails, and in the middle of which server: while main waits every
\* configured server runs with all its sockets, between two servers and from
\* a failure on only sockets of servers that main knows to stop are open,
\* and no two sockets are in each other's way (ServersAllOrNone).
THEOREM ServersAlwaysAllOrNone == Spec => []ServersAllOrNone
<1>1. MainInv => ServersAllOrNone
  <2> SUFFICES ASSUME MainInv PROVE ServersAllOrNone
    OBVIOUS
  <2>1. /\ MainShape /\ Running /\ Owned /\ Apart
        /\ Len(main.file) \in Nat /\ main.next \in Nat \ {0}
        /\ \A i : ConfigOf(main.file, i).ok => ConfigOf(main.file, i).has # {}
    BY MainFile DEF MainInv
  <2>2. \A i : Config([main EXCEPT !.next = i]) = ConfigOf(main.file, i)
    BY <2>1 DEF Config, ConfigOf, MainShape
  <2>3. ASSUME main.pc = "waiting"
        PROVE  /\ Started(main) = 1..Len(main.file)
               /\ \A i \in Started(main) :
                    {b.addr : b \in {x \in bound : x.owner = i}}
                      = LET c == Config([main EXCEPT !.next = i]) IN {c.addr[r] : r \in c.has}
    <3>1. Started(main) = 1 .. Len(main.file) /\ main.next - 1 = Len(main.file)
      BY <2>1, <2>3 DEF Running, Owned
    <3>2. \A i \in Started(main) : Ports(bound, i) = AddrsOf(Config([main EXCEPT !.next = i]))
      BY <2>1, <2>2, <2>3, <3>1 DEF Running
    <3> QED
      BY <3>1, <3>2 DEF Ports, AddrsOf
  <2>4. ASSUME main.pc = "build" PROVE {b.owner : b \in bound} = Started(main)
    <3>1. /\ Started(main) = 1 .. (main.next - 1)
          /\ \A b \in bound : b.owner \in 1 .. (main.next - 1)
      BY <2>1, <2>4 DEF Running, Owned
    <3>2. \A i \in 1 .. (main.next - 1) : \E b \in bound : b.owner = i
      <4> SUFFICES ASSUME NEW i \in 1 .. (main.next - 1) PROVE \E b \in bound : b.owner = i
        OBVIOUS
      <4>1. Ports(bound, i) = AddrsOf(ConfigOf(main.file, i)) /\ ConfigOf(main.file, i).has # {}
        BY <2>1, <2>4 DEF Running
      <4>2. AddrsOf(ConfigOf(main.file, i)) # {}
        BY <4>1 DEF AddrsOf
      <4> QED
        BY <4>1, <4>2 DEF Ports
    <3> QED
      BY <3>1, <3>2
  <2>5. main.pc = "stopUdp" => {b.owner : b \in bound} \subseteq 1 .. (main.next - 1)
    BY <2>1 DEF Owned
  <2>6. main.pc = "stopTcp" => \A b \in bound : b.tcp => b.owner \in Started(main)
    BY <2>1 DEF Owned, Started
  <2> QED
    BY <2>1, <2>3, <2>4, <2>5, <2>6 DEF ServersAllOrNone, Apart
<1> QED
  BY <1>1, MainInvariant, PTL

-----------------------------------------------------------------------------
(* The sum of the first members of a sequence of sizes. *)

\* A set that has 0 and every successor up to len has every number up to len.
LEMMA Climb ==
  ASSUME NEW len \in Nat, NEW T, 0 \in T, \A i \in 0 .. (len - 1) : i \in T => i + 1 \in T
  PROVE  0 .. len \subseteq T
<1> DEFINE Bad == {i \in 0 .. len : i \notin T}
<1> SUFFICES ASSUME Bad # {} PROVE FALSE
  OBVIOUS
<1>1. Bad \subseteq Nat
  OBVIOUS
<1>2. PICK m \in Bad : \A i \in Bad : m <= i
  <2> HIDE DEF Bad
  <2> QED
    BY <1>1, LeastNat
<1>3. m - 1 \in 0 .. (len - 1) /\ m - 1 \notin Bad /\ (m - 1) + 1 = m
  BY <1>2
<1> QED
  BY <1>2, <1>3

Sums(f, s, len) == f[0] = 0 /\ \A i \in 1 .. len : f[i] = f[i - 1] + s[i]

\* The function by which a sum is defined exists.
LEMMA TotalDefined ==
  ASSUME NEW s, NEW len \in Nat
  PROVE  \E f : Sums(f, s, len) /\ Total(s, len) = f[len]
<1> DEFINE Val(f, i) == IF i = 0 THEN 0 ELSE f[i - 1] + s[i]
           T == {j \in Nat : \E f : f = [i \in 0 .. j |-> Val(f, i)]}
<1>1. 0 \in T
  <2> DEFINE f == [i \in 0 .. 0 |-> 0]
  <2>1. f = [i \in 0 .. 0 |-> Val(f, i)]
    OBVIOUS
  <2> QED
    BY <2>1
<1>2. ASSUME NEW j \in 0 .. (len - 1), j \in T
      PROVE  j + 1 \in T
  <2>1. PICK f : f = [i \in 0 .. j |-> Val(f, i)]
    BY <1>2
  <2> DEFINE new == f[j] + s[j + 1]
             g == [i \in 0 .. j + 1 |-> IF i = j + 1 THEN new ELSE f[i]]
  <2> HIDE DEF Val
  <2>2. ASSUME NEW i \in 0 .. j + 1
        PROVE  g[i] = Val(g, i)
    <3>1. CASE i = j + 1
      <4>1. g[i] = new /\ g[j] = f[j] /\ i - 1 = j /\ i # 0 /\ s[i] = s[j + 1]
        <5> HIDE DEF new
        <5> QED
          BY <3>1
      <4> HIDE DEF g
      <4> QED
        BY <4>1 DEF Val
    <3>2. CASE i # j + 1
      <4>1. i \in 0 .. j /\ g[i] = f[i] /\ (i # 0 => g[i - 1] = f[i - 1])
        <5> HIDE DEF new
        <5> QED
          BY <3>2
      <4>2. f[i] = Val(f, i)
        BY <2>1, <4>1
      <4> HIDE DEF g
      <4>3. Val(f, i) = Val(g, i)
        BY <4>1 DEF Val
      <4> QED
        BY <4>1, <4>2, <4>3
    <3> QED
      BY <3>1, <3>2
  <2>3. g = [i \in 0 .. j + 1 |-> Val(g, i)]
    BY <2>2
  <2>4. j + 1 \in Nat /\ \E h : h = [i \in 0 .. j + 1 |-> Val(h, i)]
    <3> HIDE DEF g
    <3> QED
      BY <2>3
  <2> QED
    BY <2>4
<1>3. len \in T
  <2>1. 0 .. len \subseteq T
    <3> HIDE DEF T
    <3> QED
      BY <1>1, <1>2, Climb
  <2> QED
    BY <2>1
<1>4. PICK f : f = [i \in 0 .. len |-> Val(f, i)] /\ Total(s, len) = f[len]
  BY <1>3 DEF Total
<1> HIDE DEF Val
<1>5. \A i \in 0 .. len : f[i] = Val(f, i)
  BY <1>4
<1>6. f[0] = 0
  <2>1. f[0] = Val(f, 0)
    BY <1>5
  <2> QED
    BY <2>1 DEF Val
<1>7. \A i \in 1 .. len : f[i] = f[i - 1] + s[i]
  <2> TAKE i \in 1 .. len
  <2>1. f[i] = Val(f, i) /\ i # 0
    BY <1>5
  <2> QED
    BY <2>1 DEF Val
<1> QED
  BY <1>4, <1>6, <1>7 DEF Sums

\* A sum is determined by its members.
SameUpTo(s, t, len) == \A i \in 1 .. len : s[i] = t[i]

LEMMA SumsAgree ==
  ASSUME NEW s, NEW t, NEW len \in Nat, SameUpTo(s, t, len),
         NEW f, NEW g, Sums(f, s, len), Sums(g, t, len)
  PROVE  f[len] = g[len]
<1> DEFINE T == {i \in 0 .. len : f[i] = g[i]}
<1>1. 0 \in T
  BY DEF Sums
<1>2. ASSUME NEW i \in 0 .. (len - 1), i \in T PROVE i + 1 \in T
  <2>1. i + 1 \in 1 .. len /\ (i + 1) - 1 = i
    OBVIOUS
  <2>2. f[i + 1] = f[i] + s[i + 1] /\ g[i + 1] = g[i] + t[i + 1]
    BY <2>1 DEF Sums
  <2>3. s[i + 1] = t[i + 1]
    BY <2>1 DEF SameUpTo
  <2> QED
    BY <1>2, <2>1, <2>2, <2>3
<1>3. 0 .. len \subseteq T
  <2> HIDE DEF T
  <2> QED
    BY <1>1, <1>2, Climb
<1> QED
  BY <1>3

LEMMA TotalSame ==
  ASSUME NEW s, NEW t, NEW len \in Nat, \A i \in 1 .. len : s[i] = t[i]
  PROVE  Total(s, len) = Total(t, len)
<1>1. PICK f : Sums(f, s, len) /\ Total(s, len) = f[len]
  BY TotalDefined
<1>2. PICK g : Sums(g, t, len) /\ Total(t, len) = g[len]
  BY TotalDefined
<1>3. SameUpTo(s, t, len)
  BY DEF SameUpTo
<1>4. f[len] = g[len]
  BY <1>1, <1>2, <1>3, SumsAgree
<1> QED
  BY <1>1, <1>2, <1>4

LEMMA TotalNext ==
  ASSUME NEW s, NEW len \in Nat
  PROVE  Total(s, 0) = 0 /\ Total(s, len + 1) = Total(s, len) + s[len + 1]
<1>1. PICK f : Sums(f, s, len) /\ Total(s, len) = f[len]
  BY TotalDefined
<1>2. PICK g : Sums(g, s, len + 1) /\ Total(s, len + 1) = g[len + 1]
  BY TotalDefined
<1>3. Sums(g, s, len) /\ g[len + 1] = g[len] + s[len + 1]
  <2>1. len + 1 \in 1 .. (len + 1) /\ (len + 1) - 1 = len /\ 1 .. len \subseteq 1 .. (len + 1)
    OBVIOUS
  <2> QED
    BY <1>2, <2>1 DEF Sums
<1>4. SameUpTo(s, s, len)
  BY DEF SameUpTo
<1>5. f[len] = g[len]
  BY <1>1, <1>3, <1>4, SumsAgree
<1>6. Total(s, 0) = 0
  BY TotalDefined DEF Sums
<1> QED
  BY <1>1, <1>2, <1>3, <1>5, <1>6

\* Sums of multiples of four are multiples of four, and grow.
LEMMA TotalGrows ==
  ASSUME NEW s, NEW len \in Nat, \A i \in 1 .. len : s[i] \in Nat /\ s[i] % 4 = 0
  PROVE  \A m \in 0 .. len : Total(s, m) \in Nat /\ Total(s, m) % 4 = 0 /\ Total(s, m) <= Total(s, len)
<1> DEFINE T == {i \in 0 .. len : /\ Total(s, i) \in Nat /\ Total(s, i) % 4 = 0
                                /\ \A m \in 0 .. i : Total(s, m) \in Nat /\ Total(s, m) % 4 = 0
                                                     /\ Total(s, m) <= Total(s, i)}
<1>1. 0 \in T
  <2>1. Total(s, 0) = 0
    BY TotalNext
  <2> QED
    BY <2>1
<1>2. ASSUME NEW i \in 0 .. (len - 1), i \in T PROVE i + 1 \in T
  <2>1. i \in Nat /\ Total(s, i + 1) = Total(s, i) + s[i + 1]
    BY TotalNext
  <2>2. s[i + 1] \in Nat /\ s[i + 1] % 4 = 0
    OBVIOUS
  <2> DEFINE a == Total(s, i)
             b == s[i + 1]
             c == Total(s, i + 1)
  <2>3. a \in Nat /\ a % 4 = 0 /\ b \in Nat /\ b % 4 = 0 /\ c = a + b
    BY <1>2, <2>1, <2>2
  <2> HIDE DEF a, b, c
  <2>4. c \in Nat /\ c % 4 = 0 /\ a <= c
    BY <2>3
  <2>5. ASSUME NEW m \in 0 .. (i + 1)
        PROVE  Total(s, m) \in Nat /\ Total(s, m) % 4 = 0 /\ Total(s, m) <= c
    <3>1. CASE m = i + 1
      BY <2>4, <3>1 DEF c
    <3>2. CASE m # i + 1
      <4>1. m \in 0 .. i
        BY <3>2
      <4>2. Total(s, m) \in Nat /\ Total(s, m) % 4 = 0 /\ Total(s, m) <= a
        BY <1>2, <4>1 DEF a
      <4> QED
        BY <2>3, <2>4, <4>2
    <3> QED
      BY <3>1, <3>2
  <2> QED
    BY <2>4, <2>5 DEF c
<1>3. 0 .. len \subseteq T
  <2> HIDE DEF T
  <2> QED
    BY <1>1, <1>2, Climb, ZenonT(30), SMTT(60)
<1> QED
  BY <1>3

-----------------------------------------------------------------------------
(* Messages under construction: their shape, their size, and what has room *)
(* in them.                                                                *)

Bytes(q) == [i \in DOMAIN q |-> 4 + q[i].bytes]

MsgShape(b) ==
  b = [legacy |-> b.legacy, length |-> b.length, transid |-> b.transid,
       attrs |-> b.attrs, field |-> b.field]

AttrOk(a) == a.size \in 0 .. MaxAttribute /\ a.bytes = RoundUp4(a.size)

AttrsOk(q) == q \in Seq(ToSet(q)) /\ \A i \in 1 .. Len(q) : AttrOk(q[i])

Msg(b) == MsgShape(b) /\ AttrsOk(b.attrs)

\* c is b with one attribute more, and everything else as it was.
Longer(b, c, a) ==
  /\ Msg(c) /\ c.attrs = Append(b.attrs, a) /\ Len(c.attrs) = Len(b.attrs) + 1
  /\ c.legacy = b.legacy /\ c.transid = b.transid /\ c.field = b.field
  /\ Size(c) = Size(b) + 4 + a.bytes

\* At most count attributes, at most size bytes.
Room(b, count, size) == Msg(b) /\ Len(b.attrs) <= count /\ Size(b) <= size

LEMMA RoundUp ==
  ASSUME NEW size \in Nat
  PROVE  /\ RoundUp4(size) \in Nat /\ RoundUp4(size) % 4 = 0
         /\ RoundUp4(size) >= size /\ RoundUp4(size) <= size + 3
         /\ RoundUp4(RoundUp4(size)) = RoundUp4(size)
         /\ size <= MaxAttribute => RoundUp4(size) <= MaxAttribute
<1> DEFINE d == (size + 3) \div 4
<1>1. d \in Nat /\ d * 4 <= size + 3 /\ size + 3 < d * 4 + 4
  OBVIOUS
<1>2. RoundUp4(size) = d * 4
  BY DEF RoundUp4
<1> HIDE DEF d
<1>3. (d * 4) % 4 = 0 /\ ((d * 4) + 3) \div 4 = d
  BY <1>1
<1>4. RoundUp4(d * 4) = d * 4
  BY <1>3 DEF RoundUp4
<1> QED
  BY <1>1, <1>2, <1>3, <1>4 DEF MaxAttribute

\* A sequence with one more member.
LEMMA Appended ==
  ASSUME NEW q, q \in Seq(ToSet(q)), NEW a
  PROVE  /\ Append(q, a) \in Seq(ToSet(Append(q, a)))
         /\ Len(q) \in Nat /\ Len(Append(q, a)) = Len(q) + 1
         /\ DOMAIN q = 1 .. Len(q) /\ DOMAIN Append(q, a) = 1 .. (Len(q) + 1)
         /\ \A i \in 1 .. Len(q) : Append(q, a)[i] = q[i]
         /\ Append(q, a)[Len(q) + 1] = a
<1> DEFINE S == ToSet(q)
           p == Append(q, a)
<1> HIDE DEF S
<1>1. q \in Seq(S)
  BY DEF S
<1>2. p \in Seq(S \cup {a}) /\ Len(q) \in Nat
  BY <1>1
<1>3. /\ Len(p) = Len(q) + 1 /\ \A i \in 1 .. Len(q) : p[i] = q[i]
      /\ p[Len(q) + 1] = a /\ DOMAIN q = 1 .. Len(q) /\ DOMAIN p = 1 .. (Len(q) + 1)
  BY <1>1
<1>4. p \in Seq(ToSet(p))
  <2> HIDE DEF p
  <2>1. DOMAIN p = 1 .. Len(p) /\ Len(p) \in Nat /\ p = [i \in 1 .. Len(p) |-> p[i]]
    BY <1>2
  <2>2. \A i \in 1 .. Len(p) : p[i] \in ToSet(p)
    BY <2>1 DEF ToSet
  <2> QED
    BY <2>1, <2>2
<1> QED
  BY <1>2, <1>3, <1>4

LEMMA AttrsSize ==
  ASSUME NEW q, AttrsOk(q)
  PROVE  /\ Len(q) \in Nat /\ DOMAIN q = 1 .. Len(q)
         /\ \A i \in 1 .. Len(q) : Bytes(q)[i] \in Nat /\ Bytes(q)[i] % 4 = 0
         /\ \A m \in 0 .. Len(q) :
              /\ Total(Bytes(q), m) \in Nat /\ Total(Bytes(q), m) % 4 = 0
              /\ Total(Bytes(q), m) <= Total(Bytes(q), Len(q))
<1>1. Len(q) \in Nat /\ DOMAIN q = 1 .. Len(q)
  BY DEF AttrsOk
<1>2. ASSUME NEW i \in 1 .. Len(q) PROVE Bytes(q)[i] \in Nat /\ Bytes(q)[i] % 4 = 0
  <2>1. Bytes(q)[i] = 4 + q[i].bytes
    BY <1>1 DEF Bytes
  <2>2. q[i].bytes \in Nat /\ q[i].bytes % 4 = 0
    <3>1. q[i].size \in Nat /\ q[i].bytes = RoundUp4(q[i].size)
      BY DEF AttrsOk, AttrOk
    <3> QED
      BY <3>1, RoundUp
  <2> QED
    BY <2>1, <2>2
<1> QED
  BY <1>1, <1>2, TotalGrows

LEMMA AppendOk ==
  ASSUME NEW q, AttrsOk(q), NEW a, AttrOk(a)
  PROVE  /\ AttrsOk(Append(q, a))
         /\ Total(Bytes(Append(q, a)), Len(q) + 1) = Total(Bytes(q), Len(q)) + 4 + a.bytes
<1> DEFINE p == Append(q, a)
           len == Len(q)
<1>1. q \in Seq(ToSet(q))
  BY DEF AttrsOk
<1>2. /\ p \in Seq(ToSet(p)) /\ len \in Nat /\ Len(p) = len + 1
      /\ DOMAIN q = 1 .. len /\ DOMAIN p = 1 .. (len + 1)
      /\ \A i \in 1 .. len : p[i] = q[i]
      /\ p[len + 1] = a
  BY <1>1, Appended
<1> HIDE DEF p
<1>3. AttrsOk(p)
  BY <1>2 DEF AttrsOk
<1>4. \A i \in 1 .. len : Bytes(p)[i] = Bytes(q)[i]
  BY <1>2 DEF Bytes
<1>5. Bytes(p)[len + 1] = 4 + a.bytes
  BY <1>2 DEF Bytes
<1>6. Total(Bytes(p), len) = Total(Bytes(q), len)
  BY <1>2, <1>4, TotalSame
<1>7. Total(Bytes(p), len + 1) = Total(Bytes(p), len) + Bytes(p)[len + 1]
  BY <1>2, TotalNext
<1>8. Total(Bytes(q), len) \in Nat /\ a.bytes \in Nat
  <2>1. len \in 0 .. Len(q)
    BY <1>2
  <2>2. Total(Bytes(q), len) \in Nat
    BY <2>1, AttrsSize
  <2>3. a.size \in Nat /\ a.bytes = RoundUp4(a.size)
    BY DEF AttrOk
  <2> QED
    BY <2>2, <2>3, RoundUp
<1> QED
  BY <1>3, <1>5, <1>6, <1>7, <1>8 DEF p

\* The size of a message, and of one with an attribute more.
LEMMA MsgSize ==
  ASSUME NEW b, Msg(b)
  PROVE  /\ Size(b) \in Nat /\ Size(b) >= HeaderSize /\ Size(b) % 4 = 0
         /\ Size(b) = HeaderSize + Total(Bytes(b.attrs), Len(b.attrs))
         /\ Len(b.attrs) \in Nat
<1>1. AttrsOk(b.attrs)
  BY DEF Msg
<1> DEFINE t == Total(Bytes(b.attrs), Len(b.attrs))
<1>2. Len(b.attrs) \in Nat /\ t \in Nat /\ t % 4 = 0
  <2>1. Len(b.attrs) \in Nat
    BY <1>1, AttrsSize
  <2>2. Len(b.attrs) \in 0 .. Len(b.attrs)
    BY <2>1
  <2> QED
    BY <1>1, <2>1, <2>2, AttrsSize
<1>3. Size(b) = HeaderSize + t
  BY DEF Size, Bytes
<1> HIDE DEF t
<1>4. Size(b) \in Nat /\ Size(b) >= HeaderSize /\ Size(b) % 4 = 0
  BY <1>2, <1>3 DEF HeaderSize
<1> QED
  BY <1>2, <1>3, <1>4 DEF t

LEMMA AppendMsg ==
  ASSUME NEW b, Msg(b), NEW a, AttrOk(a), NEW c, c = Append1(b, a)
  PROVE  /\ Msg(c) /\ c.attrs = Append(b.attrs, a) /\ Len(c.attrs) = Len(b.attrs) + 1
         /\ c.legacy = b.legacy /\ c.transid = b.transid /\ c.field = b.field
         /\ c.length = b.length
         /\ Size(c) = Size(b) + 4 + a.bytes
<1>1. /\ c = [legacy |-> b.legacy, length |-> b.length, transid |-> b.transid,
              attrs |-> Append(b.attrs, a), field |-> b.field]
      /\ AttrsOk(b.attrs)
  BY DEF Msg, MsgShape, Append1
<1>2. /\ c.attrs = Append(b.attrs, a) /\ c.legacy = b.legacy /\ c.transid = b.transid
      /\ c.field = b.field /\ c.length = b.length
  BY <1>1
<1>3. /\ AttrsOk(c.attrs) /\ Len(c.attrs) = Len(b.attrs) + 1
      /\ Total(Bytes(c.attrs), Len(c.attrs)) = Total(Bytes(b.attrs), Len(b.attrs)) + 4 + a.bytes
  <2>1. b.attrs \in Seq(ToSet(b.attrs))
    BY <1>1 DEF AttrsOk
  <2>2. Len(c.attrs) = Len(b.attrs) + 1
    BY <1>2, <2>1, Appended
  <2> QED
    BY <1>1, <1>2, <2>2, AppendOk
<1>4. Msg(c)
  BY <1>1, <1>2, <1>3 DEF Msg, MsgShape
<1>5. Size(c) = Size(b) + 4 + a.bytes
  <2>1. a.bytes \in Nat
    BY RoundUp DEF AttrOk
  <2>2. /\ Size(b) = HeaderSize + Total(Bytes(b.attrs), Len(b.attrs)) /\ Size(b) \in Nat
        /\ Size(c) = HeaderSize + Total(Bytes(c.attrs), Len(c.attrs)) /\ Size(c) \in Nat
    BY <1>4, MsgSize
  <2>3. Total(Bytes(b.attrs), Len(b.attrs)) \in Nat
    BY <1>1, AttrsSize
  <2> QED
    BY <1>3, <2>1, <2>2, <2>3, SMTT(60) DEF HeaderSize
<1> QED
  BY <1>2, <1>3, <1>4, <1>5

-----------------------------------------------------------------------------
(* What can be looked up in a message, by a builder or a reader. *)

LEMMA SameLookup ==
  ASSUME NEW b, NEW c, b.attrs = c.attrs, NEW type
  PROVE  /\ HasAttribute(b, type) = HasAttribute(c, type)
         /\ IndexOf(b, type) = IndexOf(c, type)
         /\ GetAttributeByType(b, type) = GetAttributeByType(c, type)
<1>1. Positions(b, type) = Positions(c, type)
  BY DEF Positions
<1>2. IndexOf(b, type) = IndexOf(c, type)
  BY <1>1 DEF IndexOf
<1> QED
  BY <1>1, <1>2 DEF HasAttribute, GetAttributeByType

LEMMA EmptyLookup ==
  ASSUME NEW b, b.attrs = <<>>, NEW type
  PROVE  ~HasAttribute(b, type)
<1>1. Len(b.attrs) = 0
  OBVIOUS
<1>2. Positions(b, type) = {}
  BY <1>1 DEF Positions
<1> QED
  BY <1>2 DEF HasAttribute

\* The last attribute is found under its type, the others as before.
LEMMA AppendLookup ==
  ASSUME NEW b, Msg(b), NEW c, NEW a, Longer(b, c, a), NEW type
  PROVE  /\ type = a.type =>
              /\ HasAttribute(c, type) /\ IndexOf(c, type) = Len(b.attrs) + 1
              /\ GetAttributeByType(c, type) = a
         /\ type # a.type =>
              /\ HasAttribute(c, type) <=> HasAttribute(b, type)
              /\ IndexOf(c, type) = IndexOf(b, type)
              /\ HasAttribute(b, type) => GetAttributeByType(c, type) = GetAttributeByType(b, type)
<1> DEFINE len == Len(b.attrs)
<1>1. /\ len \in Nat /\ Len(c.attrs) = len + 1
      /\ \A i \in 1 .. len : c.attrs[i] = b.attrs[i]
      /\ c.attrs[len + 1] = a
  <2>1. b.attrs \in Seq(ToSet(b.attrs)) /\ c.attrs = Append(b.attrs, a)
    BY DEF Msg, AttrsOk, Longer
  <2> QED
    BY <2>1, Appended
<1>2. CASE type = a.type
  <2>1. len + 1 \in Positions(c, type) /\ \A i \in Positions(c, type) : len + 1 >= i /\ i \in Nat
    BY <1>1, <1>2 DEF Positions
  <2>2. Max(Positions(c, type)) = len + 1
    <3>1. \A m \in Positions(c, type) :
            (\A i \in Positions(c, type) : m >= i) => m = len + 1
      BY <1>1, <2>1
    <3> QED
      BY <2>1, <3>1 DEF Max
  <2> QED
    BY <1>1, <1>2, <2>1, <2>2 DEF HasAttribute, IndexOf, GetAttributeByType
<1>3. CASE type # a.type
  <2>1. Positions(c, type) = Positions(b, type)
    <3> SUFFICES ASSUME NEW i
                 PROVE  i \in Positions(c, type) <=> i \in Positions(b, type)
      OBVIOUS
    <3>1. i \in 1 .. (len + 1) <=> i \in 1 .. len \/ i = len + 1
      BY <1>1
    <3> QED
      BY <1>1, <1>3, <3>1 DEF Positions
  <2>2. IndexOf(c, type) = IndexOf(b, type) /\ HasAttribute(c, type) = HasAttribute(b, type)
    BY <2>1 DEF IndexOf, HasAttribute
  <2>3. ASSUME HasAttribute(b, type) PROVE IndexOf(b, type) \in 1 .. len
    <3>1. Positions(b, type) \subseteq 0 .. len /\ Positions(b, type) # {}
      BY <2>3 DEF Positions, HasAttribute
    <3>2. \E m \in Positions(b, type) : \A i \in Positions(b, type) : m >= i
      BY <1>1, <3>1, GreatestNat
    <3>3. Max(Positions(b, type)) \in Positions(b, type)
      BY <3>2 DEF Max
    <3> QED
      BY <3>3 DEF IndexOf, Positions
  <2>4. HasAttribute(b, type) => GetAttributeByType(c, type) = GetAttributeByType(b, type)
    BY <1>1, <2>2, <2>3 DEF GetAttributeByType
  <2> QED
    BY <1>3, <2>2, <2>4
<1> QED
  BY <1>2, <1>3

-----------------------------------------------------------------------------
(* The reader: what it knows of a message after some of its bytes. *)

TypeOf(f) == (f % 16) + ((f \div 32) % 8) * 16 + (f \div 512) * 128

ClassOf(f) == ((f \div 16) % 2) + ((f \div 256) % 2) * 2

\* Method and class take fourteen bits.
Fourteen == 0 .. 16383

\* A message that the reader accepts.
WellFormed(w) ==
  /\ Msg(w) /\ Len(w.attrs) <= MaxNumAttributes
  /\ w.length = Size(w) - HeaderSize /\ w.length <= MaxMessage
  /\ w.field \in Fourteen

\* The reader before the header is complete, after it, and at the end.
Nothing(z) == [Reset EXCEPT !.size = z]

Heading(w, z) ==
  [state |-> "HeaderValidated", size |-> z, legacy |-> w.transid[1] # STUN_COOKIE,
   type |-> TypeOf(w.field), class |-> ClassOf(w.field), length |-> w.length,
   transid |-> w.transid, attrs |-> <<>>, field |-> w.field]

Whole(w, z) == [Heading(w, z) EXCEPT !.state = "BodyValidated", !.attrs = w.attrs]

Known(w, size) ==
  IF size < HeaderSize THEN Nothing(size)
  ELSE IF size = Size(w) THEN Whole(w, size)
  ELSE Heading(w, size)

\* The attributes of a message fit, and fill the body.
LEMMA BodyFits ==
  ASSUME NEW w, WellFormed(w)
  PROVE  /\ \A m \in 1 .. Len(w.attrs) :
              w.attrs[m].size <= MaxAttribute /\ Offset(w, m) <= Size(w)
         /\ Offset(w, Len(w.attrs)) = Size(w)
<1>1. AttrsOk(w.attrs) /\ Msg(w)
  BY DEF WellFormed, Msg
<1> DEFINE q == w.attrs
           sizes == [i \in DOMAIN w.attrs |-> 4 + RoundUp4(w.attrs[i].size)]
<1>2. /\ Len(q) \in Nat /\ DOMAIN q = 1 .. Len(q)
      /\ \A m \in 0 .. Len(q) : /\ Total(Bytes(q), m) \in Nat
                               /\ Total(Bytes(q), m) <= Total(Bytes(q), Len(q))
  BY <1>1, AttrsSize
<1>3. \A i \in 1 .. Len(q) : sizes[i] = Bytes(q)[i] /\ q[i].size <= MaxAttribute
  <2> SUFFICES ASSUME NEW i \in 1 .. Len(q)
               PROVE  sizes[i] = Bytes(q)[i] /\ q[i].size <= MaxAttribute
    OBVIOUS
  <2>1. q[i].size \in 0 .. MaxAttribute /\ q[i].bytes = RoundUp4(q[i].size)
    BY <1>1 DEF AttrsOk, AttrOk
  <2>2. sizes[i] = 4 + RoundUp4(q[i].size) /\ Bytes(q)[i] = 4 + q[i].bytes
    BY <1>2 DEF Bytes
  <2>3. q[i].size <= MaxAttribute
    <3>1. ASSUME NEW z \in 0 .. MaxAttribute PROVE z <= MaxAttribute
      BY DEF MaxAttribute
    <3> QED
      BY <2>1, <3>1
  <2> QED
    BY <2>1, <2>2, <2>3
<1> HIDE DEF sizes
<1>4. \A m \in 0 .. Len(q) : Offset(w, m) = HeaderSize + Total(Bytes(q), m)
  <2> SUFFICES ASSUME NEW m \in 0 .. Len(q) PROVE Offset(w, m) = HeaderSize + Total(Bytes(q), m)
    OBVIOUS
  <2>1. m \in Nat /\ \A i \in 1 .. m : i \in 1 .. Len(q)
    BY <1>2
  <2>2. Total(sizes, m) = Total(Bytes(q), m)
    BY <1>3, <2>1, TotalSame
  <2> QED
    BY <2>2 DEF Offset, sizes
<1>5. Size(w) = HeaderSize + Total(Bytes(q), Len(q))
  BY <1>1, MsgSize
<1>6. ASSUME NEW m \in 0 .. Len(q) PROVE Offset(w, m) <= Size(w)
  <2>1. /\ Total(Bytes(q), m) \in Nat /\ Total(Bytes(q), Len(q)) \in Nat
        /\ Total(Bytes(q), m) <= Total(Bytes(q), Len(q))
        /\ Offset(w, m) = 20 + Total(Bytes(q), m)
    BY <1>2, <1>4 DEF HeaderSize
  <2> QED
    BY <1>5, <2>1 DEF HeaderSize
<1>7. Len(q) \in 0 .. Len(q) /\ \A m \in 1 .. Len(q) : m \in 0 .. Len(q)
  BY <1>2
<1> QED
  BY <1>3, <1>4, <1>5, <1>6, <1>7

\* The fields that the reader's steps look at.
LEMMA ReaderFields ==
  ASSUME NEW w, NEW z
  PROVE  /\ Nothing(z).state = "HeaderNotRead" /\ Nothing(z).size = z
         /\ Heading(w, z).state = "HeaderValidated" /\ Heading(w, z).size = z
         /\ Heading(w, z).length = w.length
         /\ Whole(w, z).state = "BodyValidated" /\ Whole(w, z).size = z
         /\ Whole(w, z).length = w.length /\ Whole(w, z).attrs = w.attrs
  BY DEF Nothing, Heading, Whole, Reset

\* More bytes only change the size.
LEMMA ReaderGrows ==
  ASSUME NEW w, NEW y, NEW z
  PROVE  /\ [Nothing(y) EXCEPT !.size = z] = Nothing(z)
         /\ [Heading(w, y) EXCEPT !.size = z] = Heading(w, z)
<1>1. [Nothing(y) EXCEPT !.size = z] = Nothing(z)
  <2> DEFINE r == Reset
  <2>1. DOMAIN r = DOMAIN r /\ r = [i \in DOMAIN r |-> r[i]]
    BY DEF Reset
  <2> HIDE DEF r
  <2>2. [[r EXCEPT !.size = y] EXCEPT !.size = z] = [r EXCEPT !.size = z]
    BY <2>1
  <2> QED
    BY <2>2 DEF Nothing, r
<1>2. [Heading(w, y) EXCEPT !.size = z] = Heading(w, z)
  <2> DEFINE old == w.transid[1] # STUN_COOKIE
  <2> HIDE DEF old
  <2> QED
    BY DEF Heading, old
<1> QED
  BY <1>1, <1>2

\* The numbers of an acceptable message.
LEMMA Numbers ==
  ASSUME NEW w, WellFormed(w)
  PROVE  /\ Size(w) \in Nat /\ Size(w) >= 20 /\ w.length = Size(w) - 20
         /\ w.length \in Nat /\ w.length % 4 = 0 /\ w.length <= MaxMessage
         /\ w.field \in Nat /\ w.field < 16384
         /\ Len(w.attrs) \in Nat /\ Len(w.attrs) <= MaxNumAttributes
<1> DEFINE full == Size(w)
<1>1. /\ w.length <= MaxMessage /\ w.field \in Fourteen
      /\ Len(w.attrs) <= MaxNumAttributes /\ w.length = full - HeaderSize /\ Msg(w)
  BY DEF WellFormed
<1>2. full \in Nat /\ full >= 20 /\ full % 4 = 0 /\ Len(w.attrs) \in Nat
  BY <1>1, MsgSize DEF HeaderSize
<1> HIDE DEF full
<1>3. full - 20 \in Nat /\ (full - 20) % 4 = 0
  BY <1>2
<1>4. w.field \in Nat /\ w.field < 16384
  <2>1. ASSUME NEW z \in Fourteen PROVE z \in Nat /\ z < 16384
    BY DEF Fourteen
  <2> QED
    BY <1>1, <2>1
<1>5. w.length = full - 20
  BY <1>1 DEF HeaderSize
<1> QED
  BY <1>1, <1>2, <1>3, <1>4, <1>5 DEF full

\* A message of twenty bytes has no attributes.
LEMMA Bodiless ==
  ASSUME NEW w, WellFormed(w), Size(w) = 20
  PROVE  w.attrs = <<>>
<1>1. AttrsOk(w.attrs) /\ Msg(w) /\ Len(w.attrs) \in Nat
  <2>1. Msg(w)
    BY DEF WellFormed
  <2> QED
    BY <2>1, Numbers DEF Msg
<1> SUFFICES ASSUME Len(w.attrs) # 0 PROVE FALSE
  BY <1>1 DEF AttrsOk
<1>2. 1 \in 0 .. Len(w.attrs) /\ 1 \in 1 .. Len(w.attrs) /\ 0 \in Nat
  BY <1>1
<1>3. /\ Total(Bytes(w.attrs), 0 + 1) = Total(Bytes(w.attrs), 0) + Bytes(w.attrs)[0 + 1]
      /\ Total(Bytes(w.attrs), 0) = 0
  BY <1>2, TotalNext
<1>4. Bytes(w.attrs)[1] = 4 + w.attrs[1].bytes /\ w.attrs[1].bytes \in Nat
  <2>1. w.attrs[1].size \in Nat /\ w.attrs[1].bytes = RoundUp4(w.attrs[1].size)
    BY <1>1, <1>2 DEF AttrsOk, AttrOk
  <2>2. DOMAIN w.attrs = 1 .. Len(w.attrs)
    BY <1>1, AttrsSize
  <2> QED
    BY <1>2, <2>1, <2>2, RoundUp DEF Bytes
<1>5. /\ Total(Bytes(w.attrs), 1) <= Total(Bytes(w.attrs), Len(w.attrs))
      /\ Total(Bytes(w.attrs), Len(w.attrs)) \in Nat
  BY <1>1, <1>2, AttrsSize
<1>6. Size(w) = HeaderSize + Total(Bytes(w.attrs), Len(w.attrs))
  BY <1>1, MsgSize
<1> QED
  BY <1>3, <1>4, <1>5, <1>6 DEF HeaderSize

\* The header is accepted, and so is the body.
LEMMA HeaderRead ==
  ASSUME NEW w, WellFormed(w), NEW z
  PROVE  ReadHeader(Nothing(z), w) = Heading(w, z)
<1> DEFINE r == Nothing(z)
           old == w.transid[1] # STUN_COOKIE
           type == TypeOf(w.field)
           class == ClassOf(w.field)
<1>1. ~(w.field >= 16384 \/ w.length % 4 # 0 \/ w.length > MaxMessage)
  BY Numbers DEF MaxMessage
<1>2. ReadHeader(r, w)
        = [r EXCEPT !.state = "HeaderValidated", !.field = w.field, !.length = w.length,
             !.transid = w.transid, !.legacy = old, !.type = type, !.class = class]
  <2> HIDE DEF r
  <2> QED
    BY <1>1 DEF ReadHeader, TypeOf, ClassOf
<1> HIDE DEF old, type, class
<1>3. /\ DOMAIN r = {"state", "size", "legacy", "type", "class", "length", "transid",
                     "attrs", "field"}
      /\ r = [i \in DOMAIN r |-> r[i]] /\ r.size = z /\ r.attrs = <<>>
  BY DEF Nothing, Reset
<1>4. Heading(w, z) = [state |-> "HeaderValidated", size |-> z, legacy |-> old, type |-> type,
                       class |-> class, length |-> w.length, transid |-> w.transid,
                       attrs |-> <<>>, field |-> w.field]
  BY DEF Heading, old, type, class
<1> HIDE DEF r
<1>5. ReadHeader(r, w) = Heading(w, z)
  BY <1>2, <1>3, <1>4, ZenonT(60)
<1> QED
  BY <1>5 DEF r

LEMMA BodyRead ==
  ASSUME NEW w, WellFormed(w)
  PROVE  ReadBody(Heading(w, Size(w)), w) = Whole(w, Size(w))
<1> DEFINE r == Heading(w, Size(w))
<1>1. /\ Len(w.attrs) <= MaxNumAttributes
      /\ \A m \in 1 .. Len(w.attrs) :
           w.attrs[m].size <= MaxAttribute /\ Offset(w, m) <= r.size
      /\ Offset(w, Len(w.attrs)) = r.size
  BY Numbers, BodyFits, ReaderFields
<1> HIDE DEF r
<1>2. ReadBody(r, w) = [r EXCEPT !.state = "BodyValidated", !.attrs = w.attrs]
  BY <1>1 DEF ReadBody
<1> QED
  BY <1>2 DEF r, Whole

LEMMA EmptyBody ==
  ASSUME NEW w, w.attrs = <<>>, NEW z
  PROVE  [Heading(w, z) EXCEPT !.state = "BodyValidated"] = Whole(w, z)
<1> DEFINE r == Heading(w, z)
<1>1. r.attrs = w.attrs /\ "attrs" \in DOMAIN r /\ r = [i \in DOMAIN r |-> r[i]]
  BY DEF Heading
<1> HIDE DEF r
<1>2. [r EXCEPT !.state = "BodyValidated"]
        = [r EXCEPT !.state = "BodyValidated", !.attrs = w.attrs]
  BY <1>1
<1> QED
  BY <1>2 DEF r, Whole

\* More bytes of a message, not beyond its end.
LEMMA Fed ==
  ASSUME NEW w, WellFormed(w), NEW size \in Nat, NEW j \in Nat \ {0}, size + j <= Size(w)
  PROVE  AddBytes(Known(w, size), w, j) = Known(w, size + j)
<1> DEFINE new == size + j
           full == Size(w)
           r == [Known(w, size) EXCEPT !.size = @ + j]
           h == HeaderStep(r, w)
           d == BodyStep(h, w)
<1>1. /\ full \in Nat /\ full >= 20 /\ w.length = full - 20
      /\ new \in Nat /\ new <= full /\ size < full /\ size < new
  BY Numbers
<1>2. /\ Known(w, size) = IF size < 20 THEN Nothing(size) ELSE Heading(w, size)
      /\ Known(w, new) = IF new < 20 THEN Nothing(new)
                         ELSE IF new = full THEN Whole(w, new) ELSE Heading(w, new)
  BY <1>1 DEF Known, HeaderSize
<1>3. /\ r = IF size < 20 THEN Nothing(new) ELSE Heading(w, new)
      /\ Known(w, size).state # "ParseError" /\ j # 0
  <2>1. CASE size < 20
    BY <1>2, <2>1, ReaderFields, ReaderGrows
  <2>2. CASE ~(size < 20)
    BY <1>2, <2>2, ReaderFields, ReaderGrows
  <2> QED
    BY <2>1, <2>2
<1>4. AddBytes(Known(w, size), w, j) = OverrunStep(d)
  BY <1>3 DEF AddBytes
<1> HIDE DEF new, r, full
<1>5. h = IF new < 20 THEN Nothing(new)
          ELSE IF full = 20 THEN Whole(w, new) ELSE Heading(w, new)
  <2>1. CASE size < 20 /\ new < 20
    <3>1. r = Nothing(new) /\ r.state = "HeaderNotRead" /\ r.size = new
      BY <1>3, <2>1, ReaderFields
    <3>2. h = r
      BY <2>1, <3>1, <1>1 DEF HeaderStep, HeaderSize
    <3> QED
      BY <2>1, <3>1, <3>2
  <2>2. CASE size < 20 /\ ~(new < 20)
    <3>1. r = Nothing(new) /\ r.state = "HeaderNotRead" /\ r.size >= HeaderSize
      BY <1>1, <1>3, <2>2, ReaderFields DEF HeaderSize
    <3> DEFINE g == ReadHeader(r, w)
    <3>2. g = Heading(w, new) /\ g.state = "HeaderValidated" /\ g.length = w.length
      BY <3>1, HeaderRead, ReaderFields
    <3> HIDE DEF g
    <3>3. h = IF g.state = "HeaderValidated" /\ g.length = 0
                THEN [g EXCEPT !.state = "BodyValidated"] ELSE g
      BY <3>1 DEF HeaderStep, g
    <3>4. CASE full = 20
      <4>1. w.length = 0 /\ w.attrs = <<>>
        BY <1>1, <3>4, Bodiless DEF full
      <4>2. h = [g EXCEPT !.state = "BodyValidated"]
        BY <3>2, <3>3, <4>1
      <4>3. h = Whole(w, new)
        BY <3>2, <4>1, <4>2, EmptyBody
      <4> QED
        BY <2>2, <3>4, <4>3
    <3>5. CASE full # 20
      <4>1. w.length # 0
        BY <1>1, <3>5
      <4>2. h = g
        BY <3>2, <3>3, <4>1
      <4> QED
        BY <2>2, <3>2, <3>5, <4>2
    <3> QED
      BY <3>4, <3>5
  <2>3. CASE ~(size < 20)
    <3>1. r = Heading(w, new) /\ r.state # "HeaderNotRead"
      BY <1>3, <2>3, ReaderFields
    <3>2. ~(new < 20) /\ full # 20
      BY <1>1, <2>3
    <3>3. h = r
      BY <3>1 DEF HeaderStep
    <3> QED
      BY <3>1, <3>2, <3>3
  <2> QED
    BY <2>1, <2>2, <2>3
<1> HIDE DEF h
<1>6. d = IF new < 20 THEN Nothing(new)
          ELSE IF new = full THEN Whole(w, new) ELSE Heading(w, new)
  <2>1. CASE new < 20
    <3>1. h = Nothing(new) /\ h.state # "HeaderValidated"
      BY <1>5, <2>1, ReaderFields
    <3>2. d = h
      BY <3>1 DEF BodyStep
    <3> QED
      BY <2>1, <3>1, <3>2
  <2>2. CASE ~(new < 20) /\ full = 20
    <3>1. h = Whole(w, new) /\ h.state # "HeaderValidated"
      BY <1>5, <2>2, ReaderFields
    <3>2. new = full
      BY <1>1, <2>2
    <3>3. d = h
      BY <3>1 DEF BodyStep
    <3> QED
      BY <2>2, <3>1, <3>2, <3>3
  <2>3. CASE ~(new < 20) /\ full # 20 /\ new = full
    <3>1. h = Heading(w, full)
      BY <1>5, <2>3
    <3>2. h.state = "HeaderValidated" /\ h.size = full /\ h.length = w.length
      BY <3>1, ReaderFields
    <3>3. d = ReadBody(h, w)
      BY <1>1, <3>2 DEF BodyStep, HeaderSize
    <3>4. d = Whole(w, full)
      BY <3>1, <3>3, BodyRead DEF full
    <3> QED
      BY <2>3, <3>4
  <2>4. CASE ~(new < 20) /\ full # 20 /\ new # full
    <3>1. h = Heading(w, new)
      BY <1>5, <2>4
    <3>2. h.state = "HeaderValidated" /\ h.size = new /\ h.length = w.length
      BY <3>1, ReaderFields
    <3>3. d = h
      BY <1>1, <2>4, <3>2 DEF BodyStep, HeaderSize
    <3> QED
      BY <2>4, <3>1, <3>3
  <2> QED
    BY <2>1, <2>2, <2>3, <2>4
<1> HIDE DEF d
<1>7. d = Known(w, new)
  BY <1>2, <1>6 DEF new, full
<1>8. ~(d.state = "BodyValidated" /\ d.size > d.length + 20)
  <2>1. CASE new < 20
    BY <1>6, <2>1, ReaderFields
  <2>2. CASE ~(new < 20) /\ new = full
    <3>1. d.size = new /\ d.length = w.length
      BY <1>6, <2>2, ReaderFields
    <3> QED
      BY <1>1, <3>1
  <2>3. CASE ~(new < 20) /\ new # full
    BY <1>6, <2>3, ReaderFields
  <2> QED
    BY <2>1, <2>2, <2>3
<1>9. OverrunStep(d) = d
  BY <1>8 DEF OverrunStep, HeaderSize
<1> QED
  BY <1>4, <1>7, <1>9 DEF new

\* A message read in one piece.
LEMMA ParseKnown ==
  ASSUME NEW w, WellFormed(w)
  PROVE  Parse(w) = Known(w, Size(w))
<1>1. Size(w) \in Nat \ {0} /\ Msg(w)
  BY MsgSize DEF WellFormed, HeaderSize
<1>2. Known(w, 0) = Reset
  <2>1. Nothing(0) = Reset
    BY DEF Nothing, Reset
  <2> QED
    BY <2>1 DEF Known, HeaderSize
<1>3. AddBytes(Known(w, 0), w, Size(w)) = Known(w, 0 + Size(w))
  BY <1>1, Fed
<1> QED
  BY <1>1, <1>2, <1>3 DEF Parse

\* What is still needed of a message, and what is known at its end.
LEMMA Needed ==
  ASSUME NEW w, WellFormed(w), NEW size \in Nat, size <= Size(w)
  PROVE  /\ Known(w, size).size = size
         /\ HowManyBytesNeeded(Known(w, size)) \in Nat
         /\ size + HowManyBytesNeeded(Known(w, size)) <= Size(w)
         /\ HowManyBytesNeeded(Known(w, size)) = 0 => size = Size(w)
         /\ (Known(w, size).state = "BodyValidated") = (size = Size(w))
<1> DEFINE full == Size(w)
           r == Known(w, size)
<1>1. full \in Nat /\ full >= 20 /\ w.length = full - 20 /\ size <= full
  BY Numbers
<1>2. r = IF size < 20 THEN Nothing(size)
          ELSE IF size = full THEN Whole(w, size) ELSE Heading(w, size)
  BY DEF Known, HeaderSize
<1> HIDE DEF full, r
<1>3. CASE size < 20
  <2>1. r.state = "HeaderNotRead" /\ r.size = size /\ size # full
    BY <1>1, <1>2, <1>3, ReaderFields
  <2>2. HowManyBytesNeeded(r) = 20 - size
    BY <2>1 DEF HowManyBytesNeeded, HeaderSize
  <2> QED
    BY <1>1, <1>3, <2>1, <2>2 DEF full, r
<1>4. CASE ~(size < 20) /\ size = full
  <2>1. r.state = "BodyValidated" /\ r.size = size
    BY <1>2, <1>4, ReaderFields
  <2>2. HowManyBytesNeeded(r) = 0
    BY <2>1 DEF HowManyBytesNeeded
  <2> QED
    BY <1>1, <1>4, <2>1, <2>2 DEF full, r
<1>5. CASE ~(size < 20) /\ size # full
  <2>1. r.state = "HeaderValidated" /\ r.size = size /\ r.length = full - 20
    BY <1>1, <1>2, <1>5, ReaderFields
  <2>2. HowManyBytesNeeded(r) = full - size
    BY <1>1, <2>1 DEF HowManyBytesNeeded, HeaderSize
  <2> QED
    BY <1>1, <1>5, <2>1, <2>2 DEF full, r
<1> QED
  BY <1>3, <1>4, <1>5

-----------------------------------------------------------------------------
(* What the builder's operations add to a message. *)

LEMMA AttrFields ==
  ASSUME NEW type, NEW size, NEW bytes, NEW value
  PROVE  LET a == Attr(type, size, bytes, value)
         IN  a.type = type /\ a.size = size /\ a.bytes = bytes /\ a.value = value
  BY DEF Attr

LEMMA AttributeAdded ==
  ASSUME NEW b, Msg(b), NEW type, NEW value, NEW size \in Nat, size <= MaxAttribute
  PROVE  LET y == RoundUp4(size)
             a == Attr(type, IF b.legacy THEN y ELSE size, y, value)
             c == AddAttribute(b, type, value, size)
         IN  /\ Longer(b, c, a) /\ c.length = b.length
             /\ a.type = type /\ a.value = value /\ a.bytes = y
             /\ a.size = IF b.legacy THEN y ELSE size
<1> DEFINE y == RoundUp4(size)
           s == IF b.legacy THEN y ELSE size
           a == Attr(type, s, y, value)
           c == AddAttribute(b, type, value, size)
<1>1. /\ y \in Nat /\ RoundUp4(y) = y /\ y <= MaxAttribute
  BY RoundUp
<1>2. s \in 0 .. MaxAttribute /\ RoundUp4(s) = y
  <2> HIDE DEF y
  <2>1. CASE b.legacy
    BY <1>1, <2>1 DEF MaxAttribute
  <2>2. CASE ~b.legacy
    BY <1>1, <2>2 DEF MaxAttribute, y
  <2> QED
    BY <2>1, <2>2
<1>3. c = Append1(b, a)
  BY DEF AddAttribute
<1> HIDE DEF s, y
<1>4. a.type = type /\ a.value = value /\ a.bytes = y /\ a.size = s
  BY AttrFields
<1> HIDE DEF a, c
<1>5. AttrOk(a)
  BY <1>2, <1>4 DEF AttrOk
<1>6. Longer(b, c, a) /\ c.length = b.length
  BY <1>3, <1>5, AppendMsg DEF Longer
<1> QED
  BY <1>4, <1>6 DEF a, c, s, y

LEMMA Fixed ==
  ASSUME NEW c, Msg(c)
  PROVE  FixLengthField(c)
           = [legacy |-> c.legacy, length |-> Size(c) - HeaderSize, transid |-> c.transid,
              attrs |-> c.attrs, field |-> c.field]
<1> DEFINE z == Size(c) - HeaderSize
<1>1. c = [legacy |-> c.legacy, length |-> c.length, transid |-> c.transid,
           attrs |-> c.attrs, field |-> c.field]
  BY DEF Msg, MsgShape
<1>2. FixLengthField(c) = [c EXCEPT !.length = z]
  BY DEF FixLengthField
<1> HIDE DEF z
<1> QED
  BY <1>1, <1>2 DEF z

LEMMA Shaped ==
  ASSUME NEW legacy, NEW length, NEW transid, NEW attrs, NEW field, NEW d,
         d = [legacy |-> legacy, length |-> length, transid |-> transid,
              attrs |-> attrs, field |-> field]
  PROVE  /\ MsgShape(d) /\ d.attrs = attrs /\ d.legacy = legacy
         /\ d.transid = transid /\ d.field = field /\ d.length = length
  BY DEF MsgShape

\* Messages with the same attributes.
LEMMA SameAttrs ==
  ASSUME NEW b, Msg(b), NEW c, MsgShape(c), c.attrs = b.attrs
  PROVE  Msg(c) /\ Size(c) = Size(b)
<1>1. Msg(c)
  BY DEF Msg
<1> QED
  BY <1>1, MsgSize

LEMMA FixedMsg ==
  ASSUME NEW b, Msg(b), NEW c, c = FixLengthField(b)
  PROVE  /\ Msg(c) /\ c.attrs = b.attrs /\ c.legacy = b.legacy /\ c.transid = b.transid
         /\ c.field = b.field /\ Size(c) = Size(b) /\ c.length = Size(c) - HeaderSize
<1> DEFINE z == Size(b) - HeaderSize
<1>1. c = [legacy |-> b.legacy, length |-> z, transid |-> b.transid,
           attrs |-> b.attrs, field |-> b.field]
  BY Fixed
<1> HIDE DEF z
<1>2. /\ MsgShape(c) /\ c.attrs = b.attrs /\ c.legacy = b.legacy /\ c.transid = b.transid
      /\ c.field = b.field /\ c.length = z
  BY <1>1, Shaped
<1>3. Msg(c) /\ Size(c) = Size(b)
  BY <1>2, SameAttrs
<1> QED
  BY <1>2, <1>3 DEF z

\* d is b with the attribute e and another length in its header.
MadeOf(b, e, length, d) ==
  d = [legacy |-> b.legacy, length |-> length, transid |-> b.transid,
       attrs |-> Append(b.attrs, e), field |-> b.field]

LEMMA Made ==
  ASSUME NEW b, Msg(b), NEW e, AttrOk(e), NEW length, NEW d, MadeOf(b, e, length, d)
  PROVE  Longer(b, d, e) /\ d.length = length
<1>1. /\ d.attrs = Append(b.attrs, e) /\ d.legacy = b.legacy /\ d.transid = b.transid
      /\ d.field = b.field /\ d.length = length /\ MsgShape(d)
  BY Shaped DEF MadeOf
<1>2. AttrsOk(b.attrs) /\ b.attrs \in Seq(ToSet(b.attrs))
  BY DEF Msg, AttrsOk
<1>3. /\ AttrsOk(d.attrs) /\ Len(d.attrs) = Len(b.attrs) + 1 /\ Len(b.attrs) \in Nat
      /\ Total(Bytes(d.attrs), Len(b.attrs) + 1)
           = Total(Bytes(b.attrs), Len(b.attrs)) + 4 + e.bytes
  BY <1>1, <1>2, AppendOk, Appended, SMTT(60)
<1>4. Msg(d)
  BY <1>1, <1>3 DEF Msg
<1>5. Size(d) = Size(b) + 4 + e.bytes
  <2>1. /\ Size(d) = HeaderSize + Total(Bytes(d.attrs), Len(d.attrs))
        /\ Size(b) = HeaderSize + Total(Bytes(b.attrs), Len(b.attrs))
        /\ Size(b) \in Nat /\ e.bytes \in Nat
    <3>1. e.bytes \in Nat
      <4>1. e.size \in Nat /\ e.bytes = RoundUp4(e.size)
        BY DEF AttrOk
      <4> QED
        BY <4>1, RoundUp
    <3> QED
      BY <1>4, <3>1, MsgSize
  <2>2. Total(Bytes(b.attrs), Len(b.attrs)) \in Nat
    BY <1>2, <1>3, AttrsSize
  <2> DEFINE t == Total(Bytes(b.attrs), Len(b.attrs))
             u == Total(Bytes(d.attrs), Len(b.attrs) + 1)
             v == e.bytes
  <2>3. /\ Size(d) = 20 + u /\ Size(b) = 20 + t /\ u = t + 4 + v
        /\ t \in Nat /\ v \in Nat
    BY <1>3, <2>1, <2>2 DEF HeaderSize
  <2> HIDE DEF t, u, v
  <2>4. Size(d) = Size(b) + 4 + v
    BY <2>3
  <2> QED
    BY <2>4 DEF v
<1> QED
  BY <1>1, <1>3, <1>4, <1>5 DEF Longer

SealOf(c, new, d) ==
  d = [FixLengthField(c) EXCEPT !.attrs[Len(FixLengthField(c).attrs)].value = new]

\* A digest over all that came before, as the last attribute's value.
LEMMA Sealing ==
  ASSUME NEW b, Msg(b), NEW c, NEW type, NEW size \in 0 .. MaxAttribute, NEW old,
         NEW new, Longer(b, c, Attr(type, size, RoundUp4(size), old)),
         NEW d, SealOf(c, new, d)
  PROVE  /\ Longer(b, d, Attr(type, size, RoundUp4(size), new))
         /\ d.length = Size(d) - HeaderSize
<1> DEFINE y == RoundUp4(size)
           a == Attr(type, size, y, old)
           e == Attr(type, size, y, new)
           f == FixLengthField(c)
           p == Append(b.attrs, e)
           len == Len(b.attrs)
<1>1. /\ Msg(c) /\ c.attrs = Append(b.attrs, a) /\ Len(c.attrs) = len + 1
      /\ c.legacy = b.legacy /\ c.transid = b.transid /\ c.field = b.field
      /\ Size(c) = Size(b) + 4 + a.bytes
  BY DEF Longer
<1>2. /\ b.attrs \in Seq(ToSet(b.attrs)) /\ AttrsOk(b.attrs)
  BY DEF Msg, AttrsOk
<1>3. /\ len \in Nat
      /\ DOMAIN c.attrs = 1 .. (len + 1) /\ DOMAIN p = 1 .. (len + 1)
      /\ \A i \in 1 .. len : c.attrs[i] = b.attrs[i] /\ p[i] = b.attrs[i]
      /\ c.attrs[len + 1] = a /\ p[len + 1] = e
      /\ Len(p) = len + 1 /\ p \in Seq(ToSet(p))
  <2> HIDE DEF a, e
  <2> QED
    BY <1>1, <1>2, Appended
<1>4. [a EXCEPT !.value = new] = e
  BY DEF Attr
<1> HIDE DEF a, e
<1>5. c.attrs \in Seq(ToSet(c.attrs))
  BY <1>1 DEF Msg, AttrsOk
<1>6. [c.attrs EXCEPT ![len + 1].value = new] = p
  <2> DEFINE q == [c.attrs EXCEPT ![len + 1].value = new]
  <2>1. DOMAIN q = 1 .. (len + 1) /\ q = [i \in 1 .. (len + 1) |-> q[i]]
    BY <1>3, <1>5
  <2>2. p = [i \in 1 .. (len + 1) |-> p[i]]
    <3> HIDE DEF p
    <3>1. p = [i \in 1 .. Len(p) |-> p[i]]
      BY <1>3
    <3> QED
      BY <1>3, <3>1
  <2>3. ASSUME NEW i \in 1 .. (len + 1) PROVE q[i] = p[i]
    <3>1. CASE i = len + 1
      <4>1. q[len + 1] = [c.attrs[len + 1] EXCEPT !.value = new]
        BY <1>3, <1>5
      <4> QED
        BY <1>3, <1>4, <3>1, <4>1
    <3>2. CASE i # len + 1
      <4>1. i \in 1 .. len
        BY <1>3, <3>2
      <4>2. q[i] = c.attrs[i]
        BY <1>3, <1>5, <3>2
      <4> QED
        BY <1>3, <4>1, <4>2
    <3> QED
      BY <3>1, <3>2
  <2> HIDE DEF q, p
  <2>4. q = p
    BY <2>1, <2>2, <2>3
  <2> QED
    BY <2>4 DEF q
<1>7. f = [legacy |-> b.legacy, length |-> Size(c) - HeaderSize, transid |-> b.transid,
           attrs |-> c.attrs, field |-> b.field]
  <2>1. f = [legacy |-> c.legacy, length |-> Size(c) - HeaderSize, transid |-> c.transid,
             attrs |-> c.attrs, field |-> c.field]
    BY <1>1, Fixed
  <2> HIDE DEF f
  <2> QED
    BY <1>1, <2>1
<1>8. d = [legacy |-> b.legacy, length |-> Size(c) - HeaderSize, transid |-> b.transid,
           attrs |-> p, field |-> b.field]
  <2> HIDE DEF f, p
  <2>1. f.attrs = c.attrs /\ Len(f.attrs) = len + 1
    BY <1>1, <1>7
  <2>2. d = [f EXCEPT !.attrs = [c.attrs EXCEPT ![len + 1].value = new]]
    BY <2>1 DEF f, SealOf
  <2>3. d = [f EXCEPT !.attrs = p]
    BY <1>6, <2>2
  <2> QED
    BY <1>7, <2>3
<1>9. AttrOk(a) /\ AttrOk(e) /\ a.bytes = e.bytes
  <2>2. a.size = size /\ a.bytes = y /\ e.size = size /\ e.bytes = y
    BY AttrFields DEF a, e
  <2> QED
    BY <2>2 DEF AttrOk
<1>10. Longer(b, d, e) /\ d.length = Size(c) - HeaderSize
  <2> DEFINE z == Size(c) - HeaderSize
  <2> HIDE DEF z
  <2>1. MadeOf(b, e, z, d)
    BY <1>8 DEF MadeOf, p, z
  <2>2. Longer(b, d, e) /\ d.length = z
    BY <1>9, <2>1, Made
  <2> QED
    BY <2>2 DEF z
<1>11. Size(d) = Size(c)
  BY <1>1, <1>9, <1>10 DEF Longer
<1> QED
  BY <1>10, <1>11 DEF e

\* All but the last member of a sequence.
LEMMA FrontOf ==
  ASSUME NEW q, q \in Seq(ToSet(q)), NEW a
  PROVE  SubSeq(Append(q, a), 1, Len(q)) = q
<1> DEFINE p == Append(q, a)
           len == Len(q)
<1>1. /\ len \in Nat /\ Len(p) = len + 1 /\ p \in Seq(ToSet(p))
      /\ \A i \in 1 .. len : p[i] = q[i]
  BY Appended
<1> HIDE DEF p
<1>2. SubSeq(p, 1, len) = [i \in 1 .. len |-> p[i]]
  BY <1>1
<1>3. q = [i \in 1 .. len |-> q[i]]
  OBVIOUS
<1> HIDE DEF len
<1> QED
  BY <1>1, <1>2, <1>3 DEF p, len

\* What the digest of the last attribute covers.
LEMMA Covered ==
  ASSUME NEW b, Msg(b), NEW c, NEW a, Longer(b, c, a)
  PROVE  LET f == FixLengthField(c)
         IN  Text(f, f.length, Len(f.attrs) - 1)
               = <<b.field, Size(c) - HeaderSize, b.transid, b.attrs>>
<1> DEFINE f == FixLengthField(c)
           z == Size(c) - HeaderSize
<1>1. /\ c.attrs = Append(b.attrs, a) /\ Len(c.attrs) = Len(b.attrs) + 1 /\ Msg(c)
      /\ c.transid = b.transid /\ c.field = b.field
  BY DEF Longer
<1>2. f.attrs = c.attrs /\ f.transid = c.transid /\ f.field = c.field /\ f.length = z
  <2>1. f = [legacy |-> c.legacy, length |-> z, transid |-> c.transid,
             attrs |-> c.attrs, field |-> c.field]
    BY <1>1, Fixed
  <2> HIDE DEF f, z
  <2> QED
    BY <2>1
<1>3. b.attrs \in Seq(ToSet(b.attrs)) /\ Len(b.attrs) \in Nat
  BY MsgSize DEF Msg, AttrsOk
<1>4. Len(f.attrs) - 1 = Len(b.attrs)
  BY <1>1, <1>2, <1>3
<1>5. SubSeq(f.attrs, 1, Len(b.attrs)) = b.attrs
  BY <1>1, <1>2, <1>3, FrontOf
<1> HIDE DEF f, z
<1>6. Text(f, f.length, Len(f.attrs) - 1) = <<b.field, z, b.transid, b.attrs>>
  BY <1>1, <1>2, <1>4, <1>5 DEF Text
<1> QED
  BY <1>6 DEF f, z

Covers(b, z) == <<b.field, z, b.transid, b.attrs>>

\* The integrity attribute has the digest over the message before it.
LEMMA IntegrityAdded ==
  ASSUME NEW b, Msg(b), NEW key
  PROVE  LET d == AddMessageIntegrityImpl(b, key)
             e == Attr("MESSAGEINTEGRITY", 20, 20, HMAC(key, Covers(b, Size(b) + 4)))
         IN  Longer(b, d, e) /\ d.length = Size(d) - HeaderSize
<1> DEFINE d == AddMessageIntegrityImpl(b, key)
           c == AddAttribute(b, "MESSAGEINTEGRITY", "dummy", 20)
           f == FixLengthField(c)
           new == HMAC(key, Text(f, f.length, Len(f.attrs) - 1))
           a == Attr("MESSAGEINTEGRITY", 20, RoundUp4(20), "dummy")
<1>1. RoundUp4(20) = 20 /\ 20 \in 0 .. MaxAttribute /\ 20 <= MaxAttribute
  BY DEF RoundUp4, MaxAttribute
<1>2. Longer(b, c, a)
  <2>1. Longer(b, c, Attr("MESSAGEINTEGRITY", IF b.legacy THEN RoundUp4(20) ELSE 20,
                         RoundUp4(20), "dummy"))
    BY <1>1, AttributeAdded
  <2>2. (IF b.legacy THEN RoundUp4(20) ELSE 20) = 20
    BY <1>1
  <2> HIDE DEF c
  <2> QED
    BY <2>1, <2>2
<1>3. SealOf(c, new, d)
  BY DEF AddMessageIntegrityImpl, Seal, SealOf
<1> HIDE DEF c, d
<1>4. /\ Longer(b, d, Attr("MESSAGEINTEGRITY", 20, RoundUp4(20), new))
      /\ d.length = Size(d) - HeaderSize
  <2> HIDE DEF f, new
  <2> QED
    BY <1>1, <1>2, <1>3, Sealing
<1>5. Size(c) - HeaderSize = Size(b) + 4
  <2>1. Size(c) = Size(b) + 4 + 20 /\ Size(b) \in Nat
    BY <1>1, <1>2, AttrFields, MsgSize DEF Longer
  <2> QED
    BY <2>1 DEF HeaderSize
<1>6. new = HMAC(key, Covers(b, Size(b) + 4))
  <2>1. Text(f, f.length, Len(f.attrs) - 1) = <<b.field, Size(c) - HeaderSize, b.transid, b.attrs>>
    BY <1>2, Covered
  <2> QED
    BY <1>5, <2>1 DEF Covers
<1> HIDE DEF new, f, a
<1> QED
  BY <1>1, <1>4, <1>6 DEF d

\* The fingerprint has the CRC.
LEMMA FingerprintAdded ==
  ASSUME NEW b, Msg(b)
  PROVE  LET d == AddFingerprintAttribute(b)
             e == Attr("FINGERPRINT", 4, 4, CRC(Covers(b, Size(b) - 12)))
         IN  Longer(b, d, e) /\ d.length = Size(d) - HeaderSize
<1> DEFINE d == AddFingerprintAttribute(b)
           c == Append1(b, Attr("FINGERPRINT", 4, 4, "dummy"))
           f == FixLengthField(c)
           new == CRC(Text(f, f.length, Len(f.attrs) - 1))
           a == Attr("FINGERPRINT", 4, RoundUp4(4), "dummy")
<1>1. RoundUp4(4) = 4 /\ 4 \in 0 .. MaxAttribute
  BY DEF RoundUp4, MaxAttribute
<1>2. Longer(b, c, a)
  <2>1. a.size = 4 /\ a.bytes = RoundUp4(4)
    BY AttrFields
  <2>2. c = Append1(b, a)
    BY <1>1
  <2> HIDE DEF a, c
  <2>3. AttrOk(a)
    BY <1>1, <2>1 DEF AttrOk
  <2> QED
    BY <2>2, <2>3, AppendMsg DEF Longer
<1>3. SealOf(c, new, d)
  BY DEF AddFingerprintAttribute, Seal, SealOf
<1> HIDE DEF c, d
<1>4. /\ Longer(b, d, Attr("FINGERPRINT", 4, RoundUp4(4), new))
      /\ d.length = Size(d) - HeaderSize
  <2> HIDE DEF f, new
  <2> QED
    BY <1>1, <1>2, <1>3, Sealing
<1>5. Size(c) - HeaderSize = Size(b) - 12
  <2>1. Size(c) = Size(b) + 4 + 4 /\ Size(b) \in Nat
    BY <1>1, <1>2, AttrFields, MsgSize DEF Longer
  <2> QED
    BY <2>1 DEF HeaderSize
<1>6. new = CRC(Covers(b, Size(b) - 12))
  <2>1. Text(f, f.length, Len(f.attrs) - 1) = <<b.field, Size(c) - HeaderSize, b.transid, b.attrs>>
    BY <1>2, Covered
  <2> QED
    BY <1>5, <2>1 DEF Covers
<1> HIDE DEF new, f, a
<1> QED
  BY <1>1, <1>4, <1>6 DEF d

-----------------------------------------------------------------------------
(* What is found in a message with an attribute more, and the request that *)
(* the stream carries, as it is put together.                              *)

LEMMA LookupGrows ==
  ASSUME NEW b, Msg(b), NEW c, NEW a, Longer(b, c, a)
  PROVE  /\ \A type : HasAttribute(c, type) <=> type = a.type \/ HasAttribute(b, type)
         /\ GetAttributeByType(c, a.type) = a /\ IndexOf(c, a.type) = Len(b.attrs) + 1
         /\ \A type : type # a.type /\ HasAttribute(b, type) =>
              /\ IndexOf(c, type) = IndexOf(b, type)
              /\ GetAttributeByType(c, type) = GetAttributeByType(b, type)
<1>1. ASSUME NEW type PROVE HasAttribute(c, type) <=> type = a.type \/ HasAttribute(b, type)
  BY AppendLookup
<1>2. GetAttributeByType(c, a.type) = a /\ IndexOf(c, a.type) = Len(b.attrs) + 1
  BY AppendLookup
<1>3. ASSUME NEW type, type # a.type, HasAttribute(b, type)
      PROVE  /\ IndexOf(c, type) = IndexOf(b, type)
             /\ GetAttributeByType(c, type) = GetAttributeByType(b, type)
  BY <1>3, AppendLookup
<1> QED
  BY <1>1, <1>2, <1>3

Id(o) == <<IF o.legacy THEN 1 ELSE STUN_COOKIE, 2, 3, 4>>

\* A message on the way to the request that o describes.
Draft(o, b, count, size) ==
  /\ Room(b, count, size) /\ b.legacy = o.legacy /\ b.transid = Id(o)
  /\ b.field = IF o.class = 1 THEN 17 ELSE 1

LEMMA RoomGrows ==
  ASSUME NEW b, NEW count \in Nat, NEW size \in Nat, Room(b, count, size),
         NEW c, NEW a, Longer(b, c, a), a.bytes \in Nat,
         NEW more \in Nat, count + 1 <= more, NEW room \in Nat, size + 4 + a.bytes <= room
  PROVE  Room(c, more, room)
<1>1. Msg(b) /\ Len(b.attrs) <= count /\ Size(b) <= size
  BY DEF Room
<1>2. Size(b) \in Nat /\ Len(b.attrs) \in Nat
  BY <1>1, MsgSize
<1>3. Msg(c) /\ Len(c.attrs) = Len(b.attrs) + 1 /\ Size(c) = Size(b) + 4 + a.bytes
  BY DEF Longer
<1>4. Len(c.attrs) <= more /\ Size(c) <= room
  <2> DEFINE x == Size(b)
             y == a.bytes
             m == Len(b.attrs)
  <2>1. Size(c) = x + 4 + y /\ x \in Nat /\ x <= size /\ y \in Nat /\ size + 4 + y <= room
        /\ Len(c.attrs) = m + 1 /\ m \in Nat /\ m <= count
    BY <1>1, <1>2, <1>3
  <2> HIDE DEF x, y, m
  <2> QED
    BY <2>1
<1> QED
  BY <1>3, <1>4 DEF Room

LEMMA RoomWider ==
  ASSUME NEW b, NEW count \in Nat, NEW size \in Nat, Room(b, count, size),
         NEW more \in Nat, count <= more, NEW room \in Nat, size <= room
  PROVE  Room(b, more, room)
<1>1. Msg(b) /\ Len(b.attrs) <= count /\ Size(b) <= size
  BY DEF Room
<1>2. Size(b) \in Nat /\ Len(b.attrs) \in Nat
  BY <1>1, MsgSize
<1>3. Len(b.attrs) <= more /\ Size(b) <= room
  BY <1>1, <1>2
<1> QED
  BY <1>1, <1>3 DEF Room

LEMMA DraftGrows ==
  ASSUME NEW o, NEW b, NEW count \in Nat, NEW size \in Nat, Draft(o, b, count, size),
         NEW c, NEW a, Longer(b, c, a), a.bytes \in Nat,
         NEW more \in Nat, count + 1 <= more, NEW room \in Nat, size + 4 + a.bytes <= room
  PROVE  Draft(o, c, more, room)
<1>1. Room(c, more, room)
  BY RoomGrows DEF Draft
<1>2. c.legacy = b.legacy /\ c.transid = b.transid /\ c.field = b.field
  BY DEF Longer
<1> QED
  BY <1>1, <1>2 DEF Draft

Option(o) ==
  /\ o.legacy \in BOOLEAN /\ o.ip6 \in BOOLEAN /\ o.class \in {0, 1}
  /\ o.fingerprint \in BOOLEAN /\ o.tampered \in BOOLEAN /\ o.right \in BOOLEAN
  /\ o.seal \in {"none", "short", "long"} /\ o.auth \in {"none", "short", "long"}
  /\ o.user \in Seq(ToSet(o.user)) /\ Len(o.user) <= 100

LEMMA Options == \A o \in StreamOptions : Option(o)
  BY StreamAssumption DEF Option

Bare(o) == AddTransactionId(AddHeader(o.legacy, BINDING, o.class), Id(o))

\* A message that has only its header.
LEMMA HeaderMade ==
  ASSUME NEW legacy, NEW class \in 0 .. 3, NEW id, NEW b,
         b = AddTransactionId(AddHeader(legacy, BINDING, class), id)
  PROVE  /\ Room(b, 0, 20) /\ b.legacy = legacy /\ b.transid = id
         /\ b.field = (class \div 2) * 256 + (class % 2) * 16 + 1
         /\ \A type : ~HasAttribute(b, type)
<1> DEFINE field == (class \div 2) * 256 + (class % 2) * 16 + 1
<1>1. b = [legacy |-> legacy, length |-> 0, transid |-> id, attrs |-> <<>>, field |-> field]
  <2>1. (1 \div 128) * 512 + (class \div 2) * 256 + ((1 \div 16) % 8) * 32
          + (class % 2) * 16 + (1 % 16) = field
    OBVIOUS
  <2> HIDE DEF field
  <2>2. AddHeader(legacy, BINDING, class)
          = [legacy |-> legacy, length |-> 0, transid |-> <<0, 0, 0, 0>>, attrs |-> <<>>,
             field |-> field]
    BY <2>1 DEF AddHeader, BINDING
  <2> QED
    BY <2>2 DEF AddTransactionId
<1> HIDE DEF field
<1>2. /\ MsgShape(b) /\ b.attrs = <<>> /\ b.legacy = legacy /\ b.transid = id
      /\ b.field = field
  BY <1>1, Shaped
<1>3. AttrsOk(b.attrs) /\ Len(b.attrs) = 0
  BY <1>2 DEF AttrsOk
<1>4. Msg(b)
  BY <1>2, <1>3 DEF Msg
<1>5. Size(b) = 20
  <2>1. Size(b) = HeaderSize + Total(Bytes(b.attrs), 0) /\ Total(Bytes(b.attrs), 0) = 0
    BY <1>3, <1>4, MsgSize, TotalNext
  <2> QED
    BY <2>1 DEF HeaderSize
<1>6. Room(b, 0, 20)
  BY <1>3, <1>4, <1>5 DEF Room
<1>7. \A type : ~HasAttribute(b, type)
  BY <1>2, EmptyLookup
<1> QED
  BY <1>2, <1>6, <1>7 DEF field

LEMMA BareMade ==
  ASSUME NEW o, Option(o)
  PROVE  Draft(o, Bare(o), 0, 20) /\ \A type : ~HasAttribute(Bare(o), type)
<1> DEFINE b == Bare(o)
           class == o.class
<1>1. class \in {0, 1}
  BY DEF Option
<1>2. b = AddTransactionId(AddHeader(o.legacy, BINDING, class), Id(o))
  BY DEF Bare
<1> HIDE DEF b, class
<1>3. /\ Room(b, 0, 20) /\ b.legacy = o.legacy /\ b.transid = Id(o)
      /\ b.field = (class \div 2) * 256 + (class % 2) * 16 + 1
      /\ \A type : ~HasAttribute(b, type)
  BY <1>1, <1>2, HeaderMade
<1>4. b.field = IF class = 1 THEN 17 ELSE 1
  BY <1>1, <1>3
<1> QED
  BY <1>3, <1>4 DEF Draft, b, class

Named(o) == AddStringAttribute(Bare(o), "USERNAME", o.user, 5 * Len(o.user))

\* The user's name, if there is one, is there and padded by three bytes at most.
LEMMA NamedMade ==
  ASSUME NEW o, Option(o)
  PROVE  LET b == Named(o)
             a == GetAttributeByType(b, "USERNAME")
         IN  /\ Draft(o, b, 1, 524)
             /\ \A type : HasAttribute(b, type) <=> type = "USERNAME" /\ o.user # <<>>
             /\ o.user # <<>> => /\ a.value = o.user /\ a.size \in Nat
                                 /\ Len(o.user) = 1 => a.size <= 8
<1> DEFINE b == Named(o)
           f == Bare(o)
           size == 5 * Len(o.user)
           a == GetAttributeByType(b, "USERNAME")
<1>1. /\ Draft(o, f, 0, 20) /\ \A type : ~HasAttribute(f, type)
  BY BareMade
<1>2. /\ Len(o.user) \in Nat /\ Len(o.user) <= 100
      /\ size \in Nat /\ size <= 500 /\ (size = 0 <=> o.user = <<>>)
  BY DEF Option
<1>3. Msg(f) /\ Len(f.attrs) <= 0 /\ Size(f) <= 20
  BY <1>1 DEF Draft, Room
<1>4. CASE size = 0
  <2>1. b = f
    BY <1>4 DEF Named, AddStringAttribute
  <2>2. Draft(o, b, 1, 524)
    <3>1. Len(f.attrs) <= 1 /\ Size(f) <= 524
      BY <1>3, MsgSize
    <3> QED
      BY <1>1, <1>3, <2>1, <3>1 DEF Draft, Room
  <2> QED
    BY <1>1, <1>2, <1>4, <2>1, <2>2
<1>5. CASE size # 0
  <2> DEFINE y == RoundUp4(size)
             s == IF f.legacy THEN y ELSE size
             e == Attr("USERNAME", s, y, o.user)
  <2>1. b = AddAttribute(f, "USERNAME", o.user, size)
    BY <1>5 DEF Named, AddStringAttribute
  <2>2. y \in Nat /\ y <= size + 3 /\ (size = 5 => y = 8) /\ size <= MaxAttribute
    <3>1. size <= MaxAttribute
      BY <1>2 DEF MaxAttribute
    <3>2. size = 5 => y = 8
      <4>1. RoundUp4(5) = 8
        BY DEF RoundUp4
      <4> HIDE DEF size
      <4> QED
        BY <4>1
    <3> QED
      BY <1>2, <3>1, <3>2, RoundUp, ZenonT(30), SMTT(60)
  <2>3. Longer(f, b, e) /\ e.type = "USERNAME" /\ e.value = o.user /\ e.bytes = y /\ e.size = s
    BY <1>2, <1>3, <2>1, <2>2, AttributeAdded
  <2>4. s \in Nat /\ (Len(o.user) = 1 => s <= 8)
    <3>1. Len(o.user) = 1 => size = 5
      OBVIOUS
    <3> HIDE DEF y, size, f
    <3>2. (Len(o.user) = 1 => y = 8 /\ size = 5) /\ y \in Nat /\ size \in Nat
      BY <1>2, <2>2, <3>1
    <3>3. CASE f.legacy
      BY <3>2, <3>3
    <3>4. CASE ~f.legacy
      BY <3>2, <3>4
    <3> QED
      BY <3>3, <3>4
  <2> HIDE DEF b, e, y, s
  <2>5. Draft(o, b, 1, 524)
    <3> HIDE DEF f, size
    <3>1. e.bytes \in Nat /\ 20 + 4 + e.bytes <= 524 /\ 0 + 1 <= 1
      <4>1. RoundUp4(500) = 500
        BY DEF RoundUp4
      <4>2. y <= 500
        BY <1>2, <4>1 DEF y, RoundUp4
      <4> QED
        BY <2>2, <2>3, <4>2
    <3> QED
      BY <1>1, <2>3, <3>1, DraftGrows
  <2>6. /\ \A type : HasAttribute(b, type) <=> type = e.type \/ HasAttribute(f, type)
        /\ GetAttributeByType(b, e.type) = e
    BY <1>3, <2>3, LookupGrows
  <2> HIDE DEF f
  <2>7. /\ \A type : HasAttribute(b, type) <=> type = "USERNAME"
        /\ a = e
    BY <1>1, <2>3, <2>6
  <2>8. Draft(o, b, 1, 524) /\ o.user # <<>>
    BY <1>2, <1>5, <2>5
  <2> QED
    BY <2>3, <2>4, <2>7, <2>8 DEF b
<1> QED
  BY <1>4, <1>5

\* Realm and nonce, for a long-term seal.
Nonce(o) == IF o.right THEN CreateNonce(0) ELSE Realm

Realmed(o) == AddStringAttribute(Named(o), "REALM", Realm, 17)

Credentials(o) ==
  IF o.seal # "long" THEN Named(o) ELSE AddStringAttribute(Realmed(o), "NONCE", Nonce(o), 51)

LEMMA CredentialsMade ==
  ASSUME NEW o, Option(o)
  PROVE  LET b == Credentials(o)
         IN  /\ Draft(o, b, 3, 604)
             /\ \A type : HasAttribute(b, type) <=>
                  \/ type = "USERNAME" /\ o.user # <<>>
                  \/ type \in {"REALM", "NONCE"} /\ o.seal = "long"
             /\ o.user # <<>> => LET a == GetAttributeByType(b, "USERNAME") IN
                  a.value = o.user /\ a.size \in Nat /\ (Len(o.user) = 1 => a.size <= 8)
             /\ o.seal = "long" => LET a == GetAttributeByType(b, "NONCE") IN
                  a.value = Nonce(o) /\ a.size \in Nat /\ a.size <= 64
<1> DEFINE b == Credentials(o)
           f == Named(o)
<1>1. /\ Draft(o, f, 1, 524)
      /\ \A type : HasAttribute(f, type) <=> type = "USERNAME" /\ o.user # <<>>
      /\ o.user # <<>> => LET a == GetAttributeByType(f, "USERNAME") IN
                  a.value = o.user /\ a.size \in Nat /\ (Len(o.user) = 1 => a.size <= 8)
  BY NamedMade
<1> HIDE DEF f
<1>2. CASE o.seal # "long"
  <2>1. b = f
    BY <1>2 DEF Credentials, f
  <2>2. Draft(o, f, 3, 604)
    <3>1. Msg(f) /\ Len(f.attrs) <= 1 /\ Size(f) <= 524
      BY <1>1 DEF Draft, Room
    <3>2. Len(f.attrs) <= 3 /\ Size(f) <= 604
      BY <3>1, MsgSize
    <3> QED
      BY <1>1, <3>1, <3>2 DEF Draft, Room
  <2> HIDE DEF b
  <2> QED
    BY <1>1, <1>2, <2>1, <2>2 DEF b
<1>3. CASE o.seal = "long"
  <2> DEFINE g == Realmed(o)
             ga == Attr("REALM", IF f.legacy THEN RoundUp4(17) ELSE 17, RoundUp4(17), Realm)
             ba == Attr("NONCE", IF g.legacy THEN RoundUp4(51) ELSE 51, RoundUp4(51), Nonce(o))
  <2>1. RoundUp4(17) = 20 /\ RoundUp4(51) = 52 /\ 17 <= MaxAttribute /\ 51 <= MaxAttribute
    BY DEF RoundUp4, MaxAttribute
  <2>2. g = AddAttribute(f, "REALM", Realm, 17)
    BY DEF Realmed, AddStringAttribute, f
  <2>3. b = AddAttribute(g, "NONCE", Nonce(o), 51)
    <3> HIDE DEF g
    <3>1. b = AddStringAttribute(g, "NONCE", Nonce(o), 51)
      BY <1>3 DEF Credentials, g
    <3> QED
      BY <3>1 DEF AddStringAttribute
  <2>4. Msg(f)
    BY <1>1 DEF Draft, Room
  <2>5. Longer(f, g, ga) /\ ga.type = "REALM" /\ ga.bytes = 20
    <3> HIDE DEF g
    <3> QED
      BY <2>1, <2>2, <2>4, AttributeAdded
  <2> HIDE DEF g, b, ga
  <2>6. Draft(o, g, 2, 548)
    BY <1>1, <2>5, DraftGrows
  <2>7. Msg(g)
    BY <2>6 DEF Draft, Room
  <2>8. /\ Longer(g, b, ba) /\ ba.type = "NONCE" /\ ba.bytes = 52 /\ ba.value = Nonce(o)
        /\ ba.size = IF g.legacy THEN 52 ELSE 51
    BY <2>1, <2>3, <2>7, AttributeAdded
  <2> HIDE DEF ba
  <2>9. Draft(o, b, 3, 604)
    BY <2>6, <2>8, DraftGrows
  <2>10. /\ \A type : HasAttribute(g, type) <=> type = "REALM" \/ HasAttribute(f, type)
         /\ \A type : type # "REALM" /\ HasAttribute(f, type) =>
              GetAttributeByType(g, type) = GetAttributeByType(f, type)
    BY <2>4, <2>5, LookupGrows
  <2>11. /\ \A type : HasAttribute(b, type) <=> type = "NONCE" \/ HasAttribute(g, type)
         /\ GetAttributeByType(b, "NONCE") = ba
         /\ \A type : type # "NONCE" /\ HasAttribute(g, type) =>
              GetAttributeByType(b, type) = GetAttributeByType(g, type)
    BY <2>7, <2>8, LookupGrows
  <2>12. \A type : HasAttribute(b, type) <=>
                  \/ type = "USERNAME" /\ o.user # <<>>
                  \/ type \in {"REALM", "NONCE"} /\ o.seal = "long"
    BY <1>1, <1>3, <2>10, <2>11
  <2>13. o.user # <<>> => GetAttributeByType(b, "USERNAME") = GetAttributeByType(f, "USERNAME")
    BY <1>1, <2>10, <2>11
  <2>14. ba.size \in Nat /\ ba.size <= 64
    BY <2>8
  <2> QED
    BY <1>1, <2>8, <2>9, <2>11, <2>12, <2>13, <2>14 DEF b
<1> QED
  BY <1>2, <1>3

\* The key that the client seals with.
Key(o) ==
  IF o.seal = "long" THEN MD5(<<o.user, Realm, PasswordUsed(o)>>) ELSE PasswordUsed(o)

SealedRequest(o) ==
  IF o.seal = "none" THEN Credentials(o) ELSE AddMessageIntegrityImpl(Credentials(o), Key(o))

Integrity(b, key) == Attr("MESSAGEINTEGRITY", 20, 20, HMAC(key, Covers(b, Size(b) + 4)))

Fingerprint(b) == Attr("FINGERPRINT", 4, 4, CRC(Covers(b, Size(b) - 12)))

LEMMA SealedMade ==
  ASSUME NEW o, Option(o)
  PROVE  /\ Draft(o, SealedRequest(o), 4, 628)
         /\ IF o.seal = "none" THEN SealedRequest(o) = Credentials(o)
            ELSE Longer(Credentials(o), SealedRequest(o), Integrity(Credentials(o), Key(o)))
<1> DEFINE q == Credentials(o)
           s == SealedRequest(o)
<1>1. Draft(o, q, 3, 604) /\ Msg(q)
  BY CredentialsMade DEF Draft, Room
<1> HIDE DEF q
<1>2. CASE o.seal = "none"
  <2>1. s = q
    BY <1>2 DEF SealedRequest, q
  <2>2. Draft(o, q, 4, 628)
    <3>1. Msg(q) /\ Len(q.attrs) <= 3 /\ Size(q) <= 604
      BY <1>1 DEF Draft, Room
    <3>2. Len(q.attrs) <= 4 /\ Size(q) <= 628
      BY <3>1, MsgSize
    <3> QED
      BY <1>1, <3>1, <3>2 DEF Draft, Room
  <2> HIDE DEF s
  <2> QED
    BY <1>2, <2>1, <2>2 DEF s, q
<1>3. CASE o.seal # "none"
  <2> DEFINE e == Integrity(q, Key(o))
  <2>1. s = AddMessageIntegrityImpl(q, Key(o))
    BY <1>3 DEF SealedRequest, q
  <2> HIDE DEF s
  <2>2. Longer(q, s, e) /\ e.bytes = 20
    BY <1>1, <2>1, IntegrityAdded, AttrFields DEF Integrity
  <2> HIDE DEF e
  <2>3. Draft(o, s, 4, 628)
    BY <1>1, <2>2, DraftGrows
  <2> QED
    BY <1>3, <2>2, <2>3 DEF s, q, e
<1> QED
  BY <1>2, <1>3

\* The request as it is sent.
LEMMA RequestMade ==
  ASSUME NEW o, Option(o)
  PROVE  LET w == MakeRequest(o)
             s == SealedRequest(o)
         IN  /\ Draft(o, w, 5, 636) /\ w.length = Size(w) - HeaderSize
             /\ IF o.fingerprint THEN Longer(s, w, Fingerprint(s))
                ELSE w.attrs = s.attrs /\ Size(w) = Size(s)
<1> DEFINE s == SealedRequest(o)
           p == IF o.fingerprint THEN AddFingerprintAttribute(s) ELSE s
           w == MakeRequest(o)
<1>1. w = FixLengthField(p)
  <2>1. CASE o.seal = "none"
    BY <2>1 DEF MakeRequest, GetResult, SealedRequest, Credentials, Realmed, Named, Bare, Id, Nonce
  <2>2. CASE o.seal = "short"
    <3>1. PasswordUsed(o) # <<>>
      BY DEF PasswordUsed, PasswordOf
    <3> QED
      BY <2>2, <3>1 DEF MakeRequest, GetResult, SealedRequest, Credentials, Realmed, Named, Bare,
         Id, Nonce, AddMessageIntegrityShortTerm, Key
  <2>3. CASE o.seal = "long"
    BY <2>3 DEF MakeRequest, GetResult, SealedRequest, Credentials, Realmed, Named, Bare,
         Id, Nonce, AddMessageIntegrityLongTerm, Key
  <2> QED
    BY <2>1, <2>2, <2>3 DEF Option
<1>2. Draft(o, s, 4, 628) /\ Msg(s)
  BY SealedMade DEF Draft, Room
<1> HIDE DEF s, w
<1>3. Draft(o, p, 5, 636) /\ IF o.fingerprint THEN Longer(s, p, Fingerprint(s)) ELSE p = s
  <2>1. CASE o.fingerprint
    <3> DEFINE e == Fingerprint(s)
    <3>1. p = AddFingerprintAttribute(s)
      BY <2>1
    <3> HIDE DEF p
    <3>2. Longer(s, p, e) /\ e.bytes = 4
      BY <1>2, <3>1, FingerprintAdded, AttrFields DEF Fingerprint
    <3> HIDE DEF e
    <3>3. Draft(o, p, 5, 636)
      BY <1>2, <3>2, DraftGrows
    <3> QED
      BY <2>1, <3>2, <3>3 DEF e
  <2>2. CASE ~o.fingerprint
    <3>1. p = s
      BY <2>2
    <3>2. Msg(s) /\ Len(s.attrs) <= 4 /\ Size(s) <= 628
      BY <1>2 DEF Draft, Room
    <3>3. Len(s.attrs) <= 5 /\ Size(s) <= 636
      BY <3>2, MsgSize
    <3>4. Draft(o, s, 5, 636)
      BY <1>2, <3>2, <3>3 DEF Draft, Room
    <3> HIDE DEF p
    <3> QED
      BY <2>2, <3>1, <3>4
  <2> QED
    BY <2>1, <2>2
<1> HIDE DEF p
<1>4. Msg(p)
  BY <1>3 DEF Draft, Room
<1>5. /\ Msg(w) /\ w.attrs = p.attrs /\ w.legacy = p.legacy /\ w.transid = p.transid
      /\ w.field = p.field /\ Size(w) = Size(p) /\ w.length = Size(w) - HeaderSize
  BY <1>1, <1>4, FixedMsg
<1>6. Draft(o, w, 5, 636)
  BY <1>3, <1>5 DEF Draft, Room
<1>7. IF o.fingerprint THEN Longer(s, w, Fingerprint(s)) ELSE w.attrs = s.attrs /\ Size(w) = Size(s)
  BY <1>3, <1>5 DEF Longer
<1> QED
  BY <1>5, <1>6, <1>7 DEF s, w

\* The request as it arrives.
Arrived(o) ==
  <<IF o.legacy THEN 1 ELSE STUN_COOKIE, 2, 3, IF o.tampered THEN 5 ELSE 4>>

LEMMA CarriedMade ==
  ASSUME NEW o, Option(o)
  PROVE  LET w == Carried(o)
             s == SealedRequest(o)
         IN  /\ WellFormed(w) /\ w.transid = Arrived(o)
             /\ w.field = IF o.class = 1 THEN 17 ELSE 1
             /\ IF o.fingerprint
                  THEN w.attrs = Append(s.attrs, Fingerprint(s)) /\ Size(w) = Size(s) + 8
                  ELSE w.attrs = s.attrs /\ Size(w) = Size(s)
<1> DEFINE s == SealedRequest(o)
           v == MakeRequest(o)
           w == Carried(o)
           a == IF o.legacy THEN 1 ELSE STUN_COOKIE
<1>1. /\ Draft(o, v, 5, 636) /\ v.length = Size(v) - HeaderSize
      /\ IF o.fingerprint THEN Longer(s, v, Fingerprint(s))
         ELSE v.attrs = s.attrs /\ Size(v) = Size(s)
  BY RequestMade
<1> HIDE DEF s, v, a
<1>2. /\ Msg(v) /\ Len(v.attrs) <= 5 /\ Size(v) <= 636 /\ v.transid = <<a, 2, 3, 4>>
      /\ v.field = IF o.class = 1 THEN 17 ELSE 1
  BY <1>1 DEF Draft, Room, Id, a
<1>3. /\ w.attrs = v.attrs /\ w.field = v.field /\ w.length = v.length /\ MsgShape(w)
      /\ w.transid = <<a, 2, 3, IF o.tampered THEN 5 ELSE 4>>
  <2>1. v = [legacy |-> v.legacy, length |-> v.length, transid |-> v.transid,
             attrs |-> v.attrs, field |-> v.field]
    BY <1>2 DEF Msg, MsgShape
  <2>2. CASE o.tampered
    <3> DEFINE u == [v.transid EXCEPT ![4] = 5]
    <3>1. u = <<a, 2, 3, 5>>
      BY <1>2
    <3>2. w = [v EXCEPT !.transid = u]
      BY <2>2 DEF Carried, v
    <3> HIDE DEF u, w
    <3>3. w = [legacy |-> v.legacy, length |-> v.length, transid |-> u,
               attrs |-> v.attrs, field |-> v.field]
      BY <2>1, <3>2
    <3>4. /\ MsgShape(w) /\ w.attrs = v.attrs /\ w.transid = u /\ w.field = v.field
          /\ w.length = v.length
      BY <3>3, Shaped
    <3> QED
      BY <2>2, <3>1, <3>4
  <2>3. CASE ~o.tampered
    <3>1. w = v
      BY <2>3 DEF Carried, v
    <3> HIDE DEF w
    <3> QED
      BY <1>2, <2>3, <3>1 DEF Msg
  <2> QED
    BY <2>2, <2>3
<1> HIDE DEF w
<1>4. Msg(w) /\ Size(w) = Size(v)
  BY <1>2, <1>3, SameAttrs
<1>5. WellFormed(w)
  <2>1. Size(v) \in Nat /\ Len(v.attrs) \in Nat
    BY <1>2, MsgSize
  <2>2. w.length <= MaxMessage /\ Len(w.attrs) <= MaxNumAttributes
    <3>1. Size(v) - 20 <= 800
      BY <1>2, <2>1
    <3>2. Len(v.attrs) <= 30
      BY <1>2, <2>1
    <3> QED
      BY <1>1, <1>3, <3>1, <3>2 DEF MaxMessage, MaxNumAttributes, HeaderSize
  <2>3. w.field \in Fourteen
    <3>1. 17 \in Fourteen /\ 1 \in Fourteen
      BY DEF Fourteen
    <3> QED
      BY <1>2, <1>3, <3>1
  <2>4. w.length = Size(w) - HeaderSize
    BY <1>1, <1>3, <1>4
  <2> QED
    BY <1>4, <2>2, <2>3, <2>4 DEF WellFormed
<1>6. IF o.fingerprint
        THEN w.attrs = Append(s.attrs, Fingerprint(s)) /\ Size(w) = Size(s) + 8
        ELSE w.attrs = s.attrs /\ Size(w) = Size(s)
  <2>1. CASE o.fingerprint
    <3>1. v.attrs = Append(s.attrs, Fingerprint(s)) /\ Size(v) = Size(s) + 4 + Fingerprint(s).bytes
      BY <1>1, <2>1 DEF Longer
    <3>2. Fingerprint(s).bytes = 4
      BY AttrFields DEF Fingerprint
    <3>3. Size(s) \in Nat
      BY SealedMade, MsgSize DEF Draft, Room, s
    <3> QED
      BY <1>3, <1>4, <2>1, <3>1, <3>2, <3>3
  <2>2. CASE ~o.fingerprint
    BY <1>1, <1>3, <1>4, <2>2
  <2> QED
    BY <2>1, <2>2
<1>7. w.transid = Arrived(o)
  BY <1>3 DEF Arrived, a
<1> QED
  BY <1>2, <1>3, <1>5, <1>6, <1>7 DEF s, w

-----------------------------------------------------------------------------
(* Reading a request in pieces: at every moment the reader knows what the  *)
(* bytes it has tell, and it is asked for no more than the message has.    *)

\* The answer to a request that has been read.
AnswerTo(o) ==
  ProcessRequest([role |-> RolePP, local |-> Addr(<<3>>, 2), remote |-> Remote(o),
                  reader |-> Known(Carried(o), Size(Carried(o))), tcp |-> TRUE],
                 StreamSet, o.auth, 1)

\* A request being read, or answered.
Underway(x) ==
  /\ x = [phase |-> x.phase, opt |-> x.opt, msg |-> x.msg, reader |-> x.reader,
          answer |-> x.answer]
  /\ x.opt \in StreamOptions /\ x.msg = Carried(x.opt)
  /\ x.reader.size \in Nat /\ x.reader.size <= Size(x.msg)
  /\ x.reader = Known(x.msg, x.reader.size)
  /\ \/ x.phase = "read"
     \/ /\ x.phase = "answered"
        /\ x.reader.size = Size(x.msg) /\ x.answer = AnswerTo(x.opt)

StreamInv == st = Idle \/ Underway(st)

LEMMA Carries ==
  ASSUME NEW o \in StreamOptions
  PROVE  WellFormed(Carried(o))
  BY Options, CarriedMade

LEMMA InitStream == Init => StreamInv
<1> SUFFICES ASSUME Init, st # Idle PROVE Underway(st)
  BY DEF StreamInv
<1>1. PICK o \in StreamOptions : st = StreamStart(o)
  BY DEF Init
<1> DEFINE w == Carried(o)
           x == StreamStart(o)
<1>2. Size(w) \in Nat /\ Size(w) >= 20
  BY Carries, Numbers
<1>3. Known(w, 0) = Reset /\ Reset.size = 0
  BY DEF Known, HeaderSize, Nothing, Reset
<1>4. x = [phase |-> "read", opt |-> o, msg |-> w, reader |-> Reset, answer |-> NoResponse]
  BY DEF StreamStart
<1> HIDE DEF w, x
<1>5. /\ x.phase = "read" /\ x.opt = o /\ x.msg = w /\ x.reader = Reset
      /\ x = [phase |-> x.phase, opt |-> x.opt, msg |-> x.msg, reader |-> x.reader,
              answer |-> x.answer]
  BY <1>4
<1> QED
  BY <1>1, <1>2, <1>3, <1>5 DEF Underway, x, w

LEMMA NextStream == StreamInv /\ [Next]_vars => StreamInv'
<1> SUFFICES ASSUME StreamInv, [Next]_vars PROVE StreamInv'
  OBVIOUS
<1>1. CASE UNCHANGED st
  BY <1>1 DEF StreamInv, Underway
<1>2. CASE ~UNCHANGED st
  <2>1. StreamNext
    BY <1>2 DEF Next, vars, Discover, Stream, Serve, Poll, ReadConf, Signal
  <2>2. st.phase = "read" /\ Underway(st)
    BY <2>1 DEF StreamNext, Feed, AnswerStream, StreamInv, Idle
  <2> DEFINE o == st.opt
             w == st.msg
             r == st.reader
             size == r.size
  <2>3. WellFormed(w) /\ w = Carried(o) /\ o \in StreamOptions
    BY <2>2, Carries DEF Underway
  <2>4. /\ size \in Nat /\ size <= Size(w) /\ r = Known(w, size)
        /\ HowManyBytesNeeded(r) \in Nat
        /\ size + HowManyBytesNeeded(r) <= Size(w)
        /\ HowManyBytesNeeded(r) = 0 => size = Size(w)
    <3>1. size \in Nat /\ size <= Size(w) /\ r = Known(w, size)
      BY <2>2 DEF Underway
    <3> HIDE DEF r, w, size
    <3> QED
      BY <2>3, <3>1, Needed
  <2>5. st = [phase |-> st.phase, opt |-> o, msg |-> w, reader |-> r, answer |-> st.answer]
    BY <2>2 DEF Underway
  <2>6. CASE Feed
    <3>1. PICK j \in 1 .. HowManyBytesNeeded(r) : st' = [st EXCEPT !.reader = AddBytes(r, w, j)]
      BY <2>6 DEF Feed
    <3> DEFINE new == Known(w, size + j)
    <3>2. /\ size + j \in Nat /\ size + j <= Size(w) /\ AddBytes(r, w, j) = new
          /\ new.size = size + j
      <4> HIDE DEF r, w, size
      <4>1. Size(w) \in Nat
        BY <2>3, Numbers
      <4>2. /\ size + j \in Nat /\ size + j <= Size(w) /\ j \in Nat \ {0}
        BY <2>4, <3>1, <4>1
      <4>3. AddBytes(r, w, j) = new
        BY <2>3, <2>4, <4>2, Fed
      <4>4. new.size = size + j
        BY <2>3, <4>2, Needed
      <4> QED
        BY <4>2, <4>3, <4>4
    <3> HIDE DEF new, r, w, o, size
    <3>3. st' = [phase |-> "read", opt |-> o, msg |-> w, reader |-> new, answer |-> st.answer]
      BY <2>2, <2>5, <3>1, <3>2
    <3>4. /\ st'.phase = "read" /\ st'.opt = o /\ st'.msg = w /\ st'.reader = new
          /\ st' = [phase |-> st'.phase, opt |-> st'.opt, msg |-> st'.msg,
                    reader |-> st'.reader, answer |-> st'.answer]
      BY <3>3
    <3>5. Underway(st')
      BY <2>3, <3>2, <3>4 DEF Underway, new
    <3> QED
      BY <3>5 DEF StreamInv, Underway
  <2>7. CASE AnswerStream
    <3>1. HowManyBytesNeeded(r) = 0
      BY <2>7 DEF AnswerStream
    <3> DEFINE m == [role |-> RolePP, local |-> Addr(<<3>>, 2), remote |-> Remote(o),
                     reader |-> r, tcp |-> TRUE]
               new == ProcessRequest(m, StreamSet, o.auth, 1)
    <3>2. st' = [st EXCEPT !.phase = "answered", !.answer = new]
      BY <2>7 DEF AnswerStream
    <3>3. size = Size(w) /\ r = Known(w, Size(w))
      BY <2>4, <3>1
    <3>4. new = AnswerTo(o)
      <4>1. r = Known(Carried(o), Size(Carried(o)))
        BY <2>3, <3>3
      <4> HIDE DEF r, o
      <4> QED
        BY <4>1 DEF AnswerTo
    <3> HIDE DEF new, r, w, o, size, m
    <3>5. st' = [phase |-> "answered", opt |-> o, msg |-> w, reader |-> r, answer |-> new]
      <4> DEFINE y == [st EXCEPT !.phase = "answered"]
                 old == st.answer
      <4>1. st' = [y EXCEPT !.answer = new]
        BY <3>2
      <4> HIDE DEF old
      <4>2. y = [phase |-> "answered", opt |-> o, msg |-> w, reader |-> r, answer |-> old]
        BY <2>5 DEF old
      <4> HIDE DEF y
      <4> QED
        BY <4>1, <4>2
    <3>6. /\ st'.phase = "answered" /\ st'.opt = o /\ st'.msg = w /\ st'.reader = r
          /\ st'.answer = new
          /\ st' = [phase |-> st'.phase, opt |-> st'.opt, msg |-> st'.msg,
                    reader |-> st'.reader, answer |-> st'.answer]
      BY <3>5
    <3>7. Underway(st')
      BY <2>3, <2>4, <3>3, <3>4, <3>6 DEF Underway, size
    <3> QED
      BY <3>7 DEF StreamInv, Underway
  <2> QED
    BY <2>1, <2>6, <2>7 DEF StreamNext
<1> QED
  BY <1>1, <1>2

\* In every behaviour the reader knows exactly what the bytes it has tell of
\* the request (CStunMessageReader::AddBytes), and the answer is the one to
\* the whole request.
THEOREM StreamInvariant == Spec => []StreamInv
<1> QED
  BY InitStream, NextStream, PTL DEF Spec

\* However a message is cut into pieces, the reader is ready exactly at its
\* last byte, asks for no byte beyond it and knows what it would know had the
\* message come in one piece (CStunMessageReader::AddBytes).
THEOREM ChunkingAlwaysIrrelevant == Spec => []ChunkingIrrelevant
<1>1. StreamInv => ChunkingIrrelevant
  <2> SUFFICES ASSUME StreamInv, Reading PROVE
      /\ st.reader.size + HowManyBytesNeeded(st.reader) <= Size(st.msg)
      /\ (st.reader.state = "BodyValidated") = (st.reader.size = Size(st.msg))
      /\ st.reader.size = Size(st.msg) => st.reader = Parse(st.msg)
    BY DEF ChunkingIrrelevant
  <2>1. Underway(st)
    BY DEF StreamInv, Reading, Idle
  <2> DEFINE w == st.msg
             r == st.reader
  <2>2. WellFormed(w) /\ r.size \in Nat /\ r.size <= Size(w) /\ r = Known(w, r.size)
    BY <2>1, Carries DEF Underway
  <2> HIDE DEF w, r
  <2>3. /\ r.size + HowManyBytesNeeded(r) <= Size(w)
        /\ (r.state = "BodyValidated") = (r.size = Size(w))
    BY <2>2, Needed
  <2>4. r.size = Size(w) => r = Parse(w)
    BY <2>2, ParseKnown
  <2> QED
    BY <2>3, <2>4 DEF w, r
<1> QED
  BY <1>1, StreamInvariant, PTL

-----------------------------------------------------------------------------
(* What the handler finds in the request.                                  *)

LEMMA WholeFields ==
  ASSUME NEW w, NEW z
  PROVE  LET r == Whole(w, z)
         IN  /\ r.state = "BodyValidated" /\ r.size = z /\ r.length = w.length
             /\ r.legacy = (w.transid[1] # STUN_COOKIE) /\ r.transid = w.transid
             /\ r.type = TypeOf(w.field) /\ r.class = ClassOf(w.field)
             /\ r.attrs = w.attrs /\ r.field = w.field
<1> DEFINE old == w.transid[1] # STUN_COOKIE
<1> HIDE DEF old
<1>1. LET r == Whole(w, z)
      IN  /\ r.state = "BodyValidated" /\ r.size = z /\ r.length = w.length
          /\ r.legacy = old /\ r.transid = w.transid
          /\ r.type = TypeOf(w.field) /\ r.class = ClassOf(w.field)
          /\ r.attrs = w.attrs /\ r.field = w.field
  BY DEF Whole, Heading, old
<1> QED
  BY <1>1 DEF old

\* The reader, once it has the whole message.
Read(w) == Known(w, Size(w))

LEMMA ReadFields ==
  ASSUME NEW w, WellFormed(w)
  PROVE  LET r == Read(w)
         IN  /\ r.state = "BodyValidated" /\ r.size = Size(w) /\ r.length = w.length
             /\ r.legacy = (w.transid[1] # STUN_COOKIE) /\ r.transid = w.transid
             /\ r.type = TypeOf(w.field) /\ r.class = ClassOf(w.field)
             /\ r.attrs = w.attrs /\ r.field = w.field
<1>1. Read(w) = Whole(w, Size(w))
  <2>1. ~(Size(w) < HeaderSize)
    BY Numbers DEF HeaderSize
  <2> QED
    BY <2>1 DEF Read, Known
<1> QED
  BY <1>1, WholeFields

LEMMA ArrivedLegacy ==
  ASSUME NEW o, Option(o)
  PROVE  (Arrived(o)[1] # STUN_COOKIE) = o.legacy
<1>1. CASE o.legacy
  <2>1. Arrived(o)[1] = 1
    BY <1>1 DEF Arrived
  <2>2. o.legacy = TRUE
    BY <1>1 DEF Option
  <2>3. Arrived(o)[1] # STUN_COOKIE
    BY <2>1 DEF STUN_COOKIE
  <2>4. (Arrived(o)[1] # STUN_COOKIE) = TRUE
    BY <2>3
  <2> QED
    BY <2>2, <2>4
<1>2. CASE ~o.legacy
  <2>1. Arrived(o)[1] = STUN_COOKIE
    BY <1>2 DEF Arrived
  <2> QED
    BY <1>2, <2>1 DEF Option
<1> QED
  BY <1>1, <1>2

LEMMA RequestRead ==
  ASSUME NEW o, Option(o)
  PROVE  LET r == Read(Carried(o))
         IN  /\ r.state = "BodyValidated" /\ r.class = o.class /\ r.type = BINDING
             /\ r.legacy = o.legacy /\ r.transid = Arrived(o)
             /\ r.attrs = Carried(o).attrs /\ r.length = Size(Carried(o)) - HeaderSize
             /\ r.field = IF o.class = 1 THEN 17 ELSE 1
<1> DEFINE w == Carried(o)
           r == Read(w)
<1>1. WellFormed(w) /\ w.transid = Arrived(o) /\ w.field = IF o.class = 1 THEN 17 ELSE 1
  BY CarriedMade
<1> HIDE DEF w
<1>2. /\ r.state = "BodyValidated" /\ r.length = w.length
      /\ r.legacy = (w.transid[1] # STUN_COOKIE) /\ r.transid = w.transid
      /\ r.type = TypeOf(w.field) /\ r.class = ClassOf(w.field)
      /\ r.attrs = w.attrs /\ r.field = w.field
  BY <1>1, ReadFields
<1>3. TypeOf(17) = 1 /\ TypeOf(1) = 1 /\ ClassOf(17) = 1 /\ ClassOf(1) = 0
  BY DEF TypeOf, ClassOf
<1>4. (Arrived(o)[1] # STUN_COOKIE) = o.legacy
  BY ArrivedLegacy
<1>5. w.length = Size(w) - HeaderSize
  BY <1>1 DEF WellFormed
<1>6. r.class = o.class /\ r.type = BINDING
  <2>1. o.class \in {0, 1}
    BY DEF Option
  <2> HIDE DEF r
  <2>2. CASE o.class = 1
    BY <1>1, <1>2, <1>3, <2>2 DEF BINDING
  <2>3. CASE o.class = 0
    BY <1>1, <1>2, <1>3, <2>3 DEF BINDING
  <2> QED
    BY <2>1, <2>2, <2>3
<1> HIDE DEF r
<1> QED
  BY <1>1, <1>2, <1>4, <1>5, <1>6 DEF r, w

\* The attributes of the request, as the reader finds them.
LEMMA RequestLookup ==
  ASSUME NEW o, Option(o)
  PROVE  LET r == Read(Carried(o))
             q == Credentials(o)
             s == SealedRequest(o)
         IN  /\ \A type : HasAttribute(r, type) <=>
                  \/ type = "USERNAME" /\ o.user # <<>>
                  \/ type \in {"REALM", "NONCE"} /\ o.seal = "long"
                  \/ type = "MESSAGEINTEGRITY" /\ o.seal # "none"
                  \/ type = "FINGERPRINT" /\ o.fingerprint
             /\ o.user # <<>> => LET a == GetAttributeByType(r, "USERNAME") IN
                  a.value = o.user /\ a.size \in Nat /\ (Len(o.user) = 1 => a.size <= 8)
             /\ o.seal = "long" => LET a == GetAttributeByType(r, "NONCE") IN
                  a.value = Nonce(o) /\ a.size \in Nat /\ a.size <= 64
             /\ o.seal # "none" =>
                  /\ IndexOf(r, "MESSAGEINTEGRITY") = Len(q.attrs) + 1
                  /\ GetAttributeByType(r, "MESSAGEINTEGRITY") = Integrity(q, Key(o))
             /\ o.fingerprint => GetAttributeByType(r, "FINGERPRINT") = Fingerprint(s)
<1> DEFINE r == Read(Carried(o))
           q == Credentials(o)
           s == SealedRequest(o)
           mi == Integrity(q, Key(o))
           fp == Fingerprint(s)
           v == IF o.fingerprint THEN MakeRequest(o) ELSE s
<1>1. /\ Msg(q)
      /\ \A type : HasAttribute(q, type) <=>
                  \/ type = "USERNAME" /\ o.user # <<>>
                  \/ type \in {"REALM", "NONCE"} /\ o.seal = "long"
  BY CredentialsMade DEF Draft, Room
<1>2. Msg(s) /\ IF o.seal = "none" THEN s = q ELSE Longer(q, s, mi)
  BY SealedMade DEF Draft, Room
<1>3. mi.type = "MESSAGEINTEGRITY" /\ fp.type = "FINGERPRINT"
  BY AttrFields DEF Integrity, Fingerprint
<1>4. /\ r.attrs = v.attrs /\ (o.fingerprint => Longer(s, v, fp)) /\ (~o.fingerprint => v = s)
  <2>1. r.attrs = Carried(o).attrs
    BY RequestRead
  <2>2. CASE o.fingerprint
    <3>1. Longer(s, v, fp)
      BY <2>2, RequestMade
    <3>2. Carried(o).attrs = Append(s.attrs, fp)
      BY <2>2, CarriedMade
    <3>3. v.attrs = Append(s.attrs, fp)
      BY <3>1 DEF Longer
    <3> QED
      BY <2>1, <2>2, <3>1, <3>2, <3>3
  <2>3. CASE ~o.fingerprint
    <3>1. Carried(o).attrs = s.attrs /\ v = s
      BY <2>3, CarriedMade
    <3> QED
      BY <2>1, <2>3, <3>1
  <2> QED
    BY <2>2, <2>3
<1> HIDE DEF r, q, s, mi, fp, v
\* The integrity attribute after the credentials.
<1>5. /\ \A type : HasAttribute(s, type) <=>
           HasAttribute(q, type) \/ (type = "MESSAGEINTEGRITY" /\ o.seal # "none")
      /\ \A type : type # "MESSAGEINTEGRITY" /\ HasAttribute(q, type) =>
           /\ GetAttributeByType(s, type) = GetAttributeByType(q, type)
      /\ o.seal # "none" =>
           /\ IndexOf(s, "MESSAGEINTEGRITY") = Len(q.attrs) + 1
           /\ GetAttributeByType(s, "MESSAGEINTEGRITY") = mi
  <2>1. CASE o.seal = "none"
    BY <1>2, <2>1
  <2>2. CASE o.seal # "none"
    <3>1. Longer(q, s, mi)
      BY <1>2, <2>2
    <3> QED
      BY <1>1, <1>3, <2>2, <3>1, LookupGrows
  <2> QED
    BY <2>1, <2>2
\* The fingerprint after it.
<1>6. /\ \A type : HasAttribute(v, type) <=>
           HasAttribute(s, type) \/ (type = "FINGERPRINT" /\ o.fingerprint)
      /\ \A type : type # "FINGERPRINT" /\ HasAttribute(s, type) =>
           /\ IndexOf(v, type) = IndexOf(s, type)
           /\ GetAttributeByType(v, type) = GetAttributeByType(s, type)
      /\ o.fingerprint => GetAttributeByType(v, "FINGERPRINT") = fp
  <2>1. CASE ~o.fingerprint
    BY <1>4, <2>1
  <2>2. CASE o.fingerprint
    <3>1. Longer(s, v, fp)
      BY <1>4, <2>2
    <3> QED
      BY <1>2, <1>3, <2>2, <3>1, LookupGrows
  <2> QED
    BY <2>1, <2>2
<1>7. \A type : /\ HasAttribute(r, type) = HasAttribute(v, type)
                /\ IndexOf(r, type) = IndexOf(v, type)
                /\ GetAttributeByType(r, type) = GetAttributeByType(v, type)
  BY <1>4, SameLookup
<1>8. \A type : HasAttribute(r, type) <=>
                  \/ type = "USERNAME" /\ o.user # <<>>
                  \/ type \in {"REALM", "NONCE"} /\ o.seal = "long"
                  \/ type = "MESSAGEINTEGRITY" /\ o.seal # "none"
                  \/ type = "FINGERPRINT" /\ o.fingerprint
  BY <1>1, <1>5, <1>6, <1>7
<1>9. /\ o.user # <<>> => GetAttributeByType(r, "USERNAME") = GetAttributeByType(q, "USERNAME")
      /\ o.seal = "long" => GetAttributeByType(r, "NONCE") = GetAttributeByType(q, "NONCE")
  BY <1>1, <1>5, <1>6, <1>7
<1>10. o.seal # "none" =>
           /\ IndexOf(r, "MESSAGEINTEGRITY") = Len(q.attrs) + 1
           /\ GetAttributeByType(r, "MESSAGEINTEGRITY") = mi
  BY <1>5, <1>6, <1>7
<1>11. o.fingerprint => GetAttributeByType(r, "FINGERPRINT") = fp
  BY <1>6, <1>7
<1>12. /\ o.user # <<>> => LET a == GetAttributeByType(q, "USERNAME") IN
             a.value = o.user /\ a.size \in Nat /\ (Len(o.user) = 1 => a.size <= 8)
       /\ o.seal = "long" => LET a == GetAttributeByType(q, "NONCE") IN
             a.value = Nonce(o) /\ a.size \in Nat /\ a.size <= 64
  BY CredentialsMade DEF q
<1> QED
  BY <1>8, <1>9, <1>10, <1>11, <1>12 DEF r, q, s, mi, fp

-----------------------------------------------------------------------------
(* Seals and fingerprints of the request, and what the providers make of   *)
(* them.                                                                   *)

LEMMA Digests ==
  ASSUME NEW k1, NEW k2, NEW t1, NEW t2
  PROVE  /\ HMAC(k1, t1) = HMAC(k2, t2) <=> k1 = k2 /\ t1 = t2
         /\ CRC(t1) = CRC(t2) <=> t1 = t2
  BY DEF HMAC, CRC

LEMMA PrefixIs ==
  ASSUME NEW q, q \in Seq(ToSet(q)), NEW p, p \in Seq(ToSet(p)), Len(q) <= Len(p),
         \A i \in 1 .. Len(q) : p[i] = q[i]
  PROVE  SubSeq(p, 1, Len(q)) = q
<1> DEFINE len == Len(q)
<1>1. len \in Nat /\ Len(p) \in Nat
  OBVIOUS
<1>2. SubSeq(p, 1, len) = [i \in 1 .. len |-> p[i]]
  BY <1>1
<1>3. q = [i \in 1 .. len |-> q[i]]
  OBVIOUS
<1> HIDE DEF len
<1> QED
  BY <1>1, <1>2, <1>3 DEF len

LEMMA SameText ==
  ASSUME NEW o, NEW b, b.transid = Id(o), NEW z
  PROVE  <<b.field, z, Arrived(o), b.attrs>> = Covers(b, z) <=> ~o.tampered
<1>1. Arrived(o) = Id(o) <=> ~o.tampered
  BY DEF Arrived, Id
<1>2. <<b.field, z, Arrived(o), b.attrs>> = Covers(b, z) <=> Arrived(o) = b.transid
  BY DEF Covers
<1> QED
  BY <1>1, <1>2

\* Where the attributes of the request are.
LEMMA RequestPlaces ==
  ASSUME NEW o, Option(o)
  PROVE  LET r == Read(Carried(o))
             q == Credentials(o)
             s == SealedRequest(o)
         IN  /\ q.transid = Id(o) /\ s.transid = Id(o) /\ r.field = q.field /\ r.field = s.field
             /\ Size(q) \in Nat /\ Size(s) \in Nat /\ Len(q.attrs) \in Nat /\ Len(s.attrs) \in Nat
             /\ SubSeq(r.attrs, 1, Len(q.attrs)) = q.attrs
             /\ SubSeq(r.attrs, 1, Len(s.attrs)) = s.attrs
             /\ o.seal # "none" => Len(s.attrs) = Len(q.attrs) + 1 /\ Size(s) = Size(q) + 24
             /\ IF o.fingerprint
                  THEN Len(r.attrs) = Len(s.attrs) + 1 /\ r.length = Size(s) - 12
                       /\ r.attrs[Len(s.attrs) + 1] = Fingerprint(s)
                  ELSE Len(r.attrs) = Len(s.attrs) /\ r.length = Size(s) - 20
<1> DEFINE w == Carried(o)
           r == Read(w)
           q == Credentials(o)
           s == SealedRequest(o)
           mi == Integrity(q, Key(o))
           fp == Fingerprint(s)
<1>1. Draft(o, q, 3, 604) /\ Draft(o, s, 4, 628)
  BY CredentialsMade, SealedMade
<1>2. /\ r.attrs = w.attrs /\ r.length = Size(w) - HeaderSize
      /\ r.field = IF o.class = 1 THEN 17 ELSE 1
  BY RequestRead
<1>3. /\ WellFormed(w)
      /\ IF o.fingerprint THEN w.attrs = Append(s.attrs, fp) /\ Size(w) = Size(s) + 8
         ELSE w.attrs = s.attrs /\ Size(w) = Size(s)
  BY CarriedMade
<1>4. IF o.seal = "none" THEN s = q ELSE Longer(q, s, mi)
  BY SealedMade
<1>5. mi.bytes = 20
  BY AttrFields DEF Integrity
<1> HIDE DEF w, r, q, s, mi, fp
<1>6. /\ Msg(q) /\ Msg(s) /\ q.transid = Id(o) /\ s.transid = Id(o)
      /\ r.field = q.field /\ r.field = s.field
  BY <1>1, <1>2 DEF Draft, Room
<1>7. /\ Size(q) \in Nat /\ Size(s) \in Nat /\ Len(q.attrs) \in Nat /\ Len(s.attrs) \in Nat
      /\ q.attrs \in Seq(ToSet(q.attrs)) /\ s.attrs \in Seq(ToSet(s.attrs))
      /\ r.attrs \in Seq(ToSet(r.attrs))
  <2>1. r.attrs \in Seq(ToSet(r.attrs))
    BY <1>2, <1>3 DEF WellFormed, Msg, AttrsOk
  <2> QED
    BY <1>6, <2>1, MsgSize DEF Msg, AttrsOk
<1>8. /\ Len(q.attrs) <= Len(s.attrs) /\ \A i \in 1 .. Len(q.attrs) : s.attrs[i] = q.attrs[i]
      /\ o.seal # "none" => Len(s.attrs) = Len(q.attrs) + 1 /\ Size(s) = Size(q) + 24
  <2>1. CASE o.seal = "none"
    BY <1>4, <1>7, <2>1
  <2>2. CASE o.seal # "none"
    <3>1. /\ s.attrs = Append(q.attrs, mi) /\ Size(s) = Size(q) + 4 + 20
      BY <1>4, <1>5, <2>2 DEF Longer
    <3>2. /\ Len(s.attrs) = Len(q.attrs) + 1
          /\ \A i \in 1 .. Len(q.attrs) : s.attrs[i] = q.attrs[i]
      BY <1>7, <3>1, Appended
    <3> QED
      BY <1>7, <3>1, <3>2
  <2> QED
    BY <2>1, <2>2
<1>9. /\ Len(s.attrs) <= Len(r.attrs) /\ \A i \in 1 .. Len(s.attrs) : r.attrs[i] = s.attrs[i]
      /\ IF o.fingerprint
           THEN Len(r.attrs) = Len(s.attrs) + 1 /\ r.length = Size(s) - 12
                /\ r.attrs[Len(s.attrs) + 1] = fp
           ELSE Len(r.attrs) = Len(s.attrs) /\ r.length = Size(s) - 20
  <2>1. CASE o.fingerprint
    <3>4. w.attrs = Append(s.attrs, fp) /\ Size(w) = Size(s) + 8
      BY <1>3, <2>1
    <3>1. r.attrs = Append(s.attrs, fp) /\ r.length = Size(s) + 8 - 20
      <4>1. Size(w) - 20 = Size(s) + 8 - 20
        BY <1>7, <3>4
      <4> QED
        BY <1>2, <3>4, <4>1 DEF HeaderSize
    <3>2. /\ Len(r.attrs) = Len(s.attrs) + 1
          /\ \A i \in 1 .. Len(s.attrs) : r.attrs[i] = s.attrs[i]
          /\ r.attrs[Len(s.attrs) + 1] = fp
      BY <1>7, <3>1, Appended
    <3>3. r.length = Size(s) - 12
      BY <1>7, <3>1
    <3> QED
      BY <1>7, <2>1, <3>2, <3>3
  <2>2. CASE ~o.fingerprint
    BY <1>2, <1>3, <1>7, <2>2 DEF HeaderSize
  <2> QED
    BY <2>1, <2>2
<1>10. SubSeq(r.attrs, 1, Len(s.attrs)) = s.attrs
  BY <1>7, <1>9, PrefixIs
<1>11. SubSeq(r.attrs, 1, Len(q.attrs)) = q.attrs
  <2>1. Len(q.attrs) <= Len(r.attrs) /\ Len(r.attrs) \in Nat
    BY <1>7, <1>8, <1>9, SMTT(60)
  <2>2. ASSUME NEW i \in 1 .. Len(q.attrs) PROVE r.attrs[i] = q.attrs[i]
    <3>1. i \in 1 .. Len(s.attrs)
      BY <1>7, <1>8
    <3> QED
      BY <1>8, <1>9, <3>1
  <2> QED
    BY <1>7, <2>1, <2>2, PrefixIs
<1> QED
  BY <1>6, <1>7, <1>8, <1>9, <1>10, <1>11 DEF r, w, q, s, fp

\* The seal is valid for the key it was made with, unless the message changed.
LEMMA RequestSeal ==
  ASSUME NEW o, Option(o), NEW key
  PROVE  ValidateMessageIntegrity(Read(Carried(o)), key) <=>
           o.seal # "none" /\ key = Key(o) /\ ~o.tampered
<1> DEFINE r == Read(Carried(o))
           q == Credentials(o)
           s == SealedRequest(o)
           j == IndexOf(r, "MESSAGEINTEGRITY")
           end == Len(r.attrs)
           z == r.length - (IF j = end THEN 0 ELSE 8)
<1>1. r.state = "BodyValidated" /\ r.transid = Arrived(o)
  BY RequestRead
<1>2. /\ HasMessageIntegrityAttribute(r) <=> o.seal # "none"
      /\ o.seal # "none" => j = Len(q.attrs) + 1 /\ r.attrs[j] = Integrity(q, Key(o))
  <2>1. HasAttribute(r, "MESSAGEINTEGRITY") <=> o.seal # "none"
    BY RequestLookup
  <2>2. o.seal # "none" => j = Len(q.attrs) + 1 /\ r.attrs[j] = Integrity(q, Key(o))
    BY RequestLookup DEF GetAttributeByType
  <2> QED
    BY <2>1, <2>2 DEF HasMessageIntegrityAttribute
<1>3. /\ q.transid = Id(o) /\ r.field = q.field
      /\ Size(q) \in Nat /\ Len(q.attrs) \in Nat
      /\ SubSeq(r.attrs, 1, Len(q.attrs)) = q.attrs
      /\ o.seal # "none" => Len(s.attrs) = Len(q.attrs) + 1 /\ Size(s) = Size(q) + 24
      /\ IF o.fingerprint
           THEN end = Len(s.attrs) + 1 /\ r.length = Size(s) - 12
                /\ r.attrs[Len(s.attrs) + 1] = Fingerprint(s)
           ELSE end = Len(s.attrs) /\ r.length = Size(s) - 20
  BY RequestPlaces
<1> HIDE DEF r, q, s, j, end
<1>4. CASE o.seal = "none"
  BY <1>2, <1>4 DEF ValidateMessageIntegrity, r
<1>5. CASE o.seal # "none"
  <2> DEFINE len == Len(q.attrs)
             size == Size(q)
             all == r.length
  <2>0. /\ j = len + 1 /\ len \in Nat /\ size \in Nat
        /\ IF o.fingerprint THEN end = len + 2 /\ all = size + 12 /\ r.attrs[end] = Fingerprint(s)
           ELSE end = len + 1 /\ all = size + 4
    <3>1. /\ j = len + 1 /\ len \in Nat /\ size \in Nat /\ Len(s.attrs) = len + 1
          /\ Size(s) = size + 24
      BY <1>2, <1>3, <1>5
    <3>2. CASE o.fingerprint
      <4>1. end = Len(s.attrs) + 1 /\ all = Size(s) - 12
            /\ r.attrs[Len(s.attrs) + 1] = Fingerprint(s)
        BY <1>3, <3>2
      <4> HIDE DEF len, size, all
      <4> QED
        BY <3>1, <3>2, <4>1
    <3>3. CASE ~o.fingerprint
      <4>1. end = Len(s.attrs) /\ all = Size(s) - 20
        BY <1>3, <3>3
      <4> HIDE DEF len, size, all
      <4> QED
        BY <3>1, <3>3, <4>1
    <3> QED
      BY <3>2, <3>3
  <2> HIDE DEF len, size, all
  <2>1. /\ j - 1 = len /\ z = size + 4
        /\ j = end \/ (j = end - 1 /\ r.attrs[end].type = "FINGERPRINT")
    <3>1. CASE o.fingerprint
      <4>1. Fingerprint(s).type = "FINGERPRINT"
        BY AttrFields DEF Fingerprint
      <4>2. j = end - 1 /\ j # end /\ r.attrs[end].type = "FINGERPRINT" /\ j - 1 = len
        BY <2>0, <3>1, <4>1
      <4>3. z = all - 8
        BY <4>2 DEF all
      <4> HIDE DEF z
      <4> QED
        BY <2>0, <3>1, <4>2, <4>3
    <3>2. CASE ~o.fingerprint
      <4>1. j = end /\ j - 1 = len
        BY <2>0, <3>2
      <4>2. z = all - 0
        BY <4>1 DEF all
      <4> HIDE DEF z
      <4> QED
        BY <2>0, <3>2, <4>1, <4>2
    <3> QED
      BY <3>1, <3>2
  <2>2. /\ r.attrs[j].size = 20
        /\ r.attrs[j].value = HMAC(Key(o), Covers(q, Size(q) + 4))
    BY <1>2, <1>5, AttrFields DEF Integrity
  <2> HIDE DEF z
  <2>3. Text(r, z, j - 1) = <<q.field, Size(q) + 4, Arrived(o), q.attrs>>
    BY <1>1, <1>3, <2>1 DEF Text, len, size
  <2>4. ValidateMessageIntegrity(r, key) <=> r.attrs[j].value = HMAC(key, Text(r, z, j - 1))
    BY <1>1, <1>2, <1>5, <2>1, <2>2 DEF ValidateMessageIntegrity, j, end, z
  <2>5. <<q.field, Size(q) + 4, Arrived(o), q.attrs>> = Covers(q, Size(q) + 4) <=> ~o.tampered
    BY <1>3, SameText
  <2> DEFINE t1 == Covers(q, Size(q) + 4)
             t2 == <<q.field, Size(q) + 4, Arrived(o), q.attrs>>
  <2>6. HMAC(Key(o), t1) = HMAC(key, t2) <=> Key(o) = key /\ t1 = t2
    BY Digests
  <2> HIDE DEF t1, t2
  <2>7. ValidateMessageIntegrity(r, key) <=> Key(o) = key /\ t1 = t2
    BY <2>2, <2>3, <2>4, <2>6 DEF t1, t2
  <2>8. t1 = t2 <=> ~o.tampered
    BY <2>5 DEF t1, t2
  <2> QED
    BY <1>5, <2>7, <2>8 DEF r
<1> QED
  BY <1>4, <1>5

LEMMA RequestPrint ==
  ASSUME NEW o, Option(o)
  PROVE  IsFingerprintAttributeValid(Read(Carried(o))) <=> o.fingerprint /\ ~o.tampered
<1> DEFINE r == Read(Carried(o))
           s == SealedRequest(o)
           a == GetAttributeByType(r, "FINGERPRINT")
<1>1. r.state = "BodyValidated" /\ r.transid = Arrived(o)
  BY RequestRead
<1>2. /\ HasAttribute(r, "FINGERPRINT") <=> o.fingerprint
      /\ o.fingerprint => a = Fingerprint(s)
  BY RequestLookup
<1>3. /\ s.transid = Id(o) /\ r.field = s.field
      /\ Size(s) \in Nat /\ Len(s.attrs) \in Nat
      /\ SubSeq(r.attrs, 1, Len(s.attrs)) = s.attrs
      /\ o.fingerprint => Len(r.attrs) = Len(s.attrs) + 1 /\ r.length = Size(s) - 12
  BY RequestPlaces
<1> HIDE DEF r, s, a
<1>4. CASE ~o.fingerprint
  BY <1>2, <1>4 DEF IsFingerprintAttributeValid, r
<1>5. CASE o.fingerprint
  <2> DEFINE t == Text(r, r.length, Len(r.attrs) - 1)
             t1 == Covers(s, Size(s) - 12)
  <2>1. t = <<s.field, Size(s) - 12, Arrived(o), s.attrs>>
    <3>1. Len(r.attrs) - 1 = Len(s.attrs)
      BY <1>3, <1>5
    <3> QED
      BY <1>1, <1>3, <1>5, <3>1 DEF Text
  <2>2. a.size = 4 /\ a.value = CRC(t1)
    BY <1>2, <1>5, AttrFields DEF Fingerprint
  <2>3. t = t1 <=> ~o.tampered
    BY <1>3, <2>1, SameText, ZenonT(30), SMTT(60)
  <2> HIDE DEF t, t1
  <2>4. IsFingerprintAttributeValid(r) <=> a.value = CRC(t)
    BY <1>1, <1>2, <1>5, <2>2 DEF IsFingerprintAttributeValid, a, t
  <2>5. CRC(t1) = CRC(t) <=> t1 = t
    BY Digests
  <2> QED
    BY <1>5, <2>2, <2>3, <2>4, <2>5 DEF r
<1> QED
  BY <1>4, <1>5

\* A client that the server knows, sealing in the short term way.
Good(o) == o.user \in User /\ o.right /\ o.seal = "short" /\ ~o.tampered

\* What is refused, and what passes.
LEMMA Judgement ==
  ASSUME NEW r, NEW v
  PROVE  LET a == Judge(r, v)
         IN  /\ v.type = "StaleNonce" => a.error = STALENONCE
             /\ v.type = "Unauthorized" => a.error = UNAUTHORIZED
             /\ v.type = "Reject" => a.error = BADREQUEST
             /\ v.type = "AllowConditional" =>
                  IF Sealed(r, v)
                    THEN a.error = 0 /\ a.long = (v.mech = "long") /\ a.password = v.password
                    ELSE a.error = UNAUTHORIZED
<1>1. ASSUME NEW error PROVE Refused(error, v).error = error
  BY DEF Refused, Passed
<1>2. ASSUME NEW long, NEW user, NEW realm, NEW password
      PROVE  LET a == Passed(long, user, realm, password)
             IN  a.error = 0 /\ a.long = long /\ a.password = password
  BY DEF Passed
<1>3. CASE v.type = "StaleNonce"
  BY <1>1, <1>3 DEF Judge
<1>4. CASE v.type = "Unauthorized"
  BY <1>1, <1>4 DEF Judge
<1>5. CASE v.type = "Reject"
  BY <1>1, <1>5 DEF Judge
<1>6. CASE v.type = "AllowConditional"
  <2> DEFINE long == v.mech = "long"
             name == GetStringAttributeByType(r, "USERNAME")
             realm == GetStringAttributeByType(r, "REALM")
  <2>1. Judge(r, v) = IF Sealed(r, v) THEN Passed(long, name, realm, v.password)
                      ELSE Refused(UNAUTHORIZED, v)
    BY <1>6 DEF Judge
  <2> HIDE DEF long, name, realm
  <2>2. CASE Sealed(r, v)
    <3>1. Judge(r, v) = Passed(long, name, realm, v.password)
      BY <2>1, <2>2
    <3> QED
      BY <1>2, <1>6, <2>2, <3>1 DEF long
  <2>3. CASE ~Sealed(r, v)
    <3>1. Judge(r, v) = Refused(UNAUTHORIZED, v)
      BY <2>1, <2>3
    <3> QED
      BY <1>1, <1>6, <2>3, <3>1
  <2> QED
    BY <2>2, <2>3
<1> QED
  BY <1>3, <1>4, <1>5, <1>6

LEMMA VerdictFields ==
  ASSUME NEW type, NEW mech, NEW password, NEW nonce
  PROVE  LET v == Verdict(type, mech, password, nonce)
         IN  v.type = type /\ v.mech = mech /\ v.password = password
  BY DEF Verdict

LEMMA Passwords ==
  ASSUME NEW user
  PROVE  /\ PasswordOf(user) # <<>> /\ PasswordOf(user) # <<"guess">>
         /\ \A text : PasswordOf(user) # MD5(text)
  BY DEF PasswordOf, MD5

\* The user's name as the providers get it.
LEMMA RequestUser ==
  ASSUME NEW o, Option(o)
  PROVE  LET name == GetStringAttributeByType(Read(Carried(o)), "USERNAME")
         IN  name \in {<<>>, o.user} /\ (name \in User <=> o.user \in User)
<1> DEFINE r == Read(Carried(o))
           a == GetAttributeByType(r, "USERNAME")
           name == GetStringAttributeByType(r, "USERNAME")
<1>1. /\ HasAttribute(r, "USERNAME") <=> o.user # <<>>
      /\ o.user # <<>> => a.value = o.user /\ a.size \in Nat /\ (Len(o.user) = 1 => a.size <= 8)
  BY RequestLookup
<1> HIDE DEF r, a
<1>2. \A u \in User : Len(u) = 1 /\ u # <<>>
  BY DEF User
<1>3. name \in {<<>>, o.user}
  BY <1>1 DEF GetStringAttributeByType, a
<1>4. ASSUME o.user \in User PROVE name = o.user
  <2>1. a.size <= MaxAuthString
    BY <1>1, <1>2, <1>4 DEF MaxAuthString
  <2> QED
    BY <1>1, <1>2, <1>4, <2>1 DEF GetStringAttributeByType, a
<1>5. <<>> \notin User
  BY <1>2
<1> HIDE DEF name
<1> QED
  BY <1>3, <1>4, <1>5 DEF name, r

\* Under the short term provider a good client passes, and nobody else.
LEMMA ShortTerm ==
  ASSUME NEW o, Option(o), NEW m, m.reader = Read(Carried(o)), NEW now
  PROVE  LET a == ValidateAuth(m, "short", now)
         IN  /\ a.error \in {0, BADREQUEST, UNAUTHORIZED}
             /\ a.error = 0 <=> Good(o)
             /\ Good(o) => a.long = FALSE /\ a.password = PasswordOf(o.user)
<1> DEFINE r == Read(Carried(o))
           name == GetStringAttributeByType(r, "USERNAME")
           password == LookupPassword(FALSE, name, <<>>)
           type == IF ~HasMessageIntegrityAttribute(r) THEN "Reject"
                   ELSE IF password # <<>> THEN "AllowConditional" ELSE "Unauthorized"
           v == Verdict(type, "short", password, <<>>)
           a == ValidateAuth(m, "short", now)
<1>1. a = Judge(r, v)
  BY DEF ValidateAuth, DoAuthCheck, ShortTermAuthCheck
<1>2. name \in {<<>>, o.user} /\ (name \in User <=> o.user \in User)
  BY RequestUser
<1>3. HasMessageIntegrityAttribute(r) <=> o.seal # "none"
  BY RequestLookup DEF HasMessageIntegrityAttribute
<1>4. /\ o.user \in User => password = PasswordOf(o.user) /\ password # <<>>
      /\ o.user \notin User => password = <<>>
  <2> HIDE DEF name
  <2>1. <<>> \notin User
    <3>1. \A u \in User : Len(u) = 1
      BY DEF User
    <3> QED
      BY <3>1
  <2>2. o.user \in User => name = o.user
    BY <1>2, <2>1
  <2>3. o.user \in User => password = PasswordOf(o.user)
    BY <1>2, <2>2 DEF LookupPassword
  <2>4. o.user \notin User => password = <<>>
    BY <1>2 DEF LookupPassword
  <2> QED
    BY <2>3, <2>4, Passwords
<1> HIDE DEF password
<1>5. v.type = type /\ v.mech = "short" /\ v.password = password
  BY VerdictFields
<1> HIDE DEF v, a, r
<1>6. CASE o.seal = "none"
  <2>1. type = "Reject"
    BY <1>3, <1>6
  <2>2. a.error = BADREQUEST
    BY <1>1, <1>5, <2>1, Judgement
  <2> QED
    BY <1>6, <2>2 DEF Good, BADREQUEST, a
<1>7. CASE o.seal # "none" /\ o.user \notin User
  <2>1. type = "Unauthorized"
    BY <1>3, <1>4, <1>7
  <2>2. a.error = UNAUTHORIZED
    BY <1>1, <1>5, <2>1, Judgement
  <2> QED
    BY <1>7, <2>2 DEF Good, UNAUTHORIZED, a
<1>8. CASE o.seal # "none" /\ o.user \in User
  <2>1. type = "AllowConditional"
    BY <1>3, <1>4, <1>8
  <2>2. IF Sealed(r, v) THEN a.error = 0 /\ a.long = (v.mech = "long") /\ a.password = v.password
        ELSE a.error = UNAUTHORIZED
    BY <1>1, <1>5, <2>1, Judgement
  <2>3. Sealed(r, v) <=> ValidateMessageIntegrity(r, password)
    BY <1>4, <1>5, <1>8 DEF Sealed, ValidateMessageIntegrityShort
  <2>4. Sealed(r, v) <=> password = Key(o) /\ ~o.tampered
    <3>1. ValidateMessageIntegrity(r, password) <=>
            o.seal # "none" /\ password = Key(o) /\ ~o.tampered
      BY RequestSeal DEF r
    <3> QED
      BY <1>8, <2>3, <3>1
  <2>5. password = Key(o) <=> o.seal = "short" /\ o.right
    <3>1. CASE o.seal = "long"
      BY <1>4, <1>8, <3>1, Passwords DEF Key
    <3>2. CASE o.seal = "short"
      <4>1. Key(o) = IF o.right THEN PasswordOf(o.user) ELSE <<"guess">>
        BY <3>2 DEF Key, PasswordUsed
      <4> QED
        BY <1>4, <1>8, <3>2, <4>1, Passwords
    <3> QED
      BY <1>8, <3>1, <3>2 DEF Option
  <2>6. Sealed(r, v) <=> Good(o)
    BY <1>8, <2>4, <2>5 DEF Good
  <2>7. CASE Good(o)
    <3>1. a.error = 0 /\ a.long = (v.mech = "long") /\ a.password = v.password
      BY <2>2, <2>6, <2>7
    <3>2. a.long = FALSE
      <4>1. v.mech # "long"
        BY <1>5
      <4> QED
        BY <3>1, <4>1
    <3> QED
      BY <1>4, <1>5, <1>8, <2>7, <3>1, <3>2 DEF a
  <2>8. CASE ~Good(o)
    BY <2>2, <2>6, <2>8 DEF UNAUTHORIZED, a
  <2> QED
    BY <2>7, <2>8
<1> QED
  BY <1>6, <1>7, <1>8

\* Under the long term provider nobody passes: the password is looked up
\* under the nonce for the realm.
LEMMA LongTerm ==
  ASSUME NEW o, Option(o), NEW m, m.reader = Read(Carried(o)), NEW now
  PROVE  ValidateAuth(m, "long", now).error \in {UNAUTHORIZED, STALENONCE}
<1> DEFINE r == Read(Carried(o))
           name == GetStringAttributeByType(r, "USERNAME")
           nonce == GetStringAttributeByType(r, "NONCE")
           password == LookupPassword(TRUE, name, nonce)
           type == IF \/ ~HasMessageIntegrityAttribute(r) \/ nonce = <<>> \/ name = <<>>
                      \/ password = <<>>                    THEN "Unauthorized"
                   ELSE IF ~ValidateNonce(nonce, now)      THEN "StaleNonce"
                   ELSE "AllowConditional"
           v == Verdict(type, "long", password, CreateNonce(now))
           a == ValidateAuth(m, "long", now)
<1>1. a = Judge(r, v)
  BY DEF ValidateAuth, DoAuthCheck, LongTermAuthCheck
<1>2. nonce = Realm => ~ValidateNonce(nonce, now)
  <2>1. Len(Realm) = 1
    BY DEF Realm
  <2> QED
    BY <2>1 DEF ValidateNonce
<1>3. nonce # Realm => password = <<>>
  <2> HIDE DEF nonce, name
  <2> QED
    BY DEF LookupPassword
<1>4. type \in {"Unauthorized", "StaleNonce"}
  <2> HIDE DEF nonce, name, password, r
  <2> QED
    BY <1>2, <1>3
<1> HIDE DEF type, password
<1>5. v.type = type
  BY VerdictFields
<1> HIDE DEF v, a, r
<1>6. a.error \in {UNAUTHORIZED, STALENONCE}
  BY <1>1, <1>4, <1>5, Judgement
<1> QED
  BY <1>6 DEF a

-----------------------------------------------------------------------------
(* The answers, written and read back.                                     *)

LEMMA ParityBack ==
  ASSUME NEW a \in Nat, NEW b \in Nat, NEW z \in Nat
  PROVE  (2 * z + ((a + b) % 2) + b) % 2 = a % 2
  OBVIOUS

\* A word comes back when it is combined twice with the same word.
LEMMA XorBack ==
  ASSUME NEW a \in Nat, NEW b \in Nat
  PROVE  Xor(Xor(a, b), b) = a
<1> DEFINE A == a \div 16
           a8 == a \div 8
           a4 == a \div 4
           a2 == a \div 2
           b8 == b \div 8
           b4 == b \div 4
           b2 == b \div 2
           p8 == (a8 + b8) % 2
           p4 == (a4 + b4) % 2
           p2 == (a2 + b2) % 2
           p1 == (a + b) % 2
           c == 16 * A + 8 * p8 + 4 * p4 + 2 * p2 + p1
<1>1. /\ A \in Nat /\ a8 \in Nat /\ a4 \in Nat /\ a2 \in Nat
      /\ b8 \in Nat /\ b4 \in Nat /\ b2 \in Nat
      /\ p8 \in 0 .. 1 /\ p4 \in 0 .. 1 /\ p2 \in 0 .. 1 /\ p1 \in 0 .. 1
  OBVIOUS
<1>2. ASSUME NEW d \in Nat
      PROVE  Xor(d, b) = 16 * (d \div 16) + 8 * ((d \div 8 + b8) % 2)
                           + 4 * ((d \div 4 + b4) % 2) + 2 * ((d \div 2 + b2) % 2) + ((d + b) % 2)
  <2>1. d \div 1 = d /\ b \div 1 = b
    OBVIOUS
  <2>2. 1 * ((d + b) % 2) = (d + b) % 2
    OBVIOUS
  <2> QED
    BY <2>1, <2>2 DEF Xor
<1>3. Xor(a, b) = c
  BY <1>2
<1>4. a = 16 * A + 8 * (a8 % 2) + 4 * (a4 % 2) + 2 * (a2 % 2) + (a % 2)
  <2>1. a8 = 2 * A + (a8 % 2)
    OBVIOUS
  <2>2. a4 = 2 * a8 + (a4 % 2)
    OBVIOUS
  <2>3. a2 = 2 * a4 + (a2 % 2)
    OBVIOUS
  <2>4. a = 2 * a2 + (a % 2)
    OBVIOUS
  <2> DEFINE q8 == a8 % 2
             q4 == a4 % 2
             q2 == a2 % 2
             q1 == a % 2
  <2>5. q8 \in Nat /\ q4 \in Nat /\ q2 \in Nat /\ q1 \in Nat
    OBVIOUS
  <2> HIDE DEF A, a8, a4, a2, q8, q4, q2, q1
  <2>6. a8 = 2 * A + q8 /\ a4 = 2 * a8 + q4 /\ a2 = 2 * a4 + q2 /\ a = 2 * a2 + q1
    BY <2>1, <2>2, <2>3, <2>4 DEF q8, q4, q2, q1
  <2>7. a = 16 * A + 8 * q8 + 4 * q4 + 2 * q2 + q1
    BY <1>1, <2>5, <2>6
  <2> QED
    BY <2>7 DEF q8, q4, q2, q1
<1> HIDE DEF c
<1>5. /\ c \in Nat /\ c \div 16 = A /\ c \div 8 = 2 * A + p8
      /\ c \div 4 = 2 * (2 * A + p8) + p4
      /\ c \div 2 = 2 * (4 * A + 2 * p8 + p4) + p2
      /\ c = 2 * (8 * A + 4 * p8 + 2 * p4 + p2) + p1
  <2> HIDE DEF A, p8, p4, p2, p1
  <2> QED
    BY <1>1 DEF c
<1>6. /\ (2 * A + p8 + b8) % 2 = a8 % 2
      /\ (2 * (2 * A + p8) + p4 + b4) % 2 = a4 % 2
      /\ (2 * (4 * A + 2 * p8 + p4) + p2 + b2) % 2 = a2 % 2
      /\ (2 * (8 * A + 4 * p8 + 2 * p4 + p2) + p1 + b) % 2 = a % 2
  <2> DEFINE z2 == 2 * A + p8
             z3 == 4 * A + 2 * p8 + p4
             z4 == 8 * A + 4 * p8 + 2 * p4 + p2
  <2>1. z2 \in Nat /\ z3 \in Nat /\ z4 \in Nat
    <3> HIDE DEF A, p8, p4, p2
    <3> QED
      BY <1>1
  <2> HIDE DEF A, z2, z3, z4, a8, a4, a2, b8, b4, b2
  <2>2. (2 * A + p8 + b8) % 2 = a8 % 2
    BY <1>1, ParityBack
  <2>3. (2 * z2 + p4 + b4) % 2 = a4 % 2
    BY <1>1, <2>1, ParityBack
  <2>4. (2 * z3 + p2 + b2) % 2 = a2 % 2
    BY <1>1, <2>1, ParityBack
  <2>5. (2 * z4 + p1 + b) % 2 = a % 2
    BY <1>1, <2>1, ParityBack
  <2> QED
    BY <2>2, <2>3, <2>4, <2>5 DEF z2, z3, z4
<1>7. Xor(c, b) = 16 * (c \div 16) + 8 * ((c \div 8 + b8) % 2)
                    + 4 * ((c \div 4 + b4) % 2) + 2 * ((c \div 2 + b2) % 2) + ((c + b) % 2)
  BY <1>2, <1>5
<1> HIDE DEF A, a8, a4, a2, b8, b4, b2, p8, p4, p2, p1
<1>8. /\ (c \div 8 + b8) % 2 = a8 % 2 /\ (c \div 4 + b4) % 2 = a4 % 2
      /\ (c \div 2 + b2) % 2 = a2 % 2 /\ (c + b) % 2 = a % 2
  BY <1>5, <1>6
<1> QED
  BY <1>3, <1>4, <1>5, <1>7, <1>8

LEMMA XorNat ==
  ASSUME NEW a \in Nat, NEW b \in Nat
  PROVE  Xor(a, b) \in Nat
<1>1. /\ a \div 16 \in Nat /\ a \div 1 + b \div 1 \in Nat /\ a \div 2 + b \div 2 \in Nat
      /\ a \div 4 + b \div 4 \in Nat /\ a \div 8 + b \div 8 \in Nat
  OBVIOUS
<1>2. \A m \in Nat : m % 2 \in Nat
  OBVIOUS
<1> QED
  BY <1>1, <1>2 DEF Xor

LEMMA AddrFields ==
  ASSUME NEW ip, NEW port
  PROVE  Addr(ip, port).ip = ip /\ Addr(ip, port).port = port
  BY DEF Addr

\* An address comes back when it is combined twice with the same transaction
\* id.
LEMMA XorMapBack ==
  ASSUME NEW ip \in Seq(Nat), NEW port \in Nat, NEW id, id[1] \in Nat,
         \A i \in 1 .. Len(ip) : id[i] \in Nat
  PROVE  LET x == ApplyStunXorMap(Addr(ip, port), id)
         IN  Len(x.ip) = Len(ip) /\ ApplyStunXorMap(x, id) = Addr(ip, port)
<1> DEFINE q == [i \in DOMAIN ip |-> Xor(ip[i], id[i])]
           p == Xor(port, id[1])
           x == ApplyStunXorMap(Addr(ip, port), id)
<1>1. DOMAIN ip = 1 .. Len(ip) /\ Len(ip) \in Nat /\ \A i \in 1 .. Len(ip) : ip[i] \in Nat
  OBVIOUS
<1>2. x.ip = q /\ x.port = p
  BY AddrFields DEF ApplyStunXorMap
<1>3. /\ DOMAIN q = 1 .. Len(ip)
      /\ \A i \in 1 .. Len(ip) : q[i] = Xor(ip[i], id[i])
  BY <1>1
<1>4. Len(q) = Len(ip)
  <2>1. \A i \in 1 .. Len(ip) : Xor(ip[i], id[i]) \in Nat
    BY <1>1, XorNat
  <2>2. q = [i \in 1 .. Len(ip) |-> Xor(ip[i], id[i])]
    BY <1>1
  <2>3. q \in Seq(Nat)
    BY <1>1, <2>1, <2>2
  <2> HIDE DEF q
  <2> QED
    BY <1>1, <1>3, <2>3
<1> HIDE DEF q, p, x
<1>5. [i \in DOMAIN q |-> Xor(q[i], id[i])] = ip
  <2>1. \A i \in 1 .. Len(ip) : Xor(q[i], id[i]) = ip[i]
    BY <1>1, <1>3, XorBack
  <2>2. ip = [i \in 1 .. Len(ip) |-> ip[i]]
    BY <1>1
  <2> QED
    BY <1>3, <2>1, <2>2
<1>6. Xor(p, id[1]) = port
  BY XorBack DEF p
<1>7. ApplyStunXorMap(x, id) = Addr(ip, port)
  BY <1>2, <1>5, <1>6 DEF ApplyStunXorMap
<1> QED
  BY <1>2, <1>4, <1>7 DEF x

\* An address of one word or of four, written.
LEMMA AddressAdded ==
  ASSUME NEW b, Msg(b), NEW type, NEW x, Len(x.ip) \in {1, 4}
  PROVE  LET size == 4 + 4 * Len(x.ip)
             a == Attr(type, size, size, x)
         IN  /\ Longer(b, AddMappedAddressImpl(b, type, x), a)
             /\ a.type = type /\ a.value = x /\ a.size = size /\ a.bytes \in Nat /\ a.bytes <= 20
<1> DEFINE size == 4 + 4 * Len(x.ip)
           a == Attr(type, size, size, x)
           c == AddMappedAddressImpl(b, type, x)
<1>1. size \in {8, 20}
  <2>1. CASE Len(x.ip) = 1
    BY <2>1
  <2>2. CASE Len(x.ip) = 4
    BY <2>2
  <2> QED
    BY <2>1, <2>2
<1>2. c = Append1(b, a)
  BY DEF AddMappedAddressImpl
<1> HIDE DEF size, c
<1>3. size \in 0 .. MaxAttribute /\ RoundUp4(size) = size /\ size \in Nat /\ size <= 20
  BY <1>1 DEF RoundUp4, MaxAttribute
<1>4. a.type = type /\ a.value = x /\ a.size = size /\ a.bytes = size
  BY AttrFields
<1> HIDE DEF a
<1>5. AttrOk(a)
  BY <1>3, <1>4 DEF AttrOk
<1>6. Longer(b, c, a)
  BY <1>2, <1>5, AppendMsg DEF Longer
<1> QED
  BY <1>3, <1>4, <1>6 DEF a, c, size

\* A message on the way to an answer of that class for the request.
Reply(o, class, b, count, size) ==
  /\ Room(b, count, size) /\ b.legacy = o.legacy /\ b.transid = Arrived(o)
  /\ b.field = IF class = 2 THEN 257 ELSE 273

LEMMA ReplyGrows ==
  ASSUME NEW o, NEW class, NEW b, NEW count \in Nat, NEW size \in Nat,
         Reply(o, class, b, count, size), NEW c, NEW a, Longer(b, c, a), a.bytes \in Nat,
         NEW more \in Nat, count + 1 <= more, NEW room \in Nat, size + 4 + a.bytes <= room
  PROVE  Reply(o, class, c, more, room)
<1>1. Room(c, more, room)
  BY RoomGrows DEF Reply
<1>2. c.legacy = b.legacy /\ c.transid = b.transid /\ c.field = b.field
  BY DEF Longer
<1> QED
  BY <1>1, <1>2 DEF Reply

LEMMA ReplyBegun ==
  ASSUME NEW o, NEW class \in {2, 3}, NEW b,
         b = AddTransactionId(AddHeader(o.legacy, BINDING, class), Arrived(o))
  PROVE  Reply(o, class, b, 0, 20) /\ \A type : ~HasAttribute(b, type)
<1>1. class \in 0 .. 3
  OBVIOUS
<1>2. /\ Room(b, 0, 20) /\ b.legacy = o.legacy /\ b.transid = Arrived(o)
      /\ b.field = (class \div 2) * 256 + (class % 2) * 16 + 1
      /\ \A type : ~HasAttribute(b, type)
  BY <1>1, HeaderMade
<1>3. b.field = IF class = 2 THEN 257 ELSE 273
  BY <1>2
<1> QED
  BY <1>2, <1>3 DEF Reply

\* A short message, written and read back.
LEMMA ReadBack ==
  ASSUME NEW b, Room(b, 5, 200), b.field \in Fourteen
  PROVE  LET r == Parse(GetResult(b))
         IN  /\ r.state = "BodyValidated" /\ r.legacy = (b.transid[1] # STUN_COOKIE)
             /\ r.transid = b.transid /\ r.type = TypeOf(b.field) /\ r.class = ClassOf(b.field)
             /\ r.attrs = b.attrs /\ r.length = Size(b) - HeaderSize /\ r.field = b.field
<1> DEFINE w == GetResult(b)
           r == Parse(w)
<1>1. Msg(b) /\ Len(b.attrs) <= 5 /\ Size(b) <= 200
  BY DEF Room
<1>2. /\ Msg(w) /\ w.attrs = b.attrs /\ w.transid = b.transid /\ w.field = b.field
      /\ Size(w) = Size(b) /\ w.length = Size(w) - HeaderSize
  BY <1>1, FixedMsg DEF GetResult
<1>3. Size(b) \in Nat /\ Len(b.attrs) \in Nat
  BY <1>1, MsgSize
<1> HIDE DEF w
<1>4. WellFormed(w)
  <2>1. w.length <= MaxMessage /\ Len(w.attrs) <= MaxNumAttributes
    <3> DEFINE z == Size(b)
               m == Len(b.attrs)
    <3>1. z \in Nat /\ m \in Nat /\ m <= 5 /\ z <= 200
          /\ w.length = z - HeaderSize /\ Len(w.attrs) = m
      BY <1>1, <1>2, <1>3
    <3> HIDE DEF z, m
    <3> QED
      BY <3>1 DEF MaxMessage, MaxNumAttributes, HeaderSize
  <2> QED
    BY <1>2, <2>1 DEF WellFormed
<1>5. r = Read(w)
  BY <1>4, ParseKnown DEF Read
<1> HIDE DEF r
<1>6. /\ r.state = "BodyValidated" /\ r.length = w.length
      /\ r.legacy = (w.transid[1] # STUN_COOKIE) /\ r.transid = w.transid
      /\ r.type = TypeOf(w.field) /\ r.class = ClassOf(w.field)
      /\ r.attrs = w.attrs /\ r.field = w.field
  BY <1>4, <1>5, ReadFields
<1> QED
  BY <1>2, <1>6 DEF r, w

\* What a client reads in the answer.
LEMMA ReplyRead ==
  ASSUME NEW o, Option(o), NEW class \in {2, 3}, NEW b, Reply(o, class, b, 5, 200)
  PROVE  LET r == Parse(GetResult(b))
         IN  /\ r.state = "BodyValidated" /\ r.legacy = o.legacy /\ r.transid = Arrived(o)
             /\ r.class = class /\ r.attrs = b.attrs /\ r.length = Size(b) - HeaderSize
             /\ r.field = b.field
<1> DEFINE r == Parse(GetResult(b))
<1>1. Room(b, 5, 200) /\ b.transid = Arrived(o) /\ b.field = IF class = 2 THEN 257 ELSE 273
  BY DEF Reply
<1>2. b.field \in Fourteen
  BY <1>1 DEF Fourteen
<1>3. /\ r.state = "BodyValidated" /\ r.legacy = (b.transid[1] # STUN_COOKIE)
      /\ r.transid = b.transid /\ r.class = ClassOf(b.field)
      /\ r.attrs = b.attrs /\ r.length = Size(b) - HeaderSize /\ r.field = b.field
  BY <1>1, <1>2, ReadBack
<1> HIDE DEF r
<1>4. ClassOf(257) = 2 /\ ClassOf(273) = 3
  BY DEF ClassOf
<1>5. r.class = class
  <2>1. CASE class = 2
    BY <1>1, <1>3, <1>4, <2>1
  <2>2. CASE class = 3
    BY <1>1, <1>3, <1>4, <2>2
  <2> QED
    BY <2>1, <2>2
<1>6. (b.transid[1] # STUN_COOKIE) = o.legacy
  BY <1>1, ArrivedLegacy
<1> QED
  BY <1>1, <1>3, <1>5, <1>6 DEF r

LEMMA RemoteFields ==
  ASSUME NEW o
  PROVE  /\ Len(Remote(o).ip) \in {1, 4}
         /\ LET x == ApplyStunXorMap(Remote(o), Arrived(o))
            IN  Len(x.ip) = Len(Remote(o).ip) /\ ApplyStunXorMap(x, Arrived(o)) = Remote(o)
<1> DEFINE ip == IF o.ip6 THEN <<1, 2, 0, 3>> ELSE <<6>>
<1>1. ip \in Seq(Nat) /\ Len(ip) \in {1, 4}
  <2>1. CASE o.ip6
    BY <2>1
  <2>2. CASE ~o.ip6
    BY <2>2
  <2> QED
    BY <2>1, <2>2
<1>2. \A i \in {1, 2, 3, 4} : Arrived(o)[i] \in Nat
  BY DEF Arrived, STUN_COOKIE
<1>3. Arrived(o)[1] \in Nat /\ \A i \in 1 .. Len(ip) : Arrived(o)[i] \in Nat
  <2> HIDE DEF ip
  <2> DEFINE len == Len(ip)
  <2>1. len \in {1, 4}
    BY <1>1
  <2> HIDE DEF len
  <2>2. \A i \in 1 .. len : i \in {1, 2, 3, 4}
    BY <2>1
  <2>3. 1 \in {1, 2, 3, 4}
    OBVIOUS
  <2> QED
    BY <1>2, <2>2, <2>3 DEF len
<1>4. Remote(o) = Addr(ip, 7)
  BY DEF Remote
<1> HIDE DEF ip
<1>5. Remote(o).ip = ip
  BY <1>4, AddrFields
<1> QED
  BY <1>1, <1>3, <1>4, <1>5, XorMapBack

\* The name that the address goes by, as the request's format wants it.
XorType(o) == IF o.legacy THEN "XORMAPPED_OPTIONAL" ELSE "XORMAPPED"

\* The message has the attribute with that address.
Tells(b, type, x) ==
  /\ HasAttribute(b, type) /\ GetAttributeByType(b, type).value = x
  /\ GetAttributeByType(b, type).size = 4 + 4 * Len(x.ip)

\* The success before it is sealed.
Told(o) ==
  LET mapped == AddMappedAddress(AddTransactionId(
                  AddHeader(o.legacy, BINDING, 2), Arrived(o)), Remote(o))
  IN  AddXorMappedAddress(AddResponseOriginAddress(mapped, Addr(<<3>>, 2)), Remote(o))

LEMMA ToldMade ==
  ASSUME NEW o, Option(o)
  PROVE  LET b == Told(o)
         IN  /\ Reply(o, 2, b, 3, 104)
             /\ Tells(b, "MAPPED", Remote(o))
             /\ Tells(b, XorType(o), ApplyStunXorMap(Remote(o), Arrived(o)))
             /\ o.legacy => ~HasAttribute(b, "XORMAPPED")
<1> DEFINE ip == Remote(o)
           x == ApplyStunXorMap(ip, Arrived(o))
           b0 == AddTransactionId(AddHeader(o.legacy, BINDING, 2), Arrived(o))
           b1 == AddMappedAddress(b0, ip)
           home == Addr(<<3>>, 2)
           b2 == AddResponseOriginAddress(b1, home)
           b3 == AddXorMappedAddress(b2, ip)
           s1 == 4 + 4 * Len(ip.ip)
           s2 == 4 + 4 * Len(home.ip)
           s3 == 4 + 4 * Len(x.ip)
           origin == IF b1.legacy THEN "SOURCE" ELSE "ORIGIN"
           a1 == Attr("MAPPED", s1, s1, ip)
           a2 == Attr(origin, s2, s2, home)
           a3 == Attr(XorType(o), s3, s3, x)
<1>1. b3 = Told(o)
  BY DEF Told
<1>2. Len(ip.ip) \in {1, 4} /\ Len(x.ip) \in {1, 4} /\ Len(home.ip) \in {1, 4}
  BY RemoteFields, AddrFields
<1>3. Reply(o, 2, b0, 0, 20) /\ \A type : ~HasAttribute(b0, type)
  <2>1. 2 \in {2, 3}
    OBVIOUS
  <2> HIDE DEF b0
  <2> QED
    BY <2>1, ReplyBegun DEF b0
<1> HIDE DEF ip, x, b0, home
\* The client's address.
<1>4. /\ Longer(b0, b1, a1) /\ a1.type = "MAPPED" /\ a1.value = ip /\ a1.size = s1
      /\ a1.bytes \in Nat /\ a1.bytes <= 20
  BY <1>2, <1>3, AddressAdded DEF Reply, Room, AddMappedAddress
<1> HIDE DEF b1, a1
<1>5. Reply(o, 2, b1, 1, 44)
  <2>1. 20 + 4 + a1.bytes <= 44
    BY <1>4
  <2> QED
    BY <1>3, <1>4, <2>1, ReplyGrows
<1>6. Tells(b1, "MAPPED", ip) /\ \A type : HasAttribute(b1, type) => type = "MAPPED"
  BY <1>3, <1>4, LookupGrows DEF Tells, Reply, Room
\* The server's.
<1>7. /\ Longer(b1, b2, a2) /\ a2.type = origin /\ a2.bytes \in Nat /\ a2.bytes <= 20
  <2>1. b2 = AddMappedAddressImpl(b1, origin, home)
    BY DEF AddResponseOriginAddress
  <2> HIDE DEF origin, b2
  <2> QED
    BY <1>2, <1>5, <2>1, AddressAdded DEF Reply, Room
<1>8. origin \in {"SOURCE", "ORIGIN"}
  OBVIOUS
<1> HIDE DEF b2, a2, origin
<1>9. Reply(o, 2, b2, 2, 68)
  <2>1. 44 + 4 + a2.bytes <= 68
    BY <1>7
  <2> QED
    BY <1>5, <1>7, <2>1, ReplyGrows
<1>10. /\ Tells(b2, "MAPPED", ip)
       /\ \A type : HasAttribute(b2, type) => type \in {"MAPPED", "SOURCE", "ORIGIN"}
  BY <1>5, <1>6, <1>7, <1>8, LookupGrows DEF Tells, Reply, Room
\* The client's again, combined with the transaction id.
<1>11. b3 = AddMappedAddressImpl(b2, XorType(o), x)
  <2>1. b2.transid = Arrived(o) /\ b2.legacy = o.legacy
    BY <1>9 DEF Reply
  <2> QED
    BY <2>1 DEF AddXorMappedAddress, XorType, x
<1>12. XorType(o) \in {"XORMAPPED", "XORMAPPED_OPTIONAL"} /\ (o.legacy => XorType(o) # "XORMAPPED")
  BY DEF XorType
<1> HIDE DEF b3
<1>13. /\ Longer(b2, b3, a3) /\ a3.type = XorType(o) /\ a3.value = x /\ a3.size = s3
       /\ a3.bytes \in Nat /\ a3.bytes <= 20
  BY <1>2, <1>9, <1>11, AddressAdded DEF Reply, Room
<1> HIDE DEF a3
<1>14. Reply(o, 2, b3, 3, 104)
  <2>1. 68 + 4 + a3.bytes <= 104
    BY <1>13
  <2> QED
    BY <1>9, <1>13, <2>1, ReplyGrows
<1>15. /\ \A type : HasAttribute(b3, type) <=> type = XorType(o) \/ HasAttribute(b2, type)
       /\ GetAttributeByType(b3, XorType(o)) = a3
       /\ \A type : type # XorType(o) /\ HasAttribute(b2, type) =>
            GetAttributeByType(b3, type) = GetAttributeByType(b2, type)
  BY <1>9, <1>13, LookupGrows DEF Reply, Room
<1>16. Tells(b3, "MAPPED", ip)
  BY <1>10, <1>12, <1>15 DEF Tells
<1>17. Tells(b3, XorType(o), x)
  BY <1>13, <1>15 DEF Tells
<1>18. o.legacy => ~HasAttribute(b3, "XORMAPPED")
  BY <1>10, <1>12, <1>15
<1> QED
  BY <1>1, <1>14, <1>16, <1>17, <1>18 DEF ip, x

\* A reader with those attributes hands the client's address out, twice.
LEMMA AddressRead ==
  ASSUME NEW o, NEW r, r.transid = Arrived(o), Tells(r, "MAPPED", Remote(o)),
         Tells(r, XorType(o), ApplyStunXorMap(Remote(o), Arrived(o))),
         o.legacy => ~HasAttribute(r, "XORMAPPED")
  PROVE  GetMappedAddress(r) = Remote(o) /\ GetXorMappedAddress(r) = Remote(o)
<1> DEFINE ip == Remote(o)
           x == ApplyStunXorMap(ip, Arrived(o))
<1>1. Len(ip.ip) \in {1, 4} /\ Len(x.ip) \in {1, 4} /\ ApplyStunXorMap(x, Arrived(o)) = ip
  BY RemoteFields
<1> HIDE DEF ip, x
<1>2. ASSUME NEW type, NEW y, Tells(r, type, y), Len(y.ip) \in {1, 4}
      PROVE  GetAddressHelper(r, type) = y
  <2> DEFINE z == 4 + 4 * Len(y.ip)
  <2>1. z \in Nat
    BY <1>2
  <2>2. z >= z
    <3> HIDE DEF z
    <3> QED
      BY <2>1
  <2> QED
    BY <1>2, <2>2 DEF GetAddressHelper, Tells
<1>3. GetMappedAddress(r) = ip
  BY <1>1, <1>2 DEF GetMappedAddress, ip
<1>4. GetAddressHelper(r, XorType(o)) = x
  BY <1>1, <1>2 DEF x, ip
<1>5. x # NoAddr
  <2>1. Len(NoAddr.ip) = 0
    BY AddrFields DEF NoAddr
  <2> QED
    BY <1>1, <2>1, SMTT(60)
<1>6. FirstOf(r, "XORMAPPED", "XORMAPPED_OPTIONAL") = x
  <2>1. CASE o.legacy
    <3>1. GetAddressHelper(r, "XORMAPPED") = NoAddr
      BY <2>1 DEF GetAddressHelper
    <3> QED
      BY <1>4, <2>1, <3>1 DEF FirstOf, XorType
  <2>2. CASE ~o.legacy
    BY <1>4, <1>5, <2>2 DEF FirstOf, XorType
  <2> QED
    BY <2>1, <2>2
<1>7. GetXorMappedAddress(r) = ip
  BY <1>1, <1>5, <1>6 DEF GetXorMappedAddress
<1> QED
  BY <1>3, <1>7 DEF ip

\* What a client reads in a success, sealed or not.
LEMMA SuccessRead ==
  ASSUME NEW o, Option(o), NEW a, a.password # <<>> => ~a.long
  PROVE  LET r == Parse(GetResult(WithSeal(Told(o), a)))
         IN  /\ r.state = "BodyValidated" /\ r.legacy = o.legacy /\ r.transid = Arrived(o)
             /\ r.class = 2
             /\ GetMappedAddress(r) = Remote(o) /\ GetXorMappedAddress(r) = Remote(o)
             /\ a.password # <<>> => ValidateMessageIntegrityShort(r, a.password)
<1> DEFINE b == Told(o)
           d == WithSeal(b, a)
           r == Parse(GetResult(d))
           e == Attr("MESSAGEINTEGRITY", 20, 20, HMAC(a.password, Covers(b, Size(b) + 4)))
           x == ApplyStunXorMap(Remote(o), Arrived(o))
           sealed == a.password # <<>>
<1>1. /\ Reply(o, 2, b, 3, 104) /\ Tells(b, "MAPPED", Remote(o)) /\ Tells(b, XorType(o), x)
      /\ o.legacy => ~HasAttribute(b, "XORMAPPED")
  BY ToldMade
<1>2. Msg(b) /\ Size(b) \in Nat /\ Len(b.attrs) \in Nat
  BY <1>1, MsgSize DEF Reply, Room
<1>3. e.type = "MESSAGEINTEGRITY" /\ e.size = 20 /\ e.bytes = 20
      /\ e.value = HMAC(a.password, Covers(b, Size(b) + 4))
  BY AttrFields
<1>4. sealed => d = AddMessageIntegrityImpl(b, a.password)
  BY DEF WithSeal, AddMessageIntegrityShortTerm
<1>5. ~sealed => d = b
  BY DEF WithSeal
<1>6. sealed => Longer(b, d, e)
  <2> HIDE DEF b, d
  <2> QED
    BY <1>2, <1>4, IntegrityAdded
<1> HIDE DEF b, d, e, x, sealed
<1>7. Reply(o, 2, d, 5, 200)
  <2>1. CASE sealed
    <3>1. 104 + 4 + e.bytes <= 200 /\ e.bytes \in Nat
      BY <1>3
    <3> QED
      BY <1>1, <1>6, <2>1, <3>1, ReplyGrows
  <2>2. CASE ~sealed
    <3>1. Room(d, 5, 200)
      BY <1>1, <1>5, <2>2, RoomWider DEF Reply
    <3> QED
      BY <1>1, <1>5, <2>2, <3>1 DEF Reply
  <2> QED
    BY <2>1, <2>2
<1>8. /\ r.state = "BodyValidated" /\ r.legacy = o.legacy /\ r.transid = Arrived(o)
      /\ r.class = 2 /\ r.attrs = d.attrs /\ r.length = Size(d) - HeaderSize /\ r.field = d.field
  <2>1. 2 \in {2, 3}
    OBVIOUS
  <2> QED
    BY <1>7, <2>1, ReplyRead
<1> HIDE DEF r
<1>9. \A type : /\ HasAttribute(r, type) = HasAttribute(d, type)
                /\ IndexOf(r, type) = IndexOf(d, type)
                /\ GetAttributeByType(r, type) = GetAttributeByType(d, type)
  BY <1>8, SameLookup
<1>10. /\ Tells(d, "MAPPED", Remote(o)) /\ Tells(d, XorType(o), x)
       /\ o.legacy => ~HasAttribute(d, "XORMAPPED")
  <2>1. CASE sealed
    <3>1. /\ \A type : HasAttribute(d, type) <=> type = "MESSAGEINTEGRITY" \/ HasAttribute(b, type)
          /\ \A type : type # "MESSAGEINTEGRITY" /\ HasAttribute(b, type) =>
               GetAttributeByType(d, type) = GetAttributeByType(b, type)
      BY <1>2, <1>3, <1>6, <2>1, LookupGrows
    <3>2. XorType(o) # "MESSAGEINTEGRITY"
      BY DEF XorType
    <3> QED
      BY <1>1, <3>1, <3>2 DEF Tells
  <2>2. CASE ~sealed
    BY <1>1, <1>5, <2>2
  <2> QED
    BY <2>1, <2>2
<1>11. GetMappedAddress(r) = Remote(o) /\ GetXorMappedAddress(r) = Remote(o)
  <2>1. /\ Tells(r, "MAPPED", Remote(o)) /\ Tells(r, XorType(o), x)
        /\ o.legacy => ~HasAttribute(r, "XORMAPPED")
    BY <1>9, <1>10 DEF Tells
  <2> QED
    BY <1>8, <2>1, AddressRead DEF x
<1>12. ASSUME sealed PROVE ValidateMessageIntegrity(r, a.password)
  <2> DEFINE len == Len(b.attrs)
  <2>1. /\ d.attrs = Append(b.attrs, e) /\ Len(d.attrs) = len + 1 /\ d.field = b.field
        /\ Size(d) = Size(b) + 4 + 20 /\ b.transid = Arrived(o)
    BY <1>1, <1>3, <1>6, <1>12 DEF Longer, Reply
  <2>2. /\ HasAttribute(r, "MESSAGEINTEGRITY") /\ IndexOf(r, "MESSAGEINTEGRITY") = len + 1
        /\ r.attrs[len + 1] = e
    <3>1. /\ HasAttribute(d, "MESSAGEINTEGRITY") /\ IndexOf(d, "MESSAGEINTEGRITY") = len + 1
          /\ GetAttributeByType(d, "MESSAGEINTEGRITY") = e
      BY <1>2, <1>3, <1>6, <1>12, LookupGrows
    <3> QED
      BY <1>8, <1>9, <3>1 DEF GetAttributeByType
  <2>3. SubSeq(r.attrs, 1, len) = b.attrs
    <3>1. b.attrs \in Seq(ToSet(b.attrs))
      BY <1>2 DEF Msg, AttrsOk
    <3> QED
      BY <1>8, <2>1, <3>1, FrontOf
  <2>4. Len(r.attrs) = len + 1 /\ (len + 1) - 1 = len
    BY <1>2, <1>8, <2>1
  <2>5. r.length - 0 = Size(b) + 4
    BY <1>2, <1>8, <2>1 DEF HeaderSize
  <2> HIDE DEF len
  <2>6. Text(r, r.length - 0, (len + 1) - 1) = Covers(b, Size(b) + 4)
    BY <1>8, <2>1, <2>3, <2>4, <2>5 DEF Text, Covers
  <2> QED
    BY <1>3, <1>8, <2>2, <2>4, <2>6 DEF ValidateMessageIntegrity, HasMessageIntegrityAttribute
<1>13. sealed => ValidateMessageIntegrityShort(r, a.password)
  BY <1>12 DEF ValidateMessageIntegrityShort, sealed
<1> QED
  BY <1>8, <1>11, <1>13 DEF r, d, b, sealed

\* What a client reads in a refusal.
LEMMA ErrorRead ==
  ASSUME NEW o, Option(o), NEW a, a.error \in {BADREQUEST, UNAUTHORIZED, STALENONCE},
         NEW m, m.reader.legacy = o.legacy, m.reader.transid = Arrived(o),
         m.reader.type = BINDING, NEW dest
  PROVE  LET x == BuildErrorResponse(m, dest, a)
             r == Parse(x.msg)
         IN  /\ x.dest = dest /\ r.state = "BodyValidated" /\ r.legacy = o.legacy
             /\ r.transid = Arrived(o) /\ r.class = 3 /\ GetErrorCode(r) = a.error
<1> DEFINE b0 == AddTransactionId(AddHeader(o.legacy, BINDING, 3), Arrived(o))
           b1 == AddErrorCode(b0, a.error, 6)
           z2 == IF a.nonce = <<>> THEN 0 ELSE 51
           b2 == AddStringAttribute(b1, "NONCE", a.nonce, z2)
           z3 == IF a.realm = <<>> THEN 0 ELSE 17
           b3 == AddStringAttribute(b2, "REALM", a.realm, z3)
           code == <<a.error \div 100, a.error % 100>>
           x == BuildErrorResponse(m, dest, a)
           r == Parse(GetResult(b3))
           Coded(b, count, size) ==
             /\ Reply(o, 3, b, count, size) /\ HasAttribute(b, "ERRORCODE")
             /\ GetAttributeByType(b, "ERRORCODE").value = code
<1>1. x.dest = dest /\ x.msg = GetResult(b3)
  <2>1. Class.failure = 3
    BY DEF Class
  <2>2. x = Response(m.role, dest, GetResult(b3))
    BY <2>1 DEF BuildErrorResponse
  <2> HIDE DEF x, b3
  <2> QED
    BY <2>2 DEF Response
<1>2. Reply(o, 3, b0, 0, 20) /\ \A type : ~HasAttribute(b0, type)
  <2>1. 3 \in {2, 3}
    OBVIOUS
  <2> HIDE DEF b0
  <2> QED
    BY <2>1, ReplyBegun DEF b0
<1> HIDE DEF x, b0
<1>3. /\ a.error \in Nat /\ 300 <= a.error /\ a.error <= 600
      /\ ((a.error \div 100) % 8) * 100 + (a.error % 100) = a.error
  BY DEF BADREQUEST, UNAUTHORIZED, STALENONCE
<1>4. code[1] = a.error \div 100 /\ code[2] = a.error % 100
  OBVIOUS
<1>5. b1 = AddAttribute(b0, "ERRORCODE", code, 10)
  BY <1>3 DEF AddErrorCode
<1> HIDE DEF b1, code
<1>6. PICK e : /\ Longer(b0, b1, e) /\ e.type = "ERRORCODE" /\ e.value = code
               /\ e.bytes \in Nat /\ e.bytes <= 16
  <2>1. 10 \in Nat /\ 10 <= MaxAttribute /\ RoundUp4(10) = 12
    BY DEF MaxAttribute, RoundUp4
  <2> QED
    BY <1>2, <1>5, <2>1, AttributeAdded DEF Reply, Room
<1>7. Coded(b1, 1, 40)
  <2>1. 20 + 4 + e.bytes <= 40
    BY <1>6
  <2>2. Reply(o, 3, b1, 1, 40)
    BY <1>2, <1>6, <2>1, ReplyGrows
  <2>3. HasAttribute(b1, "ERRORCODE") /\ GetAttributeByType(b1, "ERRORCODE") = e
    BY <1>2, <1>6, LookupGrows DEF Reply, Room
  <2> QED
    BY <1>6, <2>2, <2>3
\* Another string leaves the code where it is.
<1>8. ASSUME NEW b, Coded(b, 1, 40) \/ Coded(b, 2, 96),
             NEW type \in {"NONCE", "REALM"}, NEW value, NEW z \in {0, 17, 51}
      PROVE  LET c == AddStringAttribute(b, type, value, z)
             IN  /\ Coded(b, 1, 40) => Coded(c, 2, 96)
                 /\ Coded(b, 2, 96) => Coded(c, 5, 200)
  <2> DEFINE c == AddStringAttribute(b, type, value, z)
  <2>0. c = AddStringAttribute(b, type, value, z)
    OBVIOUS
  <2> SUFFICES /\ Coded(b, 1, 40) => Coded(c, 2, 96)
               /\ Coded(b, 2, 96) => Coded(c, 5, 200)
    OBVIOUS
  <2> HIDE DEF c
  <2>1. CASE z = 0
    <3>1. c = b
      BY <2>0, <2>1 DEF AddStringAttribute
    <3>2. ASSUME Coded(b, 1, 40) PROVE Coded(b, 2, 96)
      <4>1. Room(b, 2, 96)
        BY <3>2, RoomWider DEF Reply
      <4> QED
        BY <3>2, <4>1 DEF Reply
    <3>3. ASSUME Coded(b, 2, 96) PROVE Coded(b, 5, 200)
      <4>1. Room(b, 5, 200)
        BY <3>3, RoomWider DEF Reply
      <4> QED
        BY <3>3, <4>1 DEF Reply
    <3> HIDE DEF Coded
    <3> QED
      BY <3>1, <3>2, <3>3
  <2>2. CASE z # 0
    <3>1. z \in Nat /\ z <= MaxAttribute /\ RoundUp4(z) \in Nat /\ RoundUp4(z) <= 52
      BY <1>8 DEF MaxAttribute, RoundUp4
    <3>2. c = AddAttribute(b, type, value, z)
      BY <2>0, <2>2 DEF AddStringAttribute
    <3>3. PICK f : Longer(b, c, f) /\ f.type = type /\ f.bytes \in Nat /\ f.bytes <= 52
      <4>1. Msg(b)
        BY <1>8 DEF Reply, Room
      <4> QED
        BY <3>1, <3>2, <4>1, AttributeAdded
    <3>4. /\ HasAttribute(c, "ERRORCODE")
          /\ GetAttributeByType(c, "ERRORCODE") = GetAttributeByType(b, "ERRORCODE")
      <4>1. type # "ERRORCODE" /\ HasAttribute(b, "ERRORCODE") /\ Msg(b)
        BY <1>8 DEF Reply, Room
      <4> QED
        BY <3>3, <4>1, LookupGrows
    <3>5. ASSUME Coded(b, 1, 40) PROVE Coded(c, 2, 96)
      <4>1. 40 + 4 + f.bytes <= 96
        BY <3>3
      <4>2. Reply(o, 3, c, 2, 96)
        BY <3>3, <3>5, <4>1, ReplyGrows
      <4> QED
        BY <3>4, <3>5, <4>2
    <3>6. ASSUME Coded(b, 2, 96) PROVE Coded(c, 5, 200)
      <4>1. 96 + 4 + f.bytes <= 200
        BY <3>3
      <4>2. Reply(o, 3, c, 5, 200)
        BY <3>3, <3>6, <4>1, ReplyGrows
      <4> QED
        BY <3>4, <3>6, <4>2
    <3> HIDE DEF Coded
    <3> QED
      BY <3>5, <3>6
  <2> HIDE DEF Coded
  <2> QED
    BY <2>1, <2>2
<1>9. z2 \in {0, 17, 51} /\ z3 \in {0, 17, 51}
  OBVIOUS
<1> HIDE DEF z2, z3, Coded
<1>10. Coded(b2, 2, 96)
  BY <1>7, <1>8, <1>9
<1> HIDE DEF b2
<1>11. Coded(b3, 5, 200)
  BY <1>8, <1>9, <1>10
<1> HIDE DEF b3
<1>12. /\ r.state = "BodyValidated" /\ r.legacy = o.legacy /\ r.transid = Arrived(o)
       /\ r.class = 3 /\ r.attrs = b3.attrs
  <2>1. 3 \in {2, 3}
    OBVIOUS
  <2> QED
    BY <1>11, <2>1, ReplyRead DEF Coded
<1> HIDE DEF r
<1>13. GetErrorCode(r) = a.error
  <2>1. /\ HasAttribute(r, "ERRORCODE")
        /\ GetAttributeByType(r, "ERRORCODE") = GetAttributeByType(b3, "ERRORCODE")
    BY <1>11, <1>12, SameLookup DEF Coded
  <2> QED
    BY <1>3, <1>4, <1>11, <2>1 DEF GetErrorCode, Coded
<1> QED
  BY <1>1, <1>12, <1>13 DEF x, r

-----------------------------------------------------------------------------
(* The answer to a request, whichever it is.                               *)

Admitted(o) == o.auth = "none" \/ (o.auth = "short" /\ Good(o))

LEMMA Authorized ==
  ASSUME NEW o, Option(o), NEW m, m.reader = Read(Carried(o)), NEW now
  PROVE  LET a == ValidateAuth(m, o.auth, now)
         IN  /\ Admitted(o) => a.error = 0 /\ (a.password # <<>> => ~a.long)
                              /\ (o.auth = "short" => a.password = PasswordOf(o.user))
             /\ ~Admitted(o) => a.error \in {BADREQUEST, UNAUTHORIZED, STALENONCE}
<1> DEFINE a == ValidateAuth(m, o.auth, now)
<1>1. CASE o.auth = "none"
  <2>1. a = Passed(FALSE, <<>>, <<>>, <<>>)
    BY <1>1 DEF ValidateAuth
  <2> HIDE DEF a
  <2>2. a.error = 0 /\ a.password = <<>>
    BY <2>1 DEF Passed
  <2> QED
    BY <1>1, <2>2 DEF Admitted, a
<1>2. CASE o.auth = "short"
  <2>1. /\ a.error \in {0, BADREQUEST, UNAUTHORIZED} /\ (a.error = 0 <=> Good(o))
        /\ Good(o) => a.long = FALSE /\ a.password = PasswordOf(o.user)
    BY <1>2, ShortTerm, ZenonT(60)
  <2> HIDE DEF a
  <2> QED
    BY <1>2, <2>1 DEF Admitted, a
<1>3. CASE o.auth = "long"
  <2>1. a.error \in {UNAUTHORIZED, STALENONCE}
    BY <1>3, LongTerm
  <2> HIDE DEF a
  <2> QED
    BY <1>3, <2>1 DEF Admitted, a
<1> QED
  BY <1>1, <1>2, <1>3 DEF Option

\* The request as the handler gets it.
Asked(o) ==
  [role |-> RolePP, local |-> Addr(<<3>>, 2), remote |-> Remote(o),
   reader |-> Read(Carried(o)), tcp |-> TRUE]

LEMMA AskedFields ==
  ASSUME NEW o
  PROVE  /\ Asked(o).role = RolePP /\ Asked(o).remote = Remote(o)
         /\ Asked(o).reader = Read(Carried(o))
         /\ AnswerTo(o) = ProcessRequest(Asked(o), StreamSet, o.auth, 1)
  BY DEF Asked, AnswerTo, Read

LEMMA StreamSockets ==
  /\ StreamSet[RolePP].addr = Addr(<<3>>, 2) /\ ~HasAddress(StreamSet, RolePA)
  /\ RolePP \in Role /\ RolePA \in Role
<1>1. RolePP \in Role /\ RolePA \in Role /\ RolePA # RolePP
  BY DEF RolePP, RolePA, Role
<1>2. ASSUME NEW r \in Role
      PROVE  StreamSet[r].valid = (r = RolePP) /\ StreamSet[r].addr = Addr(<<3>>, 2)
  BY DEF StreamSet
<1> QED
  BY <1>1, <1>2 DEF HasAddress

\* The request has nothing that sends the answer elsewhere.
LEMMA PlainRequest ==
  ASSUME NEW o, Option(o)
  PROVE  LET m == Asked(o)
         IN  /\ GetResponsePort(m.reader) = 0 /\ OutputRole(m) = RolePP
             /\ ~BindingRefused(m, StreamSet)
<1> DEFINE m == Asked(o)
           r == Read(Carried(o))
<1>1. m.reader = r /\ m.role = RolePP
  BY AskedFields
<1> HIDE DEF m
<1>2. /\ ~HasAttribute(r, "RESPONSE_PORT") /\ ~HasAttribute(r, "CHANGEREQUEST")
      /\ ~HasAttribute(r, "PADDING")
  BY RequestLookup
<1> HIDE DEF r
<1>3. GetResponsePort(r) = 0 /\ GetPaddingAttributeSize(r) = NoNumber
  BY <1>2 DEF GetResponsePort, GetPaddingAttributeSize
<1>4. ~GetChangeRequest(r).fChangeIP /\ ~GetChangeRequest(r).fChangePort
  <2>1. (0 \div 4) % 2 # 1 /\ (0 \div 2) % 2 # 1
    OBVIOUS
  <2> QED
    BY <1>2, <2>1 DEF GetChangeRequest
<1>5. OutputRole(m) = RolePP
  BY <1>1, <1>4 DEF OutputRole
<1> QED
  BY <1>1, <1>3, <1>5 DEF BindingRefused, m

\* A success tells the client's address and no other address of the server.
LEMMA SuccessMade ==
  ASSUME NEW o, Option(o), NEW dest, NEW a
  PROVE  LET x == ProcessBindingRequest(Asked(o), StreamSet, dest, a)
         IN  x.dest = dest /\ x.msg = GetResult(WithSeal(Told(o), a))
<1> DEFINE m == Asked(o)
           home == Addr(<<3>>, 2)
           b1 == AddMappedAddress(AddTransactionId(
                   AddHeader(o.legacy, BINDING, 2), Arrived(o)), Remote(o))
           x == ProcessBindingRequest(m, StreamSet, dest, a)
<1>1. m.reader.legacy = o.legacy /\ m.reader.transid = Arrived(o) /\ m.remote = Remote(o)
  BY AskedFields, RequestRead
<1>2. OutputRole(m) = RolePP
  BY PlainRequest
<1>3. Class.success = 2
  BY DEF Class
<1>4. ~IsIPAddressZero(home)
  <2>1. home.ip = <<3>>
    BY AddrFields
  <2> HIDE DEF home
  <2>2. 1 \in DOMAIN home.ip /\ home.ip[1] # 0
    BY <2>1
  <2> QED
    BY <2>2 DEF IsIPAddressZero
<1>5. OriginAddress(m, StreamSet) = home
  <2> HIDE DEF home
  <2>1. StreamSet[RolePP].addr = home
    BY StreamSockets DEF home
  <2> QED
    BY <1>2, <1>4, <2>1 DEF OriginAddress
<1>6. OtherAddress(m, StreamSet) = NoAddr
  BY StreamSockets DEF OtherAddress
<1> HIDE DEF m, home
<1>7. WithOther(WithOrigin(b1, home), NoAddr) = AddResponseOriginAddress(b1, home)
  BY <1>4 DEF WithOther, WithOrigin
<1>8. x = Response(RolePP, dest, GetResult(WithSeal(Told(o), a)))
  <2> DEFINE b2 == AddResponseOriginAddress(b1, home)
             b3 == AddXorMappedAddress(b2, Remote(o))
  <2>1. b3 = Told(o)
    BY DEF Told, home
  <2>2. x = Response(RolePP, dest, GetResult(WithSeal(b3, a)))
    BY <1>1, <1>2, <1>3, <1>5, <1>6, <1>7 DEF ProcessBindingRequest
  <2> HIDE DEF b3, x
  <2> QED
    BY <2>1, <2>2
<1> HIDE DEF x
<1> QED
  BY <1>8 DEF Response, x, m

\* What the client gets, and reads in it.
LEMMA AnswerMade ==
  ASSUME NEW o, Option(o)
  PROVE  LET x == AnswerTo(o)
             r == Parse(x.msg)
         IN  IF o.class # 0 THEN x = NoResponse
             ELSE /\ x.dest = Remote(o) /\ r.state = "BodyValidated"
                  /\ r.legacy = o.legacy /\ r.transid = Arrived(o)
                  /\ IF Admitted(o)
                       THEN /\ r.class = 2 /\ GetMappedAddress(r) = Remote(o)
                            /\ GetXorMappedAddress(r) = Remote(o)
                            /\ o.auth = "short" =>
                                 ValidateMessageIntegrityShort(r, PasswordOf(o.user))
                       ELSE /\ r.class = 3
                            /\ GetErrorCode(r) \in {BADREQUEST, UNAUTHORIZED, STALENONCE}
<1> DEFINE m == Asked(o)
           a == ValidateAuth(m, o.auth, 1)
           x == AnswerTo(o)
           r == Parse(x.msg)
           q == Read(Carried(o))
<1>1. /\ x = ProcessRequest(m, StreamSet, o.auth, 1) /\ m.reader = q /\ m.remote = Remote(o)
  BY AskedFields
<1>2. /\ q.state = "BodyValidated" /\ q.class = o.class /\ q.type = BINDING
      /\ q.legacy = o.legacy /\ q.transid = Arrived(o)
  BY RequestRead
<1>3. GetResponsePort(m.reader) = 0 /\ ~BindingRefused(m, StreamSet)
  BY PlainRequest
<1>4. Class.request = 0
  BY DEF Class
<1>5. /\ Admitted(o) => a.error = 0 /\ (a.password # <<>> => ~a.long)
                       /\ (o.auth = "short" => a.password = PasswordOf(o.user))
      /\ ~Admitted(o) => a.error \in {BADREQUEST, UNAUTHORIZED, STALENONCE}
  BY <1>1, Authorized
<1>6. \A b, dest : x.msg = b /\ x.dest = dest => r = Parse(b)
  OBVIOUS
<1> HIDE DEF m, q
<1>7. CASE o.class # 0
  BY <1>1, <1>2, <1>4, <1>7 DEF ProcessRequest
<1>8. CASE o.class = 0
  <2>1. x = RespondTo(m, StreamSet, Remote(o), a)
    BY <1>1, <1>2, <1>3, <1>4, <1>8 DEF ProcessRequest
  <2> HIDE DEF x, a
  <2>2. CASE Admitted(o)
    <3>1. x = ProcessBindingRequest(m, StreamSet, Remote(o), a)
      BY <1>3, <1>5, <2>1, <2>2 DEF RespondTo
    <3>2. x.dest = Remote(o) /\ x.msg = GetResult(WithSeal(Told(o), a))
      BY <3>1, SuccessMade DEF m
    <3>3. /\ r.state = "BodyValidated" /\ r.legacy = o.legacy /\ r.transid = Arrived(o)
          /\ r.class = 2
          /\ GetMappedAddress(r) = Remote(o) /\ GetXorMappedAddress(r) = Remote(o)
          /\ a.password # <<>> => ValidateMessageIntegrityShort(r, a.password)
      BY <1>5, <2>2, <3>2, SuccessRead
    <3>4. o.auth = "short" => ValidateMessageIntegrityShort(r, PasswordOf(o.user))
      BY <1>5, <2>2, <3>3, Passwords
    <3> HIDE DEF r
    <3> QED
      BY <1>8, <2>2, <3>2, <3>3, <3>4 DEF x, r
  <2>3. CASE ~Admitted(o)
    <3>1. a.error # 0
      BY <1>5, <2>3 DEF BADREQUEST, UNAUTHORIZED, STALENONCE
    <3>2. x = BuildErrorResponse(m, Remote(o), a)
      BY <2>1, <3>1 DEF RespondTo
    <3>3. /\ x.dest = Remote(o) /\ r.state = "BodyValidated" /\ r.legacy = o.legacy
          /\ r.transid = Arrived(o) /\ r.class = 3 /\ GetErrorCode(r) = a.error
      BY <1>1, <1>2, <1>5, <2>3, <3>2, ErrorRead
    <3> HIDE DEF r
    <3> QED
      BY <1>5, <1>8, <2>3, <3>3 DEF x, r
  <2> QED
    BY <2>2, <2>3
<1> QED
  BY <1>7, <1>8

\* Every answer reads back as what it says: it goes to the client, has the
\* transaction id and the format of the request, and tells the client's
\* address twice or one of the handler's error codes; a message that is not a
\* request gets none (CStunRequestHandler::ProcessRequest, CStunMessageBuilder).
THEOREM AnswersAlwaysReadBack == Spec => []AnswerReadsBack
<1>1. StreamInv => AnswerReadsBack
  <2> SUFFICES ASSUME StreamInv, st.phase = "answered"
               PROVE  AnswerReadsBack
    BY DEF AnswerReadsBack
  <2> DEFINE o == st.opt
             x == st.answer
             r == Parse(x.msg)
  <2>1. Underway(st)
    BY DEF StreamInv, Idle
  <2>2. o \in StreamOptions /\ st.msg = Carried(o) /\ x = AnswerTo(o)
    BY <2>1 DEF Underway
  <2>3. Option(o)
    BY <2>2, Options
  <2>4. st.msg.transid = Arrived(o)
    BY <2>2, <2>3, CarriedMade
  <2>5. IF o.class # 0 THEN x = NoResponse
        ELSE /\ x.dest = Remote(o) /\ r.state = "BodyValidated"
             /\ r.legacy = o.legacy /\ r.transid = Arrived(o)
             /\ IF Admitted(o)
                  THEN /\ r.class = 2 /\ GetMappedAddress(r) = Remote(o)
                       /\ GetXorMappedAddress(r) = Remote(o)
                       /\ o.auth = "short" =>
                            ValidateMessageIntegrityShort(r, PasswordOf(o.user))
                  ELSE /\ r.class = 3
                       /\ GetErrorCode(r) \in {BADREQUEST, UNAUTHORIZED, STALENONCE}
    BY <2>2, <2>3, AnswerMade
  <2>6. Class.request = 0 /\ Class.success = 2 /\ Class.failure = 3
    BY DEF Class
  <2> HIDE DEF o, x, r
  <2>7. IF o.class # Class.request THEN x = NoResponse
        ELSE /\ r.state = "BodyValidated" /\ x.dest = Remote(o)
             /\ r.transid = st.msg.transid /\ r.legacy = o.legacy
             /\ IF r.class = Class.success
                  THEN GetMappedAddress(r) = Remote(o) /\ GetXorMappedAddress(r) = Remote(o)
                  ELSE r.class = Class.failure
                       /\ GetErrorCode(r) \in {BADREQUEST, UNAUTHORIZED, STALENONCE}
    <3>1. CASE o.class # 0
      BY <2>5, <2>6, <3>1
    <3>2. CASE o.class = 0 /\ Admitted(o)
      BY <2>4, <2>5, <2>6, <3>2
    <3>3. CASE o.class = 0 /\ ~Admitted(o)
      BY <2>4, <2>5, <2>6, <3>3
    <3> QED
      BY <3>1, <3>2, <3>3
  <2> QED
    BY <2>7 DEF AnswerReadsBack, o, x, r
<1> QED
  BY <1>1, StreamInvariant, PTL

\* Under an authentication provider only a known user with the right password
\* over the message as it arrived succeeds, and under the short term provider
\* such a user does, with an answer that the same password seals; a
\* fingerprint is valid just when nothing changed on the way (ShortTermAuth,
\* CStunMessageReader::ValidateMessageIntegrity).
THEOREM OnlyEverAuthorized == Spec => []OnlyAuthorized
<1>1. StreamInv => OnlyAuthorized
  <2> SUFFICES ASSUME StreamInv, st.phase = "answered", st.opt.class = Class.request
               PROVE  OnlyAuthorized
    BY DEF OnlyAuthorized
  <2> DEFINE o == st.opt
             x == st.answer
             r == Parse(x.msg)
  <2>1. Underway(st)
    BY DEF StreamInv, Idle
  <2>2. /\ o \in StreamOptions /\ st.msg = Carried(o) /\ x = AnswerTo(o)
        /\ st.reader = Read(Carried(o))
    BY <2>1 DEF Underway, Read
  <2>3. Option(o)
    BY <2>2, Options
  <2>4. Class.request = 0 /\ Class.success = 2 /\ o.class = 0
    BY DEF Class
  <2>5. IF Admitted(o)
          THEN r.class = 2 /\ (o.auth = "short" =>
                                 ValidateMessageIntegrityShort(r, PasswordOf(o.user)))
          ELSE r.class = 3
    BY <2>2, <2>3, <2>4, AnswerMade
  <2>6. IsFingerprintAttributeValid(st.reader) <=> o.fingerprint /\ ~o.tampered
    BY <2>2, <2>3, RequestPrint
  <2>7. IsFingerprintAttributeValid(st.reader) = (o.fingerprint /\ ~o.tampered)
    <3> DEFINE valid == IsFingerprintAttributeValid(st.reader)
    <3>1. valid \in BOOLEAN
      BY DEF IsFingerprintAttributeValid
    <3> HIDE DEF valid
    <3> QED
      BY <2>6, <3>1 DEF valid
  <2> HIDE DEF o, x, r
  <2>8. o.auth # "none" /\ r.class = Class.success => Good(o)
    BY <2>4, <2>5 DEF Admitted
  <2>9. o.auth = "short" /\ Good(o) =>
          r.class = Class.success /\ ValidateMessageIntegrityShort(r, PasswordOf(o.user))
    BY <2>4, <2>5 DEF Admitted
  <2> QED
    BY <2>7, <2>8, <2>9 DEF OnlyAuthorized, Good, o, x, r
<1> QED
  BY <1>1, StreamInvariant, PTL

-----------------------------------------------------------------------------
(* The peer's NAT test against a full server.                              *)

\* The address the NAT test's socket has for the server, and its requests on
\* their way.
NatMapped == MappedAddress(env.nat, Addr(LocalIp, 1), Server)

Asks(w) == Packet(NatMapped, Server, w)

\* One attribute tells an address, and it tells that one.
TellsOnly(attrs, x) ==
  /\ attrs \in Seq(ToSet(attrs))
  /\ \E i \in DOMAIN attrs :
       /\ attrs[i].type = "MAPPED" /\ attrs[i].value = x
       /\ \A j \in DOMAIN attrs : attrs[j].type = "MAPPED" => j = i

\* While an answer to the first request is awaited, and to the second: the
\* request, or its answer, or neither.
FirstInFlight ==
  \/ net = {} \/ net = {Asks(test1)}
  \/ \E p \in net : net = {p} /\ p.dst = NatMapped /\ TellsOnly(p.msg.attrs, NatMapped)

SecondInFlight ==
  \/ net = {} \/ net = {Asks(test2)}
  \/ \E p \in net : net = {p} /\ p.dst = NatMapped /\ p.src.ip # Server.ip

\* What the NAT test runs in.
NatEnv ==
  /\ env.tcp = FALSE /\ env.source \in {LocalIp, NoIp}
  /\ env.nat.map \in MapClasses /\ env.nat.filter \in FilterClasses
  /\ env.full => \A r \in Role :
       /\ env.set[r].valid /\ PublicAddress(env.set, r).ip \notin {LocalIp, ExternalIp}
       /\ PublicAddress(env.set, SwapPort(SwapIP(r))).ip # PublicAddress(env.set, r).ip

\* What the NAT test may conclude, and what it needs for that.
NatKnows ==
  /\ n.pc = "test1" => FirstInFlight
  /\ n.pc \in {"test2", "test2open"} => SecondInFlight
  /\ n.pc = "test2open" => env.nat.map = "direct"
  /\ n.pc \in {"FULL_CONE", "OPEN_INTERNET"} => env.nat.filter = "EIF"
  /\ n.pc \in {"OPEN_INTERNET", "SYM_UDP_FIREWALL"} => env.nat.map = "direct"

NatRun ==
  /\ NatEnv /\ opened \subseteq {<<NatMapped, Server>>}
  /\ opened = {} => n.pc = "test1" /\ net = {}
  /\ env.full => NatKnows

NatInv ==
  /\ n = [pc |-> n.pc, mapped |-> n.mapped]
  /\ n.pc \in Verdicts \cup {"test1", "test2", "test2open", "test1again", "test3"}
  /\ IF env.prog = "nat_test" THEN NatRun ELSE n.pc = "test1"

LEMMA TellsMore ==
  ASSUME NEW q, NEW a, NEW x, TellsOnly(q, x), a.type # "MAPPED"
  PROVE  TellsOnly(Append(q, a), x)
<1> DEFINE p == Append(q, a)
<1>1. /\ Len(q) \in Nat /\ DOMAIN q = 1 .. Len(q) /\ DOMAIN p = 1 .. (Len(q) + 1)
      /\ \A i \in 1 .. Len(q) : p[i] = q[i]
      /\ p[Len(q) + 1] = a /\ p \in Seq(ToSet(p))
  BY Appended DEF TellsOnly
<1>2. PICK i \in DOMAIN q : /\ q[i].type = "MAPPED" /\ q[i].value = x
                            /\ \A j \in DOMAIN q : q[j].type = "MAPPED" => j = i
  BY DEF TellsOnly
<1> HIDE DEF p
<1>3. i \in DOMAIN p /\ p[i].type = "MAPPED" /\ p[i].value = x
  BY <1>1, <1>2
<1>4. ASSUME NEW j \in DOMAIN p, p[j].type = "MAPPED" PROVE j = i
  <2>1. CASE j = Len(q) + 1
    BY <1>1, <1>4, <2>1
  <2>2. CASE j # Len(q) + 1
    <3>1. j \in 1 .. Len(q)
      BY <1>1, <2>2
    <3> QED
      BY <1>1, <1>2, <1>4, <3>1
  <2> QED
    BY <2>1, <2>2
<1>5. TellsOnly(p, x)
  BY <1>1, <1>3, <1>4 DEF TellsOnly
<1> QED
  BY <1>5 DEF p

\* A message with one attribute that tells an address.
Telling(b, x) == MsgShape(b) /\ TellsOnly(b.attrs, x)

LEMMA TellingMore ==
  ASSUME NEW b, NEW x, Telling(b, x), NEW type, type # "MAPPED", NEW y
  PROVE  Telling(AddMappedAddressImpl(b, type, y), x)
<1> DEFINE z == 4 + 4 * Len(y.ip)
           a == Attr(type, z, z, y)
           c == AddMappedAddressImpl(b, type, y)
           q == Append(b.attrs, a)
<1>1. c = Append1(b, a)
  BY DEF AddMappedAddressImpl
<1>2. a.type = type
  BY AttrFields
<1> HIDE DEF a, c
<1>3. c = [legacy |-> b.legacy, length |-> b.length, transid |-> b.transid,
           attrs |-> q, field |-> b.field]
  BY <1>1 DEF Append1, Telling, MsgShape
<1>4. TellsOnly(q, x)
  BY <1>2, TellsMore DEF Telling
<1> HIDE DEF q
<1>5. MsgShape(c) /\ c.attrs = q
  BY <1>3, Shaped
<1> QED
  BY <1>4, <1>5 DEF Telling, c

LEMMA TellingFirst ==
  ASSUME NEW b, MsgShape(b), b.attrs = <<>>, NEW x
  PROVE  Telling(AddMappedAddress(b, x), x)
<1> DEFINE z == 4 + 4 * Len(x.ip)
           a == Attr("MAPPED", z, z, x)
           c == AddMappedAddress(b, x)
           q == Append(<<>>, a)
<1>1. c = Append1(b, a)
  BY DEF AddMappedAddress, AddMappedAddressImpl
<1>2. a.type = "MAPPED" /\ a.value = x
  BY AttrFields
<1> HIDE DEF a, c
<1>3. c = [legacy |-> b.legacy, length |-> b.length, transid |-> b.transid,
           attrs |-> q, field |-> b.field]
  BY <1>1 DEF Append1, MsgShape
<1>4. TellsOnly(q, x)
  <2>1. <<>> \in Seq(ToSet(<<>>)) /\ Len(<<>>) = 0
    OBVIOUS
  <2>2. q \in Seq(ToSet(q)) /\ DOMAIN q = 1 .. (0 + 1) /\ q[0 + 1] = a
    BY <2>1, Appended
  <2> HIDE DEF q
  <2>3. DOMAIN q = {1} /\ q[1] = a
    BY <2>2
  <2> QED
    BY <1>2, <2>2, <2>3 DEF TellsOnly
<1> HIDE DEF q
<1>5. MsgShape(c) /\ c.attrs = q
  BY <1>3, Shaped
<1> QED
  BY <1>4, <1>5 DEF Telling, c

\* What a request is, that asks for the address.
Plain(r) ==
  /\ r.state = "BodyValidated" /\ r.class = 0 /\ r.type = BINDING
  /\ ~HasAttribute(r, "RESPONSE_PORT") /\ ~HasAttribute(r, "PADDING")

\* The sockets' roles.
LEMMA Swapped ==
  ASSUME NEW r \in Role
  PROVE  SwapIP(r) \in Role /\ SwapPort(SwapIP(r)) \in Role
<1>1. \A x \in Role : SwapIP(x) = IF x = 0 THEN 2 ELSE IF x = 1 THEN 3 ELSE IF x = 2 THEN 0 ELSE 1
  BY DEF Role, SwapIP, Xor
<1>2. \A x \in Role : SwapPort(x) = IF x = 0 THEN 1 ELSE IF x = 1 THEN 0 ELSE IF x = 2 THEN 3 ELSE 2
  BY DEF Role, SwapPort, Xor
<1> QED
  BY <1>1, <1>2 DEF Role

\* A success tells the address the request came from.
LEMMA SuccessTells ==
  ASSUME NEW m, NEW set, NEW dest, NEW a, a.password = <<>>
  PROVE  LET x == ProcessBindingRequest(m, set, dest, a)
         IN  x.dest = dest /\ x.role = OutputRole(m) /\ TellsOnly(x.msg.attrs, m.remote)
<1> DEFINE b0 == AddTransactionId(AddHeader(m.reader.legacy, BINDING, 2), m.reader.transid)
           b1 == AddMappedAddress(b0, m.remote)
           b2 == WithOrigin(b1, OriginAddress(m, set))
           b3 == WithOther(b2, OtherAddress(m, set))
           b4 == AddXorMappedAddress(b3, m.remote)
           x == ProcessBindingRequest(m, set, dest, a)
<1>1. MsgShape(b0) /\ b0.attrs = <<>>
  <2> DEFINE f == (BINDING \div 128) * 512 + (2 \div 2) * 256
             + ((BINDING \div 16) % 8) * 32 + (2 % 2) * 16 + (BINDING % 16)
  <2>1. b0 = [legacy |-> m.reader.legacy, length |-> 0, transid |-> m.reader.transid,
              attrs |-> <<>>, field |-> f]
    BY DEF AddHeader, AddTransactionId
  <2> HIDE DEF b0, f
  <2> QED
    BY <2>1, Shaped
<1>2. x = Response(OutputRole(m), dest, GetResult(b4))
  <2>1. Class.success = 2
    BY DEF Class
  <2>2. x = Response(OutputRole(m), dest, GetResult(WithSeal(b4, a)))
    BY <2>1 DEF ProcessBindingRequest
  <2> HIDE DEF b4, x
  <2> QED
    BY <2>2 DEF WithSeal
<1> HIDE DEF b0, x
<1>3. Telling(b1, m.remote)
  BY <1>1, TellingFirst
<1> HIDE DEF b1
<1>4. Telling(b2, m.remote)
  <2> DEFINE origin == OriginAddress(m, set)
  <2> HIDE DEF origin
  <2>1. WithOrigin(b1, origin) \in
          {b1, AddMappedAddressImpl(b1, IF b1.legacy THEN "SOURCE" ELSE "ORIGIN", origin)}
    BY DEF WithOrigin, AddResponseOriginAddress
  <2>2. (IF b1.legacy THEN "SOURCE" ELSE "ORIGIN") # "MAPPED"
    OBVIOUS
  <2>3. Telling(WithOrigin(b1, origin), m.remote)
    BY <1>3, <2>1, <2>2, TellingMore
  <2> QED
    BY <2>3 DEF origin
<1> HIDE DEF b2
<1>5. Telling(b3, m.remote)
  <2> DEFINE other == OtherAddress(m, set)
  <2> HIDE DEF other
  <2>1. WithOther(b2, other) \in
          {b2, AddMappedAddressImpl(b2, IF b2.legacy THEN "CHANGED" ELSE "OTHER", other)}
    BY DEF WithOther, AddOtherAddress
  <2>2. (IF b2.legacy THEN "CHANGED" ELSE "OTHER") # "MAPPED"
    OBVIOUS
  <2>3. Telling(WithOther(b2, other), m.remote)
    BY <1>4, <2>1, <2>2, TellingMore
  <2> QED
    BY <2>3 DEF other
<1> HIDE DEF b3
<1>6. Telling(b4, m.remote)
  <2>1. (IF b3.legacy THEN "XORMAPPED_OPTIONAL" ELSE "XORMAPPED") # "MAPPED"
    OBVIOUS
  <2> QED
    BY <1>5, <2>1, TellingMore DEF AddXorMappedAddress
<1> HIDE DEF b4
<1>7. GetResult(b4).attrs = b4.attrs
  <2> DEFINE z == Size(b4) - HeaderSize
  <2>1. GetResult(b4) = [b4 EXCEPT !.length = z]
    BY DEF GetResult, FixLengthField
  <2> HIDE DEF z
  <2> QED
    BY <1>6, <2>1 DEF Telling, MsgShape
<1>8. x.dest = dest /\ x.role = OutputRole(m) /\ x.msg = GetResult(b4)
  BY <1>2 DEF Response
<1> QED
  BY <1>6, <1>7, <1>8 DEF Telling, x

\* A full server's answer to a request like that.
LEMMA AnswerGiven ==
  ASSUME NEW p, Roles(p) # {}, \A r \in Role : env.set[r].valid,
         Plain(Parse(p.msg)), NEW q \in Answer(p)
  PROVE  LET change == GetChangeRequest(Parse(p.msg))
         IN  /\ q.dst = p.src /\ TellsOnly(q.msg.attrs, p.src)
             /\ change.fChangeIP /\ change.fChangePort =>
                  \E role \in Role : /\ PublicAddress(env.set, role) = p.dst
                                     /\ q.src = PublicAddress(env.set, SwapPort(SwapIP(role)))
<1> DEFINE role == CHOOSE r \in Roles(p) : TRUE
           m == [role |-> role, local |-> p.dst, remote |-> p.src, reader |-> Parse(p.msg),
                 tcp |-> FALSE]
           a == Passed(FALSE, <<>>, <<>>, <<>>)
           x == ProcessRequest(m, env.set, "none", 0)
           r == Parse(p.msg)
<1>1. role \in Role /\ PublicAddress(env.set, role) = p.dst
  <2>1. role \in Roles(p)
    OBVIOUS
  <2> HIDE DEF role
  <2> QED
    BY <2>1 DEF Roles
<1>2. q = Packet(PublicAddress(env.set, x.role), x.dest, x.msg)
  <2> DEFINE y == Packet(PublicAddress(env.set, x.role), x.dest, x.msg)
  <2>1. Answer(p) = IF x.dest = NoAddr THEN {} ELSE {y}
    BY DEF Answer
  <2> HIDE DEF x, y
  <2>2. q \in {y}
    BY <2>1
  <2> QED
    BY <2>2 DEF y
<1> HIDE DEF role, r
<1>3. m.role = role /\ m.remote = p.src /\ m.reader = r /\ m.tcp = FALSE
  BY DEF r
<1> HIDE DEF m, x
<1>4. GetResponsePort(r) = 0 /\ GetPaddingAttributeSize(r) = NoNumber /\ r.type = BINDING
      /\ r.state = "BodyValidated" /\ r.class = Class.request
  BY DEF Plain, GetResponsePort, GetPaddingAttributeSize, r, Class
<1>5. OutputRole(m) \in Role
  <2>1. \A y \in Role : SwapIP(y) \in Role /\ SwapPort(y) \in Role
    BY DEF Role, SwapIP, SwapPort, Xor
  <2> QED
    BY <1>1, <1>3, <2>1 DEF OutputRole
<1>6. ~BindingRefused(m, env.set)
  BY <1>3, <1>4, <1>5 DEF BindingRefused, HasAddress
<1>7. a.error = 0 /\ a.password = <<>>
  BY DEF Passed
<1>8. x = ProcessBindingRequest(m, env.set, m.remote, a)
  <2>1. ValidateAuth(m, "none", 0) = a
    BY DEF ValidateAuth
  <2> HIDE DEF a
  <2>2. x = RespondTo(m, env.set, m.remote, a)
    BY <1>3, <1>4, <2>1 DEF ProcessRequest, x
  <2> QED
    BY <1>6, <1>7, <2>2 DEF RespondTo
<1> HIDE DEF a
<1>9. x.dest = p.src /\ x.role = OutputRole(m) /\ TellsOnly(x.msg.attrs, p.src)
  BY <1>3, <1>7, <1>8, SuccessTells
<1>10. q.src = PublicAddress(env.set, x.role) /\ q.dst = x.dest /\ q.msg = x.msg
  BY <1>2 DEF Packet
<1>11. ASSUME GetChangeRequest(r).fChangeIP, GetChangeRequest(r).fChangePort
       PROVE  OutputRole(m) = SwapPort(SwapIP(role))
  BY <1>3, <1>11 DEF OutputRole
<1> QED
  BY <1>1, <1>9, <1>10, <1>11 DEF r

\* The two requests, as the server reads them.
LEMMA TestsRead ==
  /\ Plain(Parse(test1)) /\ Plain(Parse(test2))
  /\ GetChangeRequest(Parse(test2)).fChangeIP /\ GetChangeRequest(Parse(test2)).fChangePort
<1> DEFINE b == Header
           c == AddChangeRequest(b, TRUE, TRUE)
           r1 == Parse(test1)
           r2 == Parse(test2)
<1>1. /\ Room(b, 0, 20) /\ b.legacy = TRUE /\ b.field = 1
      /\ \A type : ~HasAttribute(b, type)
  <2>1. Class.request = 0 /\ 0 \in 0 .. 3 /\ (0 \div 2) * 256 + (0 % 2) * 16 + 1 = 1
    BY DEF Class
  <2>2. b = AddTransactionId(AddHeader(TRUE, BINDING, 0), TransId)
    BY <2>1 DEF Header
  <2> DEFINE old == TRUE
             class == 0
             field == (class \div 2) * 256 + (class % 2) * 16 + 1
  <2>3. b = AddTransactionId(AddHeader(old, BINDING, class), TransId)
    BY <2>2
  <2>4. class \in 0 .. 3 /\ field = 1
    BY <2>1
  <2> HIDE DEF b, old, class
  <2>5. /\ Room(b, 0, 20) /\ b.legacy = old /\ b.field = field
        /\ \A type : ~HasAttribute(b, type)
    BY <2>3, <2>4, HeaderMade
  <2> HIDE DEF field
  <2> QED
    BY <2>4, <2>5 DEF old
<1>2. c = AddAttribute(b, "CHANGEREQUEST", 6, 4)
  BY DEF AddChangeRequest
<1>3. r1 = Parse(GetResult(b)) /\ r2 = Parse(GetResult(c))
  BY DEF test1, test2
<1> HIDE DEF b, c, r1, r2
<1>4. PICK a : /\ Longer(b, c, a) /\ a.type = "CHANGEREQUEST" /\ a.value = 6
               /\ a.size = 4 /\ a.bytes = 4
  <2>1. 4 \in Nat /\ 4 <= MaxAttribute /\ RoundUp4(4) = 4
    BY DEF MaxAttribute, RoundUp4
  <2> QED
    BY <1>1, <1>2, <2>1, AttributeAdded DEF Room
<1>5. Room(c, 5, 200) /\ c.field = 1
  <2>1. a.bytes \in Nat /\ 0 + 1 <= 5 /\ 20 + 4 + a.bytes <= 200
    BY <1>4
  <2>2. Room(c, 5, 200)
    BY <1>1, <1>4, <2>1, RoomGrows
  <2> QED
    BY <1>1, <1>4, <2>2 DEF Longer
<1>6. Room(b, 5, 200)
  BY <1>1, RoomWider
<1>7. 1 \in Fourteen /\ TypeOf(1) = BINDING /\ ClassOf(1) = 0
  BY DEF Fourteen, TypeOf, ClassOf, BINDING
<1>8. r1.state = "BodyValidated" /\ r1.class = 0 /\ r1.type = BINDING /\ r1.attrs = b.attrs
  BY <1>1, <1>3, <1>6, <1>7, ReadBack
<1>9. r2.state = "BodyValidated" /\ r2.class = 0 /\ r2.type = BINDING /\ r2.attrs = c.attrs
  BY <1>3, <1>5, <1>7, ReadBack
<1>10. \A type : ~HasAttribute(r1, type)
  BY <1>1, <1>8, SameLookup
<1>11. /\ \A type : HasAttribute(c, type) <=> type = "CHANGEREQUEST"
       /\ GetAttributeByType(c, "CHANGEREQUEST") = a
  BY <1>1, <1>4, LookupGrows DEF Room
<1>12. /\ \A type : HasAttribute(r2, type) <=> type = "CHANGEREQUEST"
       /\ GetAttributeByType(r2, "CHANGEREQUEST") = a
  BY <1>9, <1>11, SameLookup
<1>13. GetChangeRequest(r2).fChangeIP /\ GetChangeRequest(r2).fChangePort
  <2>1. (6 \div 4) % 2 = 1 /\ (6 \div 2) % 2 = 1
    OBVIOUS
  <2> QED
    BY <1>4, <1>12, <2>1 DEF GetChangeRequest
<1>14. Plain(r1) /\ Plain(r2)
  BY <1>8, <1>9, <1>10, <1>12 DEF Plain
<1> QED
  BY <1>13, <1>14 DEF r1, r2

\* A full server's answers to them.
LEMMA TestAnswers ==
  ASSUME NatEnv, env.full, NEW w \in {test1, test2}, Roles(Asks(w)) # {},
         NEW q \in Answer(Asks(w))
  PROVE  /\ q.dst = NatMapped /\ TellsOnly(q.msg.attrs, NatMapped)
         /\ w = test2 => q.src.ip # Server.ip
<1> DEFINE p == Asks(w)
           change == GetChangeRequest(Parse(p.msg))
<1>1. p.src = NatMapped /\ p.dst = Server /\ p.msg = w
  BY DEF Asks, Packet
<1>2. \A r \in Role : env.set[r].valid
  BY DEF NatEnv
<1> HIDE DEF p
<1>3. Plain(Parse(p.msg)) /\ (w = test2 => change.fChangeIP /\ change.fChangePort)
  BY <1>1, TestsRead
<1>4. /\ q.dst = p.src /\ TellsOnly(q.msg.attrs, p.src)
      /\ change.fChangeIP /\ change.fChangePort =>
           \E role \in Role : /\ PublicAddress(env.set, role) = p.dst
                              /\ q.src = PublicAddress(env.set, SwapPort(SwapIP(role)))
  BY <1>2, <1>3, AnswerGiven DEF p
<1> HIDE DEF change
<1>5. ASSUME w = test2 PROVE q.src.ip # Server.ip
  <2>1. PICK role \in Role : /\ PublicAddress(env.set, role) = Server
                             /\ q.src = PublicAddress(env.set, SwapPort(SwapIP(role)))
    BY <1>1, <1>3, <1>4, <1>5
  <2>2. PublicAddress(env.set, SwapPort(SwapIP(role))).ip # PublicAddress(env.set, role).ip
    BY DEF NatEnv
  <2> QED
    BY <2>1, <2>2
<1> QED
  BY <1>1, <1>4, <1>5

\* At most one.
LEMMA OneAnswer ==
  ASSUME NEW p
  PROVE  Answer(p) = {} \/ \E q : Answer(p) = {q}
<1> DEFINE x == ProcessRequest([role |-> CHOOSE r \in Roles(p) : TRUE, local |-> p.dst,
                                remote |-> p.src, reader |-> Parse(p.msg), tcp |-> FALSE],
                               env.set, "none", 0)
           y == Packet(PublicAddress(env.set, x.role), x.dest, x.msg)
<1>1. Answer(p) = IF x.dest = NoAddr THEN {} ELSE {y}
  BY DEF Answer
<1> HIDE DEF x, y
<1> QED
  BY <1>1

\* The NAT test's own address is no server's.
LEMMA NatApart ==
  ASSUME NatEnv, env.full, NEW p, p.dst = NatMapped
  PROVE  Roles(p) = {}
<1>1. NatMapped.ip \in {LocalIp, ExternalIp}
  <2>1. env.nat.map \in {"direct", "EIM", "ADM", "APDM"}
    BY DiscoveryAssumption DEF NatEnv
  <2>2. \A ip, port : Addr(ip, port).ip = ip
    BY AddrFields
  <2> QED
    BY <2>1, <2>2 DEF NatMapped, MappedAddress
<1>2. \A r \in Role : PublicAddress(env.set, r).ip \notin {LocalIp, ExternalIp}
  BY DEF NatEnv
<1>3. \A r \in Role : PublicAddress(env.set, r) # p.dst
  BY <1>1, <1>2
<1> QED
  BY <1>3 DEF Roles

\* And it is translated unless the NAT is none.
LEMMA NatSame ==
  ASSUME NatEnv, NatMapped.ip = env.source
  PROVE  env.nat.map = "direct"
<1>1. env.nat.map \in {"direct", "EIM", "ADM", "APDM"}
  BY DiscoveryAssumption DEF NatEnv
<1>2. \A ip, port : Addr(ip, port).ip = ip
  BY AddrFields
<1>3. env.nat.map # "direct" => NatMapped.ip = ExternalIp
  BY <1>1, <1>2 DEF NatMapped, MappedAddress
<1>4. ExternalIp # LocalIp /\ ExternalIp # NoIp
  BY DEF ExternalIp, LocalIp, NoIp
<1> QED
  BY <1>3, <1>4 DEF NatEnv

\* The one address is the one that the NAT test unpacks.
LEMMA Unpacked ==
  ASSUME NEW w, NEW x, TellsOnly(w.attrs, x), NEW y
  PROVE  stun_rsp_unpack(w, y) = x
<1> DEFINE found == {i \in DOMAIN w.attrs : w.attrs[i].type = "MAPPED"}
<1>1. PICK i \in DOMAIN w.attrs : /\ w.attrs[i].type = "MAPPED" /\ w.attrs[i].value = x
                                  /\ \A j \in DOMAIN w.attrs : w.attrs[j].type = "MAPPED" => j = i
  BY DEF TellsOnly
<1>2. found = {i}
  BY <1>1
<1>3. (CHOOSE m \in found : \A j \in found : m >= j) = i
  <2>1. i >= i
    BY DEF TellsOnly
  <2> HIDE DEF found
  <2> QED
    BY <1>2, <2>1
<1> QED
  BY <1>1, <1>2, <1>3 DEF stun_rsp_unpack

LEMMA NatStarts ==
  ASSUME NEW args, NEW map, NEW filter, NEW mode, NEW prog, NEW fixedPort, NEW source,
         NEW running, Start(args, map, filter, mode, prog, fixedPort, source, running),
         prog = "nat_test" => /\ args \in ServerArgs /\ map \in MapClasses
                              /\ filter \in FilterClasses /\ source \in {LocalIp, NoIp}
  PROVE  NatInv
<1> DEFINE config == BuildServerConfigurationFromArgs(args, Adapters)
           set == UdpAddressSet(config)
           full == config.has = Role
<1>1. /\ config.ok /\ (prog = "nat_test" => ~config.fTCP)
      /\ env = Env(prog, config.fTCP, fixedPort, source, [map |-> map, filter |-> filter], config)
      /\ n = do_test /\ net = {} /\ opened = {}
  BY DEF Start
<1>2. n = [pc |-> n.pc, mapped |-> n.mapped] /\ n.pc = "test1"
  BY <1>1 DEF do_test
<1>3. config.fTCP \in BOOLEAN
  <2>1. config # NoConfig
    BY <1>1 DEF NoConfig
  <2>2. PICK s : config = ConfigWith(args, s)
    BY <2>1 DEF BuildServerConfigurationFromArgs
  <2>3. ConfigWith(args, s).fTCP \in BOOLEAN
    BY DEF ConfigWith
  <2> QED
    BY <2>2, <2>3
<1> HIDE DEF config
<1>4. /\ env.prog = prog /\ env.tcp = config.fTCP /\ env.source = source
      /\ env.nat.map = map /\ env.nat.filter = filter /\ env.full = full
      /\ env.set = IF config.fTCP THEN TcpAddressSet(config) ELSE set
  <2> DEFINE tcpSet == TcpAddressSet(config)
  <2> HIDE DEF full, set, tcpSet
  <2> QED
    BY <1>1 DEF Env, full, set, tcpSet
<1>5. ASSUME prog = "nat_test" PROVE NatRun
  <2>1. env.tcp = FALSE /\ env.set = set
    BY <1>1, <1>3, <1>4, <1>5
  <2>2. ASSUME full, NEW r \in Role
        PROVE  /\ set[r].valid /\ PublicAddress(set, r).ip \notin {LocalIp, ExternalIp}
               /\ PublicAddress(set, SwapPort(SwapIP(r))).ip # PublicAddress(set, r).ip
    <3>1. config.has = Role /\ r \in config.has
      BY <2>2
    <3>2. /\ PublicAddress(set, r).ip \notin {LocalIp, ExternalIp}
          /\ PublicAddress(set, SwapPort(SwapIP(r))).ip # PublicAddress(set, r).ip
      BY <1>1, <1>5, <3>1, ServersAssumption DEF config
    <3>3. set[r].valid
      BY <3>1 DEF UdpAddressSet, AddSocket, SetEntry
    <3> QED
      BY <3>2, <3>3
  <2> HIDE DEF full, set
  <2>3. NatEnv
    BY <1>4, <1>5, <2>1, <2>2 DEF NatEnv
  <2>4. NatKnows
    BY <1>1, <1>2 DEF NatKnows, FirstInFlight
  <2> QED
    BY <1>1, <1>2, <2>3, <2>4 DEF NatRun
<1> QED
  BY <1>2, <1>4, <1>5 DEF NatInv

LEMMA InitNat == Init => NatInv
<1> SUFFICES ASSUME Init PROVE NatInv
  OBVIOUS
<1>1. CASE part = "discovery"
  <2>1. PICK args \in ServerArgs, map \in MapClasses, filter \in FilterClasses,
             mode \in ClientModes, prog \in {"stunclient", "nat_test"},
             fixedPort \in BOOLEAN, source \in {LocalIp, NoIp} :
          Start(args, map, filter, mode, prog, fixedPort, source, TRUE)
    BY <1>1 DEF Init, DiscoveryInit
  <2> QED
    BY <2>1, NatStarts
<1>2. CASE part # "discovery"
  <2> DEFINE args == CHOOSE a \in ServerArgs : BuildServerConfigurationFromArgs(a, Adapters).ok
  <2>1. Start(args, "direct", "EIF", "basic", "stunclient", TRUE, LocalIp, FALSE)
    BY <1>2 DEF Init, DiscoveryIdle
  <2> HIDE DEF args
  <2> QED
    BY <2>1, NatStarts
<1> QED
  BY <1>1, <1>2

LEMMA NatKept ==
  ASSUME env' = env
  PROVE  /\ NatMapped' = NatMapped /\ Server' = Server /\ (NatEnv => NatEnv')
         /\ Asks(test1)' = Asks(test1) /\ Asks(test2)' = Asks(test2)
<1>1. NatMapped' = NatMapped /\ Server' = Server
  BY DEF NatMapped, Server
<1>2. Asks(test1)' = Asks(test1) /\ Asks(test2)' = Asks(test2)
  BY <1>1 DEF Asks
<1>3. NatEnv => NatEnv'
  BY DEF NatEnv
<1> QED
  BY <1>1, <1>2, <1>3

\* A request is at the server, an answer is not.
LEMMA AtServer ==
  ASSUME NatEnv, env.full, NEW w
  PROVE  RolePP \in Roles(Asks(w))
<1>1. Asks(w).dst = Server
  BY DEF Asks, Packet
<1>2. env.set[RolePP].valid /\ RolePP \in Role
  BY DEF NatEnv, RolePP, Role
<1> QED
  BY <1>1, <1>2 DEF Roles, Server

LEMMA ServerNat ==
  ASSUME NatInv, NEW p \in net, ProcessRequestAndSendResponse(p)
  PROVE  NatInv'
<1>1. /\ UNCHANGED <<env, n, opened>> /\ Roles(p) # {}
      /\ net' = (IF env.prog = "nat_test" THEN net \ {p} ELSE net) \cup Answer(p)
  BY DEF ProcessRequestAndSendResponse
<1>2. CASE env.prog # "nat_test"
  BY <1>1, <1>2 DEF NatInv
<1>3. CASE env.prog = "nat_test"
  <2>1. NatRun /\ net' = (net \ {p}) \cup Answer(p)
    BY <1>1, <1>3 DEF NatInv
  <2>2. /\ NatMapped' = NatMapped /\ Server' = Server /\ NatEnv'
        /\ Asks(test1)' = Asks(test1) /\ Asks(test2)' = Asks(test2)
    BY <1>1, <2>1, NatKept DEF NatRun
  <2>3. opened' # {}
    BY <1>1, <2>1 DEF NatRun
  <2>4. ASSUME env.full PROVE NatKnows'
    <3>1. NatEnv /\ NatKnows
      BY <2>1, <2>4 DEF NatRun
    <3>2. CASE n.pc = "test1"
      <4>1. FirstInFlight
        BY <3>1, <3>2 DEF NatKnows
      <4>2. net = {Asks(test1)} /\ p = Asks(test1)
        BY <1>1, <2>4, <3>1, <4>1, NatApart DEF FirstInFlight
      <4>3. net' = Answer(Asks(test1))
        BY <2>1, <4>2
      <4>4. \A q \in Answer(Asks(test1)) : q.dst = NatMapped /\ TellsOnly(q.msg.attrs, NatMapped)
        BY <1>1, <2>4, <3>1, <4>2, TestAnswers
      <4>5. FirstInFlight'
        BY <2>2, <4>3, <4>4, OneAnswer DEF FirstInFlight
      <4> QED
        BY <1>1, <3>2, <4>5 DEF NatKnows
    <3>3. CASE n.pc \in {"test2", "test2open"}
      <4>1. SecondInFlight
        BY <3>1, <3>3 DEF NatKnows
      <4>2. net = {Asks(test2)} /\ p = Asks(test2)
        BY <1>1, <2>4, <3>1, <4>1, NatApart DEF SecondInFlight
      <4>3. net' = Answer(Asks(test2))
        BY <2>1, <4>2
      <4>4. \A q \in Answer(Asks(test2)) : q.dst = NatMapped /\ q.src.ip # Server.ip
        BY <1>1, <2>4, <3>1, <4>2, TestAnswers
      <4>5. SecondInFlight'
        BY <2>2, <4>3, <4>4, OneAnswer DEF SecondInFlight
      <4> QED
        BY <1>1, <3>1, <3>3, <4>5 DEF NatKnows
    <3>4. CASE n.pc \notin {"test1", "test2", "test2open"}
      BY <1>1, <3>1, <3>4 DEF NatKnows
    <3> QED
      BY <3>2, <3>3, <3>4
  <2>5. NatRun'
    BY <1>1, <2>1, <2>2, <2>3, <2>4 DEF NatRun
  <2> QED
    BY <1>1, <1>3, <2>5 DEF NatInv
<1> QED
  BY <1>2, <1>3

\* What a request that is sent adds.
LEMMA EntersTest ==
  ASSUME NatEnv, NEW next, NEW left, EnterTest(next, left)
  PROVE  IF next.pc \in Verdicts THEN net' = left /\ opened' = opened
         ELSE net' = left \cup {Asks(NatRequest(next.pc))}
              /\ opened' = opened \cup {<<NatMapped, Server>>}
<1>1. LocalAddress = Addr(LocalIp, 1)
  BY DEF LocalAddress, NatEnv
<1>2. MappedAddress(env.nat, LocalAddress, Server) = NatMapped
  BY <1>1 DEF NatMapped
<1> QED
  BY <1>2 DEF EnterTest, Asks

LEMMA BeginNat == NatInv /\ NatBegin => NatInv'
<1> SUFFICES ASSUME NatInv, NatBegin PROVE NatInv'
  OBVIOUS
<1>1. /\ env.prog = "nat_test" /\ n.pc \notin Verdicts /\ opened = {}
      /\ EnterTest(n, net) /\ UNCHANGED <<env, n>>
  BY DEF NatBegin, IsNatTest
<1>2. NatRun /\ n.pc = "test1" /\ net = {} /\ NatEnv
  BY <1>1 DEF NatInv, NatRun
<1>3. net' = {Asks(test1)} /\ opened' = {<<NatMapped, Server>>}
  <2>1. NatRequest(n.pc) = test1
    BY <1>2 DEF NatRequest
  <2> QED
    BY <1>1, <1>2, <2>1, EntersTest
<1>4. /\ NatMapped' = NatMapped /\ Server' = Server /\ NatEnv' /\ Asks(test1)' = Asks(test1)
  BY <1>1, <1>2, NatKept
<1>5. NatKnows'
  BY <1>1, <1>2, <1>3, <1>4 DEF NatKnows, FirstInFlight
<1>6. NatRun'
  BY <1>3, <1>4, <1>5 DEF NatRun
<1> QED
  BY <1>1, <1>6 DEF NatInv

\* An answer comes while one is awaited: what is known of it then.
LEMMA ReceivedNat ==
  ASSUME NatEnv, NatKnows, env.full, opened \subseteq {<<NatMapped, Server>>},
         NEW p \in net, ForClient(p)
  PROVE  /\ n.pc = "test1" => net = {p} /\ stun_rsp_unpack(p.msg, n.mapped) = NatMapped
         /\ n.pc \in {"test2", "test2open"} => env.nat.filter = "EIF"
<1>1. Roles(p) = {} /\ Allowed(p)
  BY DEF ForClient
<1>2. ASSUME n.pc = "test1" PROVE net = {p} /\ stun_rsp_unpack(p.msg, n.mapped) = NatMapped
  <2>1. FirstInFlight
    BY <1>2 DEF NatKnows
  <2>2. p # Asks(test1)
    BY <1>1, AtServer
  <2>3. net = {p} /\ TellsOnly(p.msg.attrs, NatMapped)
    BY <2>1, <2>2 DEF FirstInFlight
  <2> QED
    BY <2>3, Unpacked, ZenonT(30), SMTT(60)
<1>3. ASSUME n.pc \in {"test2", "test2open"} PROVE env.nat.filter = "EIF"
  <2>1. SecondInFlight
    BY <1>3 DEF NatKnows
  <2>2. p # Asks(test2)
    BY <1>1, AtServer
  <2>3. p.src.ip # Server.ip
    BY <2>1, <2>2 DEF SecondInFlight
  <2>4. PICK o \in opened :
          CASE env.nat.filter = "EIF"  -> TRUE
            [] env.nat.filter = "ADF"  -> o[2].ip = p.src.ip
            [] env.nat.filter = "APDF" -> o[2] = p.src
    BY <1>1 DEF Allowed
  <2>5. o[2] = Server
    BY <2>4
  <2>6. env.nat.filter \in {"EIF", "ADF", "APDF"}
    BY DiscoveryAssumption DEF NatEnv
  <2> QED
    BY <2>3, <2>4, <2>5, <2>6
<1> QED
  BY <1>2, <1>3

\* The request or the verdict that a test is followed by.
LEMMA Decided ==
  ASSUME NEW m, NEW ok \in BOOLEAN, NEW source,
         m.pc \in {"test1", "test2", "test2open", "test1again", "test3"}
  PROVE  LET pc2 == Decide(m, ok, source)
         IN  /\ pc2 \in (Verdicts \cup {"test2", "test2open", "test1again", "test3"})
             /\ pc2 \in {"test2", "test2open"} => m.pc = "test1" /\ ok
             /\ pc2 = "test2open" => m.mapped.ip = source
             /\ pc2 = "FULL_CONE" => m.pc = "test2" /\ ok
             /\ pc2 = "OPEN_INTERNET" => m.pc = "test2open" /\ ok
             /\ pc2 = "SYM_UDP_FIREWALL" => m.pc = "test2open"
  BY DEF Decide, Verdicts

LEMMA ReceiveNat ==
  ASSUME NatInv, NEW p \in net, NatReceive(p)
  PROVE  NatInv'
<1> DEFINE m == [n EXCEPT !.mapped = stun_rsp_unpack(p.msg, n.mapped)]
           ok == TRUE
           pc2 == Decide(m, ok, env.source)
<1>1. /\ env.prog = "nat_test" /\ n.pc \notin Verdicts /\ ForClient(p)
      /\ EnterTest(n', net \ {p}) /\ env' = env /\ n' = [m EXCEPT !.pc = pc2]
  BY DEF NatReceive, IsNatTest
<1>2. NatRun /\ NatEnv /\ opened \subseteq {<<NatMapped, Server>>} /\ (env.full => NatKnows)
      /\ n.pc \in {"test1", "test2", "test2open", "test1again", "test3"}
  BY <1>1 DEF NatInv, NatRun
<1>3. /\ m.pc = n.pc /\ m.mapped = stun_rsp_unpack(p.msg, n.mapped)
      /\ m = [pc |-> m.pc, mapped |-> m.mapped]
  BY DEF NatInv
<1>a. ok \in BOOLEAN
  OBVIOUS
<1> HIDE DEF m, ok
<1>4. /\ pc2 \in (Verdicts \cup {"test2", "test2open", "test1again", "test3"})
      /\ pc2 \in {"test2", "test2open"} => m.pc = "test1"
      /\ pc2 = "test2open" => m.mapped.ip = env.source
      /\ pc2 = "FULL_CONE" => m.pc = "test2"
      /\ pc2 = "OPEN_INTERNET" => m.pc = "test2open"
      /\ pc2 = "SYM_UDP_FIREWALL" => m.pc = "test2open"
  BY <1>2, <1>3, <1>a, Decided
<1> HIDE DEF pc2
<1>5. n' = [pc |-> pc2, mapped |-> m.mapped] /\ n'.pc = pc2
  BY <1>1, <1>3
<1>6. IF n'.pc \in Verdicts THEN net' = net \ {p} /\ opened' = opened
      ELSE net' = (net \ {p}) \cup {Asks(NatRequest(n'.pc))}
           /\ opened' = opened \cup {<<NatMapped, Server>>}
  BY <1>1, <1>2, EntersTest
<1>7. opened # {}
  BY <1>1 DEF ForClient, Allowed
<1>8. /\ NatMapped' = NatMapped /\ Server' = Server /\ NatEnv'
      /\ Asks(test1)' = Asks(test1) /\ Asks(test2)' = Asks(test2)
  BY <1>1, <1>2, NatKept
<1>9. ASSUME env.full PROVE NatKnows'
  <2>1. NatKnows
    BY <1>2, <1>9
  <2>2. /\ n.pc = "test1" => net = {p} /\ m.mapped = NatMapped
        /\ n.pc \in {"test2", "test2open"} => env.nat.filter = "EIF"
    BY <1>1, <1>2, <1>3, <1>9, <2>1, ReceivedNat
  <2>3. pc2 = "test1" => FALSE
    BY <1>4 DEF Verdicts
  <2>4. ASSUME pc2 \in {"test2", "test2open"} PROVE SecondInFlight'
    <3>1. net = {p}
      BY <1>3, <1>4, <2>2, <2>4
    <3>2. n'.pc \notin Verdicts /\ NatRequest(n'.pc) = test2
      BY <1>5, <2>4 DEF Verdicts, NatRequest
    <3>3. net' = {Asks(test2)}
      BY <1>6, <3>1, <3>2
    <3> QED
      BY <1>8, <3>3 DEF SecondInFlight
  <2>5. pc2 = "test2open" => env.nat.map = "direct"
    BY <1>2, <1>3, <1>4, <2>2, NatSame
  <2>6. pc2 \in {"FULL_CONE", "OPEN_INTERNET"} => env.nat.filter = "EIF"
    BY <1>3, <1>4, <2>2
  <2>7. pc2 \in {"OPEN_INTERNET", "SYM_UDP_FIREWALL"} => env.nat.map = "direct"
    BY <1>3, <1>4, <2>1 DEF NatKnows
  <2> QED
    BY <1>1, <1>5, <2>3, <2>4, <2>5, <2>6, <2>7 DEF NatKnows
<1>10. opened' \subseteq {<<NatMapped, Server>>} /\ opened' # {}
  BY <1>2, <1>6, <1>7
<1>11. NatRun'
  BY <1>1, <1>8, <1>9, <1>10 DEF NatRun
<1> QED
  BY <1>1, <1>4, <1>5, <1>11 DEF NatInv

LEMMA TimeoutNat == NatInv /\ NatTimeout => NatInv'
<1> SUFFICES ASSUME NatInv, NatTimeout PROVE NatInv'
  OBVIOUS
<1> DEFINE ok == FALSE
           pc2 == Decide(n, ok, env.source)
<1>1. /\ env.prog = "nat_test" /\ n.pc \notin Verdicts /\ opened # {}
      /\ EnterTest(n', net) /\ env' = env /\ n' = [n EXCEPT !.pc = pc2]
  BY DEF NatTimeout, IsNatTest
<1>2. NatRun /\ NatEnv /\ opened \subseteq {<<NatMapped, Server>>} /\ (env.full => NatKnows)
      /\ n.pc \in {"test1", "test2", "test2open", "test1again", "test3"}
  BY <1>1 DEF NatInv, NatRun
<1>a. ok \in BOOLEAN /\ ~ok
  OBVIOUS
<1> HIDE DEF ok
<1>3. /\ pc2 \in (Verdicts \cup {"test2", "test2open", "test1again", "test3"})
      /\ pc2 \notin {"test2", "test2open", "FULL_CONE", "OPEN_INTERNET"}
      /\ pc2 = "SYM_UDP_FIREWALL" => n.pc = "test2open"
  BY <1>2, <1>a, Decided
<1> HIDE DEF pc2
<1>4. n' = [pc |-> pc2, mapped |-> n.mapped] /\ n'.pc = pc2
  BY <1>1 DEF NatInv
<1>5. IF n'.pc \in Verdicts THEN net' = net /\ opened' = opened
      ELSE opened' = opened \cup {<<NatMapped, Server>>}
  BY <1>1, <1>2, EntersTest
<1>6. NatMapped' = NatMapped /\ Server' = Server /\ NatEnv'
  BY <1>1, <1>2, NatKept
<1>7. ASSUME env.full PROVE NatKnows'
  <2>1. pc2 # "test1"
    BY <1>3 DEF Verdicts
  <2> QED
    BY <1>1, <1>2, <1>3, <1>4, <1>7, <2>1 DEF NatKnows
<1>8. opened' \subseteq {<<NatMapped, Server>>} /\ opened' # {}
  BY <1>1, <1>2, <1>5
<1>9. NatRun'
  BY <1>1, <1>6, <1>7, <1>8 DEF NatRun
<1> QED
  BY <1>1, <1>3, <1>4, <1>9 DEF NatInv

LEMMA NextNat == NatInv /\ [Next]_vars => NatInv'
<1> SUFFICES ASSUME NatInv, [Next]_vars PROVE NatInv'
  OBVIOUS
<1>1. CASE UNCHANGED <<env, n, net, opened>>
  <2>1. /\ NatMapped' = NatMapped /\ Server' = Server /\ (NatEnv => NatEnv')
        /\ Asks(test1)' = Asks(test1) /\ Asks(test2)' = Asks(test2)
    BY <1>1, NatKept
  <2>2. (FirstInFlight => FirstInFlight') /\ (SecondInFlight => SecondInFlight')
    BY <1>1, <2>1 DEF FirstInFlight, SecondInFlight
  <2>3. NatKnows => NatKnows'
    BY <1>1, <2>2 DEF NatKnows
  <2>4. NatRun => NatRun'
    BY <1>1, <2>1, <2>3 DEF NatRun
  <2> QED
    BY <1>1, <2>4 DEF NatInv
\* The STUN client at work.
<1>2. ASSUME env.prog # "nat_test", UNCHANGED <<env, n>> PROVE NatInv'
  BY <1>2 DEF NatInv
<1>3. CASE Begin \/ (\E p \in net : UdpReceive(p)) \/ UdpTimeout
  <2>1. env.prog # "nat_test" /\ UNCHANGED <<env, n>>
    BY <1>3 DEF Begin, UdpReceive, UdpTimeout, IsUdpClient
  <2> QED
    BY <1>2, <2>1
<1>4. CASE TcpRound \/ TcpStillWaiting \/ TcpReceive
  <2>1. env.prog # "nat_test" /\ UNCHANGED <<env, n>>
    BY <1>4 DEF TcpRound, TcpStillWaiting, TcpReceive, IsTcpClient
  <2> QED
    BY <1>2, <2>1
<1>5. CASE \E p \in net : ProcessRequestAndSendResponse(p)
  BY <1>5, ServerNat
<1>6. CASE NatBegin
  BY <1>6, BeginNat
<1>7. CASE \E p \in net : NatReceive(p)
  BY <1>7, ReceiveNat
<1>8. CASE NatTimeout
  BY <1>8, TimeoutNat
<1>9. CASE Stay
  BY <1>1, <1>9 DEF Stay, discoveryVars
<1>10. CASE Discover
  BY <1>3, <1>4, <1>5, <1>6, <1>7, <1>8, <1>9, <1>10 DEF Discover, DiscoveryNext
<1>11. CASE Stream \/ Serve \/ Poll \/ ReadConf \/ Signal \/ UNCHANGED vars
  BY <1>1, <1>11 DEF Stream, Serve, Poll, ReadConf, Signal, vars, discoveryVars
<1> QED
  BY <1>10, <1>11 DEF Next

\* The invariant of the NAT test: what is on its way is what the current test
\* asked for, and the first answer decides whether the address is translated.
THEOREM NatInvariant == Spec => []NatInv
<1>1. Spec => Init /\ [][Next]_vars
  BY PTL DEF Spec
<1> QED
  BY <1>1, InitNat, NextNat, PTL

\* The verdicts of the peer's NAT test are sound against a full server: none
\* calls open what is not, none calls an address its own that is translated
\* (do_test), whatever the addresses, the NAT and the losses.
THEOREM NatVerdictAlwaysSound == Spec => []NatVerdictSound
<1>1. NatInv => NatVerdictSound
  BY DEF NatInv, NatRun, NatKnows, NatVerdictSound
<1> QED
  BY <1>1, NatInvariant, PTL
=============================================================================
