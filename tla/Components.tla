----------------------------- MODULE Components -----------------------------
(***************************************************************************)
(* The parts that do not share state, side by side: NAT discovery, the     *)
(* STUN message stream, the server program, the poll set, nose's           *)
(* configuration file and its automaton.  A behaviour exercises one of     *)
(* them, chosen at the start.                                              *)
(***************************************************************************)
EXTENDS StunDiscovery, StunStream, ServerMain, PollSet, ConfReader, Dfa

CONSTANTS
  ConfFiles       \* configuration files, sequences of lines

(* Files and values are sequences, of lines and of characters.             *)
ASSUME ConfAssumption ==
  \A f \in ConfFiles :
    /\ f \in Seq(ToSet(f))
    /\ \A i \in 1..Len(f) : f[i].value \in Seq(ToSet(f[i].value))

VARIABLES
  part,           \* the part this behaviour is about
  conf,           \* the file and the items read from it
  dfa             \* the automaton's state, the one before, and the condition

vars == <<part, discoveryVars, st, mainVars, pollVars, conf, dfa>>

(* main reads its configuration once.                                      *)
ReadConf ==
  /\ part = "conf"
  /\ \E f \in ConfFiles : conf' = [lines |-> f, items |-> read_conf(f)]
  /\ UNCHANGED <<part, discoveryVars, st, mainVars, pollVars, dfa>>

(* A condition is signalled, whatever the state.                           *)
Signal ==
  /\ part = "dfa"
  /\ \E c \in Condition :
       dfa' = [state |-> set_next_dfa_state(dfa.state, c), from |-> dfa.state, cond |-> c]
  /\ UNCHANGED <<part, discoveryVars, st, mainVars, pollVars, conf>>

Discover ==
  /\ part = "discovery" /\ DiscoveryNext
  /\ UNCHANGED <<part, st, mainVars, pollVars, conf, dfa>>

Stream ==
  /\ part = "stream" /\ StreamNext
  /\ UNCHANGED <<part, discoveryVars, mainVars, pollVars, conf, dfa>>

Serve ==
  /\ part = "main" /\ MainNext
  /\ UNCHANGED <<part, discoveryVars, st, pollVars, conf, dfa>>

Poll ==
  /\ part = "poll" /\ PollNext
  /\ UNCHANGED <<part, discoveryVars, st, mainVars, conf, dfa>>

Idle == [phase |-> "idle"]

Init ==
  /\ part \in {"discovery", "stream", "main", "poll", "conf", "dfa"}
  /\ IF part = "discovery" THEN DiscoveryInit ELSE DiscoveryIdle
  /\ st \in IF part = "stream" THEN {StreamStart(o) : o \in StreamOptions} ELSE {Idle}
  /\ \E f \in IF part = "main" THEN ServerFiles ELSE {<<>>} : LoadConfigsFromFile(f)
  /\ PollStart
  /\ conf = [lines |-> <<>>, items |-> <<>>]
  /\ dfa = [state |-> init_dfa, from |-> init_dfa, cond |-> 0]

Next == Discover \/ Stream \/ Serve \/ Poll \/ ReadConf \/ Signal

(* See StunDiscovery and PollSet.                                          *)
Fairness == DiscoveryFairness /\ PollFairness

Spec == Init /\ [][Next]_vars /\ Fairness
-----------------------------------------------------------------------------
(* A value whose line ends in a line feed is read exactly, whatever the    *)
(* other lines end in, and the first line with a key is the one that       *)
(* counts (conf_parser, get_value).                                        *)
ConfExact ==
  \A i \in 1..Len(conf.lines) :
    LET l == conf.lines[i] IN
    /\ l.ending = "lf"
    /\ \A j \in 1..(i - 1) : conf.lines[j].key # l.key
    => get_value(conf.items, l.key) = l.value

(* A condition that the matrix has in the line of the current state leads  *)
(* to that column, although the column is searched first                   *)
(* (set_next_dfa_state).                                                   *)
DfaFollowsMatrix ==
  \A s \in State :
    dfa.cond # 0 /\ state_matrix[dfa.from][s] = dfa.cond => dfa.state = s
=============================================================================
