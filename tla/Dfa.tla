-------------------------------- MODULE Dfa --------------------------------
(***************************************************************************)
(* The automaton of src/dfa.c with the matrix of src/dfa_state.h: the cell *)
(* at line s and column t is the condition that leads from state s to t, 0 *)
(* for none.  No source of the built program uses it yet.                  *)
(***************************************************************************)
EXTENDS Naturals, Sequences, FiniteSets

S_START == 1
S_AUTHEN == 2
S_KEY_EX == 3
S_RUN == 4
State == S_START..S_RUN

C_START_AUTHEN == 1
C_AUTHEN_FAILED == 2
C_START_KEYEXC == 3
C_KEY_EXEC_FAILED == 4
C_KEY_EXEC_SUCCESS == 5
C_SEND_PAY_LOAD == 6
Condition == C_START_AUTHEN..C_SEND_PAY_LOAD

state_matrix == << <<0, C_START_AUTHEN, 0, 0>>,
                   <<C_AUTHEN_FAILED, 0, C_START_KEYEXC, 0>>,
                   <<0, C_KEY_EXEC_FAILED, 0, C_KEY_EXEC_SUCCESS>>,
                   <<0, 0, 0, C_SEND_PAY_LOAD>> >>

init_dfa == S_START

First(set) == CHOOSE s \in set : \A t \in set : s <= t

\* Mutant: the column alone is searched.
set_next_dfa_state_column(state, condition) ==
  LET lines == {s \in State : state_matrix[s][state] = condition}
  IN  IF lines # {} THEN First(lines) ELSE state

(* The state's column is searched first, against the direction of the      *)
(* matrix, then its line; without a match the state stays.                 *)
set_next_dfa_state(state, condition) ==
  LET lines == {s \in State : state_matrix[s][state] = condition}
      cols  == {s \in State : state_matrix[state][s] = condition}
  IN  IF lines # {} THEN First(lines) ELSE IF cols # {} THEN First(cols) ELSE state
=============================================================================
