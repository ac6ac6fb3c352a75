----------------------------- MODULE ConfReader -----------------------------
(***************************************************************************)
(* The configuration file of nose (src/conf/conf-reader.c).  A line is     *)
(* [key, value, ending]: the characters before and behind the first '='    *)
(* and the line's ending; only the last line can be without one.           *)
(***************************************************************************)
EXTENDS Naturals, Sequences, SequencesExt

Ending == [lf |-> <<"LF">>, crlf |-> <<"CR", "LF">>, none |-> <<>>]

\* Mutant: two characters are cut off, as for a line that ends in CR LF.
conf_parser_crlf(lines) ==
  [i \in 1..Len(lines) |->
     LET rest == lines[i].value \o Ending[lines[i].ending]
     IN  [key |-> lines[i].key, value |-> SubSeq(rest, 1, Len(rest) - 2)]]

(* The value takes as many characters as the line has behind the '=', less *)
(* one, whatever the last one is.  Lines without '=', a value that is      *)
(* empty on a last line without a line feed (both give strncpy a negative  *)
(* length) and lines too long for one fgets are left out.                  *)
conf_parser(lines) ==
  [i \in 1..Len(lines) |->
     LET rest == lines[i].value \o Ending[lines[i].ending]
     IN  [key |-> lines[i].key, value |-> SubSeq(rest, 1, Len(rest) - 1)]]

(* Every line becomes an item, in order.                                   *)
read_conf(lines) == conf_parser(lines)

NotFound == <<"not found">>

(* The first item under the key.                                           *)
get_value(items, key) ==
  LET found == {i \in DOMAIN items : items[i].key = key}
  IN  IF found = {} THEN NotFound
      ELSE items[CHOOSE i \in found : \A j \in found : i <= j].value
=============================================================================
