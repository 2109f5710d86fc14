------------------------------- MODULE Ragel -------------------------------
(* How the three generated parsers (http11_parser.rl.cc,                    *)
(* httpclient_parser.rl.cc, uri.rl.cc) are written down here. The generated *)
(* code is a switch over the current state with a goto for every range of   *)
(* bytes; an edge <<s, C, A, t>> stands for "in state s, on a byte of the   *)
(* classes C, run the actions A in this order and go to t". Bytes that no   *)
(* state of a machine tells apart form one class, named after one of them   *)
(* or after what it is (SP, CR, LF, NUL; HI is 128 to 255). A byte without  *)
(* an edge leads to the error state 0.                                      *)
EXTENDS Naturals, Sequences

(* An edge without actions, and one with actions.                           *)
Go(s, C, t) == {<<s, C, <<>>, t>>}
Do(s, C, A, t) == {<<s, C, A, t>>}

(* The states s, s + 1, ... that spell the word w, a sequence of classes.   *)
Spell(s, w) == UNION {Go(s + i - 1, {w[i]}, s + i) : i \in 1..Len(w)}

(* A percent sign has been read: two hexadecimal digits in the states s and *)
(* s + 1, then back to t.                                                   *)
Pct(s, Hex, t) == Go(s, Hex, s + 1) \cup Go(s + 1, Hex, t)

(* The table of a machine: for every state its edges.                       *)
Table(Edges, n) == [s \in 0..n |-> {e \in Edges : e[1] = s}]

(* What the byte c does in state s: the actions and the next state.         *)
Move(table, s, c) ==
  LET E == {e \in table[s] : c \in e[2]}
  IN IF E = {} THEN [do |-> <<>>, to |-> 0]
     ELSE LET e == CHOOSE x \in E : TRUE IN [do |-> e[3], to |-> e[4]]
=============================================================================
