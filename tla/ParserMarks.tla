---------------------------- MODULE ParserMarks ----------------------------
(* The offsets that the generated parsers keep (mark, field_start,          *)
(* query_start). What a callback receives is the bytes between such an      *)
(* offset and the current byte, so a mark stands for what those bytes are:  *)
(*   kind   "set" at a byte of the buffer; "start", the beginning of the    *)
(*          buffer, where every execute puts it back; "stale", an offset    *)
(*          into an earlier buffer; "used", where a token that has been     *)
(*          delivered began; "unset", never written, or NULL                *)
(*   after  the byte before it                                              *)
(*   any    whether bytes have been passed since                            *)
(*   worst  the strongest delimiter among them, 0 when there is none        *)
EXTENDS Naturals

LOCAL M(k, b) == [kind |-> k, after |-> b, any |-> FALSE, worst |-> 0]
MarkAt(before) == M("set", before)
BufferStart == M("start", "x")
Stale == M("stale", "x")
Used == M("used", "x")
Unset == M("unset", "x")

(* A byte is passed; w is its strength as a delimiter.                      *)
Pass(m, w) ==
  CASE m.kind = "set" -> [m EXCEPT !.any = TRUE, !.worst = IF w > @ THEN w ELSE @]
    [] m.kind = "start" -> [m EXCEPT !.any = TRUE]
    [] OTHER -> m

(* The bytes from m on are all of the token, not what is left of it in the  *)
(* last buffer.                                                             *)
Whole(m) == m.kind = "set"

Marks(Before, n) ==
  [kind : {"set", "start", "stale", "used", "unset"}, after : Before \cup {"x"}, any : BOOLEAN, worst : 0..n]
=============================================================================
