----------------------------- MODULE UriParser -----------------------------
(* Uri::Create (uri.rl.cc): the machine of UriMachine over one string, and  *)
(* the pieces of the URI that its actions save.                             *)
EXTENDS UriMachine, ParserMarks

VARIABLES
  ucs,
  uphase,      \* "execute", "eof" once the string has ended, "over"
  utodo, ucur, uprev,
  umark,       \* mark of Create; Unset is NULL
  uhost,       \* the byte before the host that is saved, "none" before
  saved,       \* the pieces saved so far
  ulast,       \* the piece saved last at the current byte, and from where
  place,       \* the part of the URI the next byte belongs to, by the delimiters alone
  parts,       \* the parts met so far
  colondigit,  \* the first colon of the authority was followed by a digit
  emptyport    \* a port without digits was met

ughosts == <<place, parts, colondigit, emptyport>>
uriVars == <<ucs, uphase, utodo, ucur, uprev, umark, uhost, saved, ulast, ughosts>>

UriDelim == {":", "@", "/", "?", "#"}
UriCoarse(b) == IF b \in UriDelim THEN b ELSE "x"
UriStrength(b) == CASE b = ":" -> 1 [] b = "@" -> 2 [] b = "/" -> 3 [] b = "?" -> 4 [] b = "#" -> 5 [] OTHER -> 0
Pieces == {"scheme", "userinfo", "host", "port", "path", "query", "fragment"}
UriNoCall == [piece |-> "none", at |-> Unset]

(* The syntax of RFC 3986 by its delimiters: which part of the URI follows  *)
(* the delimiter b in the part pl.                                          *)
PartAfter(pl, b) ==
  CASE b = "#" -> "fragment"
    [] pl = "fragment" -> "fragment"
    [] b = "?" -> "query"
    [] pl = "query" -> "query"
    [] pl \in {"start", "colon"} /\ b = "/" -> "slash"
    [] pl = "slash" /\ b = "/" -> "authority"
    [] pl = "name" /\ b = ":" -> "colon"
    [] pl = "start" /\ b = "x" -> "name"
    [] pl \in {"name", "authority"} /\ b # "/" -> pl
    [] OTHER -> "path"

UriInit ==
  /\ ucs = 451 /\ uphase = "execute" /\ utodo = <<>> /\ ucur = "none" /\ uprev = "none"
  /\ umark = Unset /\ uhost = "none" /\ saved = {} /\ ulast = UriNoCall
  /\ place = "start" /\ parts = {} /\ colondigit = FALSE /\ emptyport = FALSE

-----------------------------------------------------------------------------
UriByte(b) ==
  /\ uphase = "execute" /\ ucur = "none" /\ ucs # 0
  /\ LET m == Move(UriTable, ucs, b) IN ucs' = m.to /\ utodo' = m.do
  /\ ucur' = UriCoarse(b)
  /\ colondigit' = (colondigit \/ (place = "authority" /\ uprev = ":" /\ b \in UDigit /\ "colon2" \notin parts))
  /\ UNCHANGED <<uphase, uprev, umark, uhost, saved, ulast, place, parts, emptyport>>

(* ++p.                                                                     *)
UriAdvance ==
  /\ uphase = "execute" /\ ucur # "none" /\ utodo = <<>> /\ ucs # 0
  /\ umark' = Pass(umark, UriStrength(ucur))
  /\ uprev' = ucur /\ ucur' = "none" /\ ulast' = UriNoCall
  /\ place' = PartAfter(place, ucur)
  /\ parts' = parts \cup {PartAfter(place, ucur)}
              \cup (IF place = "authority" /\ ucur = "@" THEN {"at"} ELSE {})
              \cup (IF place = "authority" /\ uprev = ":" THEN {"colon2"} ELSE {})
  /\ UNCHANGED <<ucs, uphase, utodo, uhost, saved, colondigit, emptyport>>

(* p == eof: the actions of the final states.                               *)
UriEnd ==
  /\ uphase = "execute" /\ ucur = "none" /\ ucs # 0
  /\ uphase' = "eof" /\ utodo' = Move(UriTable, ucs, "EOF").do
  /\ UNCHANGED <<ucs, ucur, uprev, umark, uhost, saved, ulast, ughosts>>

(* Create returns the Uri, or nullptr.                                      *)
UriReturn ==
  /\ (uphase = "eof" /\ utodo = <<>>) \/ (uphase = "execute" /\ ucs = 0)
  /\ uphase' = "over"
  /\ UNCHANGED <<ucs, utodo, ucur, uprev, umark, uhost, saved, ulast, ughosts>>
uriReturned == uphase = "over" /\ ucs >= uri_first_final

-----------------------------------------------------------------------------
UriRuns(a) == utodo # <<>> /\ Head(utodo) = a /\ utodo' = Tail(utodo)
UriSame == UNCHANGED <<ucs, uphase, ucur, uprev, place, parts, colondigit>>

UriMark ==
  /\ UriRuns("marku") \/ UriRuns("markh")
  /\ umark' = MarkAt(uprev)
  /\ UNCHANGED <<uhost, saved, ulast, emptyport>> /\ UriSame

Saves(piece) ==
  /\ saved' = saved \cup {piece} /\ ulast' = [piece |-> piece, at |-> umark]
  /\ UriSame
(* Every piece but the host sets mark to NULL.                              *)
SavesText(piece) == Saves(piece) /\ umark' = Unset /\ UNCHANGED <<uhost, emptyport>>
save_scheme == UriRuns("save_scheme") /\ SavesText("scheme")
save_path == UriRuns("save_path") /\ SavesText("path")
save_query == UriRuns("save_query") /\ SavesText("query")
save_fragment == UriRuns("save_fragment") /\ SavesText("fragment")
save_userinfo ==
  /\ UriRuns("save_userinfo")
  /\ IF umark.kind # "unset" THEN SavesText("userinfo") ELSE UNCHANGED <<umark, saved, ulast, uhost, emptyport>> /\ UriSame
save_port ==
  /\ UriRuns("save_port") /\ umark' = Unset
  /\ IF umark.any THEN Saves("port") /\ UNCHANGED emptyport
     ELSE emptyport' = TRUE /\ UNCHANGED <<saved, ulast>> /\ UriSame
  /\ UNCHANGED uhost
save_host ==
  /\ UriRuns("save_host")
  /\ IF umark.kind # "unset" THEN Saves("host") /\ uhost' = umark.after ELSE UNCHANGED <<saved, ulast, uhost>> /\ UriSame
  /\ UNCHANGED <<umark, emptyport>>

UriAction ==
  UriMark \/ save_scheme \/ save_path \/ save_query \/ save_fragment \/ save_userinfo \/ save_port \/ save_host
UriNext == (\E b \in UriBytes : UriByte(b)) \/ UriAdvance \/ UriEnd \/ UriReturn \/ UriAction
UriSpec == UriInit /\ [][UriNext]_uriVars

-----------------------------------------------------------------------------
(* save_path, save_query, save_fragment and save_scheme make a string from  *)
(* mark without a test. mark is NULL there exactly when the path follows a  *)
(* port without digits ("http://host:/path"): ragel runs markh once in the  *)
(* transition, before save_port, which then clears mark.                    *)
NullMarkAfterEmptyPort ==
  ulast.piece # "none" => (ulast.at.kind = "unset" <=> ulast.piece = "path" /\ emptyport)

(* A piece contains none of the delimiters that end it.                     *)
PieceBound(piece) ==
  CASE piece \in {"scheme", "port"} -> 0 [] piece \in {"userinfo", "host"} -> 1 [] piece = "path" -> 3 [] OTHER -> 4
PieceExact == ulast.piece # "none" => ulast.at.worst <= PieceBound(ulast.piece)

(* The user information begins after "//", except that a digit after its    *)
(* first colon sets mark again for a port, and what was before is lost.     *)
UserinfoStart ==
  ulast.piece = "userinfo" => ulast.at.after = IF colondigit THEN ":" ELSE "/"

(* The host that Create returns begins after the "@" when the authority has *)
(* one: what save_host stored before the "@" was seen is replaced.          *)
HostFinal == uriReturned /\ "authority" \in parts => uhost = IF "at" \in parts THEN "@" ELSE "/"

(* Every piece that Create saves begins and ends at its delimiters, but for *)
(* the two exceptions above.                                                *)
UriPieces == NullMarkAfterEmptyPort /\ PieceExact /\ UserinfoStart /\ HostFinal

(* Create saves each part that the delimiters of the URI announce, and no   *)
(* other, but the path only of a URI with a scheme and an authority.        *)
PartsSaved ==
  uriReturned =>
    /\ "scheme" \in saved <=> "colon" \in parts
    /\ "host" \in saved <=> "authority" \in parts
    /\ "query" \in saved <=> "query" \in parts
    /\ "fragment" \in saved <=> "fragment" \in parts
    /\ "path" \in saved <=> {"colon", "authority"} \subseteq parts
=============================================================================
