----------------------------- MODULE NaxsiItems -----------------------------
(***************************************************************************)
(* How a text the client sent is cut into the items the rules are run on:  *)
(* a query string or urlencoded body (ngx_http_spliturl_ruleset), and a    *)
(* multipart body (ngx_http_naxsi_multipart_parse), each a loop over the   *)
(* text.  Inspection is not stopped early here (NaxsiInspect does that):   *)
(* the rules are only told what they are run on.                           *)
(*                                                                         *)
(* A query is a sequence of bytes.  A multipart body is a sequence of      *)
(* tokens, each a string of bytes that matters to the parser as one; a     *)
(* token has a width, because the parser compares lengths.                 *)
(***************************************************************************)
EXTENDS NaxsiDecode

Seqs == INSTANCE SequencesExt

CONSTANTS
  Queries,     \* the queries explored
  Multiparts,  \* the multipart bodies explored: a boundary length, a body
  Names,       \* the parameters name="..." with something in the quotes
  Files        \* the parameters filename="..."

\* "bnd": the boundary; "disp": content-disposition: form-data; "semi": the
\* character ';' of its line; "name=": an empty name; "open": a quoted string
\* not closed on its line; "x": any other character.
Marks == {"--", "bnd", "crlf", "lf", "disp", "semi", "sp", "name=", "open",
          "nul", "x"}
Params == Names \cup Files \cup {"name="}

ASSUME ItemsAssumption ==
  /\ Names \cap Files = {} /\ (Names \cup Files) \cap (Marks \cup {"none"}) = {}
  /\ Queries \subseteq Seq(Byte)
  /\ \A m \in Multiparts : /\ m.boundary_len \in Nat
                           /\ m.body \in Seq(Marks \cup Params) \ {<< >>}

VARIABLES
  kind,     \* "query" or "multipart"
  body,     \* the text, which never changes (its null bytes do, in a query)
  boundary_len,
  idx,      \* the next byte, or token
  part,     \* the header of the part whose data is next
  items,    \* what the rules were run on, in order
  raised,   \* the internal rules that matched, in order
  ending,   \* how it ended: one of the endings of NaxsiInspect
  pc

vars == <<kind, body, boundary_len, idx, part, items, raised, ending, pc>>
NoPart == [name |-> "none", file |-> "none"]

Init ==
  /\ \/ kind = "query" /\ boundary_len = 0 /\ body \in Queries
     \/ /\ kind = "multipart"
        /\ \E m \in Multiparts : body = m.body /\ boundary_len = m.boundary_len
  /\ idx = 1
  /\ part = NoPart
  /\ items = << >> /\ raised = << >>
  /\ ending = "none" /\ pc = "start"

First(set) == CHOOSE i \in set : \A j \in set : i <= j
End(e) == ending' = e /\ pc' = "done"
-----------------------------------------------------------------------------
(***************************************************************************)
(* ngx_http_spliturl_ruleset                                               *)
(***************************************************************************)
Ampersand == 38
Equals == 61

If(test, rule) == IF test THEN <<rule>> ELSE << >>

\* Null bytes are rule 10, a last '&' is rule 12.
QueryStart ==
  /\ kind = "query" /\ pc = "start" /\ pc' = "piece"
  /\ body' = escape_nullbytes(body)
  /\ raised' = If(Nulls(body) # {}, 10)
               \o If(body # << >> /\ body[Len(body)] = Ampersand, 12)
  /\ UNCHANGED <<kind, boundary_len, idx, part, items, ending>>

AtPiece == kind = "query" /\ pc = "piece" /\ idx <= Len(body)

\* Mutant of QueryEmpty: str is not advanced.
QueryEmpty_stuck ==
  /\ AtPiece /\ body[idx] = Ampersand
  /\ raised' = Append(raised, 12)
  /\ UNCHANGED <<kind, body, boundary_len, idx, part, items, ending, pc>>

\* Nothing in front of an '&'.
QueryEmpty ==
  /\ AtPiece /\ body[idx] = Ampersand
  /\ idx' = idx + 1
  /\ raised' = Append(raised, 12)
  /\ UNCHANGED <<kind, body, boundary_len, part, items, ending, pc>>

\* strchr from idx on; the end of the text if there is none.
Find(ch) == First({i \in idx .. Len(body) : body[i] = ch} \cup {Len(body) + 1})

\* Mutant of Split: the last '=' separates.
Split_last ==
  LET ev == Find(Ampersand)
      eqs == {i \in idx .. ev - 1 : body[i] = Equals}
  IN IF eqs = {} THEN <<<< >>, SubSeq(body, idx, ev - 1)>>
     ELSE LET eq == CHOOSE i \in eqs : \A j \in eqs : j <= i
          IN <<SubSeq(body, idx, eq - 1), SubSeq(body, eq + 1, ev - 1)>>

\* The name and the value of the piece; without '=' it is a value.
Split ==
  LET ev == Find(Ampersand)
      eq == Find(Equals)
  IN IF eq > ev \/ eq > Len(body) THEN <<<< >>, SubSeq(body, idx, ev - 1)>>
     ELSE <<SubSeq(body, idx, eq - 1), SubSeq(body, eq + 1, ev - 1)>>

\* A piece: each text is decoded, and counts for rule 10; then the rules are
\* run, unless the UTF-8 is bad (ngx_http_basestr_ruleset_n).
QueryPiece ==
  /\ AtPiece /\ body[idx] # Ampersand
  /\ LET name == naxsi_unescape(Split[1])
         value == naxsi_unescape(Split[2])
         utf8 == utf8_check(name.text) /\ utf8_check(value.text)
     IN /\ raised' = raised \o If(name.count > 0, 10) \o If(value.count > 0, 10)
                            \o If(~utf8, 20)
        /\ items' = IF utf8 THEN Append(items, <<name.text, value.text>>)
                    ELSE items
  /\ idx' = Find(Ampersand) + 1
  /\ UNCHANGED <<kind, body, boundary_len, part, ending, pc>>

QueryEnd ==
  /\ kind = "query" /\ pc = "piece" /\ idx > Len(body)
  /\ End("closed")
  /\ UNCHANGED <<kind, body, boundary_len, idx, part, items, raised>>

Query == QueryStart \/ QueryEmpty \/ QueryPiece \/ QueryEnd
-----------------------------------------------------------------------------
(***************************************************************************)
(* ngx_http_naxsi_multipart_parse                                          *)
(***************************************************************************)
Width(t) ==
  CASE t \in {"--", "crlf"} -> 2
    [] t = "bnd"            -> boundary_len
    [] t = "disp"           -> 31
    [] t \in Params         -> 9
    [] t = "open"           -> 8
    [] OTHER                -> 1

\* The bytes from place i on (len - idx).
BytesFrom(i) ==
  LET left[k \in 1 .. Len(body) + 1] ==
        IF k > Len(body) THEN 0 ELSE Width(body[k]) + left[k + 1]
  IN left[i]

\* The tokens at place i are these.
Reads(i, tokens) == Seqs!IsPrefix(tokens, SubSeq(body, i, Len(body)))

\* ngx_strchr(.., '\n') from place i on, which stops at a null byte; 0: NULL.
LineEnd(i) ==
  LET stops == {j \in i .. Len(body) : body[j] \in {"crlf", "lf", "nul"}} IN
  IF stops = {} \/ body[First(stops)] = "nul" THEN 0 ELSE First(stops)

\* The rules the endings raise: see multipart_parse in NaxsiInspect.
Refuse(e) ==
  /\ End(e)
  /\ raised' = raised \o (CASE e = "boundary" -> <<14>>
                            [] e \in {"disposition", "format"} -> <<13>>
                            [] OTHER -> << >>)
  /\ UNCHANGED <<idx, part, items>>

multipart == UNCHANGED <<kind, body, boundary_len>>

\* nx_content_type_parse: boundary= of 3 to 70 bytes (0: there is none).
MultipartStart ==
  /\ kind = "multipart" /\ pc = "start" /\ multipart
  /\ \/ /\ boundary_len \in 3 .. 70
        /\ pc' = "top" /\ UNCHANGED <<idx, part, items, raised, ending>>
     \/ boundary_len \notin 3 .. 70 /\ Refuse("boundary")

\* Mutant of Closing: the line that closes may be followed by anything.
Closing_early == Reads(idx, <<"--", "bnd", "--">>)

\* What is left is as long as a closing boundary with or without a last line
\* end.
Closing == BytesFrom(idx) \in {boundary_len + 4, boundary_len + 6}

\* The top of the loop: the closing boundary, or that of a part.
MultipartTop ==
  /\ kind = "multipart" /\ pc = "top" /\ multipart
  /\ \/ /\ Closing /\ Reads(idx, <<"--", "bnd", "--">>)
        /\ End("closed") /\ UNCHANGED <<idx, part, items, raised>>
     \/ Closing /\ ~Reads(idx, <<"--", "bnd", "--">>) /\ Refuse("boundary")
     \/ /\ ~Closing
        /\ Reads(idx, <<"--", "bnd", "crlf">>) /\ idx + 3 <= Len(body)
        /\ idx' = idx + 3 /\ pc' = "header"
        /\ UNCHANGED <<part, items, raised, ending>>
     \/ /\ ~Closing
        /\ ~(Reads(idx, <<"--", "bnd", "crlf">>) /\ idx + 3 <= Len(body))
        /\ Refuse("boundary")

\* Spaces, one ';' and a parameter: a name and a filename, once each.
Parameter(st, t) ==
  CASE t = "sp" -> st
    [] t = "semi" /\ ~st.semi -> [st EXCEPT !.semi = TRUE]
    [] t \in Names \cup {"name="} /\ st.name = "none" ->
         [st EXCEPT !.name = t, !.semi = FALSE]
    [] t \in Files /\ st.file = "none" -> [st EXCEPT !.file = t, !.semi = FALSE]
    [] OTHER -> [st EXCEPT !.ok = FALSE]

\* Nothing said yet.
NoWord == [name |-> "none", file |-> "none", semi |-> FALSE, ok |-> TRUE]

\* nx_content_disposition_parse on the places i to line_end - 1.  The last
\* byte before the line feed is not looked at.
content_disposition_parse(i, line_end) ==
  LET last == IF body[line_end] = "lf" /\ line_end > i
                 /\ Width(body[line_end - 1]) = 1
              THEN line_end - 2 ELSE line_end - 1
      said[k \in 0 .. Len(body)] ==
        IF k < i THEN NoWord ELSE Parameter(said[k - 1], body[k])
  IN said[last]

\* A filename is followed by a line that is skipped.
HeaderEnd(line_end, file) == IF file = "none" THEN line_end ELSE LineEnd(line_end + 1)

\* "var name is mandatory"
Named(said) == said.name \in Names

\* The header of a part: the content-disposition line, what it says, the
\* line after it and the blank line; or how the parse ends there.
Header ==
  LET line_end == LineEnd(idx + 1)
      said == content_disposition_parse(idx + 1, line_end)
      header_end == HeaderEnd(line_end, said.file)
      malformed(e) == [ending |-> e]
  IN IF body[idx] # "disp" \/ line_end = 0 THEN malformed("format")
     ELSE IF ~said.ok THEN malformed("disposition")
     ELSE IF ~Named(said) \/ header_end = 0 THEN malformed("format")
     ELSE IF ~Reads(header_end + 1, <<"crlf">>) THEN malformed("format")
     ELSE [ending |-> "none", part |-> [name |-> said.name, file |-> said.file],
           data |-> header_end + 2]

MultipartHeader ==
  /\ kind = "multipart" /\ pc = "header" /\ multipart
  /\ \/ Header.ending # "none" /\ Refuse(Header.ending)
     \/ /\ Header.ending = "none"
        /\ part' = Header.part
        /\ idx' = Header.data /\ pc' = "data"
        /\ UNCHANGED <<items, raised, ending>>

\* The place i of a line end and dashes is followed by the boundary.
Delimits(i) == Reads(i + 2, <<"bnd">>)

\* The end of the data: the next line that begins with dashes, which must be
\* a boundary; 0 if it is not, or there is none.
DataEnd ==
  LET dashes == {j \in idx .. Len(body) : Reads(j, <<"crlf", "--">>)}
  IN IF dashes # {} /\ Delimits(First(dashes)) THEN First(dashes) ELSE 0

\* The rules are run on the data, or, for a file, on its name alone.
MultipartData ==
  /\ kind = "multipart" /\ pc = "data" /\ multipart
  /\ \/ idx > Len(body) /\ Refuse("line")
     \/ idx <= Len(body) /\ DataEnd = 0 /\ Refuse("format")
     \/ /\ idx <= Len(body) /\ DataEnd # 0
        /\ LET file == part.file # "none"
               data == SubSeq(body, idx, DataEnd - 1)
           IN /\ items' = Append(items,
                   IF file THEN <<"FILE_EXT", part.name, <<part.file>>>>
                   ELSE <<"BODY", part.name, data>>)
              /\ raised' = raised \o If(~file /\ \E k \in DOMAIN data :
                                                   data[k] = "nul", 10)
        /\ idx' = DataEnd + 1 /\ pc' = "top"
        /\ UNCHANGED <<part, ending>>

Multipart == MultipartStart \/ MultipartTop \/ MultipartHeader \/ MultipartData

Next == Query \/ Multipart
Spec == Init /\ [][Next]_vars
-----------------------------------------------------------------------------
(***************************************************************************)
(* Properties                                                              *)
(***************************************************************************)

\* The place in the text is never more than one behind its end.
TypeOK ==
  /\ kind \in {"query", "multipart"}
  /\ kind = "query" => body \in Seq(Byte) /\ boundary_len = 0
  /\ kind = "multipart" => body \in Seq(Marks \cup Params)
  /\ idx \in 1 .. Len(body) + 2
  /\ part.name \in {"none"} \cup Names
  /\ raised \in Seq({10, 12, 13, 14, 20})
  /\ ending \in {"none", "closed", "boundary", "disposition", "format", "line"}
  /\ pc \in {"start", "piece", "top", "header", "data", "done"}
  /\ pc = "done" <=> ending # "none"

\* What there is between the '&' of a query.
Pieces ==
  LET P[i \in 1 .. Len(body) + 1] ==
        LET amp == First({k \in i .. Len(body) : body[k] = Ampersand}
                         \cup {Len(body) + 1})
        IN <<SubSeq(body, i, amp - 1)>>
           \o IF amp > Len(body) THEN << >> ELSE P[amp + 1]
  IN P[1]

\* A name and a value: what is in front of the first '=', and behind it.
NameValue(p) ==
  LET eqs == {i \in DOMAIN p : p[i] = Equals}
      eq == IF eqs = {} THEN 0 ELSE First(eqs)
  IN <<SubSeq(p, 1, eq - 1), SubSeq(p, eq + 1, Len(p))>>

\* What is in T of a sequence, in order.
Only(s, T) ==
  LET kept[k \in 1 .. Len(s) + 1] ==
        IF k > Len(s) THEN << >>
        ELSE (IF s[k] \in T THEN <<s[k]>> ELSE << >>) \o kept[k + 1]
  IN kept[1]

Texts == Seq(Byte)
NonEmpty == LET full == Only(Pieces, Texts \ {<< >>})
            IN [k \in DOMAIN full |-> NameValue(full[k])]
DecodedItem(i) == <<Decoded(i[1]), Decoded(i[2])>>
GoodUtf8 == {i \in Texts \X Texts : IsUtf8(i[1]) /\ IsUtf8(i[2])}
UncommonTexts == {t \in Texts : Uncommon(t)}

Times(rule) == Cardinality({k \in DOMAIN raised : raised[k] = rule})
QueryDone == kind = "query" /\ pc = "done"

\* Everything between the '&' of a query or urlencoded body is inspected, once
\* and in order, as the name and the value that percent-decoding gives; only
\* items with bad UTF-8 are not, and each of those is reported as rule 20
\* (ngx_http_spliturl_ruleset, naxsi_unescape, ngx_utf8_check).
QueryInspected ==
  QueryDone =>
    LET all == [k \in DOMAIN NonEmpty |-> DecodedItem(NonEmpty[k])]
    IN /\ items = Only(all, GoodUtf8)
       /\ Times(20) = Len(all) - Len(items)

\* Rule 10 (docs/internal_rules.md: hex encoded null-bytes) is raised for each
\* name or value that holds a null byte or a bad escape; rule 12 for each
\* piece that is empty, as the query's readers count them.
QueryReported ==
  QueryDone =>
    LET uncommon(j) ==
          Only([k \in DOMAIN NonEmpty |-> NonEmpty[k][j]], UncommonTexts)
    IN /\ Times(10) - (Len(uncommon(1)) + Len(uncommon(2))) \in {0, 1}
       /\ Times(12) = IF body = << >> THEN 0 ELSE Len(Only(Pieces, {<< >>}))

\* The lines of a part: GoodLine(i, e) is what may be between the place behind
\* content-disposition and the line end at place e.
GoodLine(i, e) ==
  LET last == IF body[e] = "lf" /\ Width(body[e - 1]) = 1
              THEN e - 2 ELSE e - 1
      at(set) == {k \in i .. last : body[k] \in set}
      params == at(Params)
  IN /\ i .. last = at(Params \cup {"semi", "sp"})
     /\ Cardinality(at(Names \cup {"name="})) <= 1
     /\ Cardinality(at(Files)) <= 1
     /\ \A j, k \in at({"semi"}) : j < k => \E n \in params : j < n /\ n < k

LineAt(i, e) ==
  /\ e \in i .. Len(body) /\ body[e] \in {"crlf", "lf"}
  /\ \A k \in i .. e - 1 : body[k] \notin {"crlf", "lf", "nul"}

\* Cut p is a part from i on: its first line ends at p.e, its header at p.h,
\* which a blank line follows, and its data at p.j, where the next boundary
\* is; it says name p.n and perhaps file p.f.
IsPart(i, p) ==
  LET said == {body[k] : k \in i + 4 .. p.e} IN
  /\ p.j > p.h + 1
  /\ IF p.f = "none" THEN p.h = p.e ELSE LineAt(p.e + 1, p.h)
  /\ LineAt(i + 4, p.e) /\ GoodLine(i + 4, p.e)
  /\ said \cap Names = {p.n} /\ said \cap Files = {p.f} \ {"none"}
  /\ \A k \in p.h + 2 .. p.j - 1 : ~Reads(k, <<"crlf", "--">>)

Endings(i) ==
  Reads(i, <<"--", "bnd", "--">>) /\ BytesFrom(i + 3) \in {0, 2}

Item(p) ==
  IF p.f = "none" THEN <<"BODY", p.n, SubSeq(body, p.h + 2, p.j - 1)>>
  ELSE <<"FILE_EXT", p.n, <<p.f>>>>

\* The sequences of items that a grammar of multipart bodies gives: none for
\* a body that is malformed.
Readings ==
  LET ends == {k \in DOMAIN body : body[k] \in {"crlf", "lf"}}
      cuts == [e : ends, h : {k \in ends : Reads(k + 1, <<"crlf">>)},
               j : {k \in ends : Reads(k, <<"crlf", "--", "bnd">>)},
               n : Names, f : {"none"} \cup Files]
      parts(i) == IF Reads(i, <<"--", "bnd", "crlf", "disp">>)
                  THEN {p \in cuts : IsPart(i, p)} ELSE {}
      R[i \in 1 .. Len(body) + 1] ==
        IF Endings(i) THEN {<< >>}
        ELSE UNION {{<<Item(p)>> \o rest : rest \in R[p.j + 1]} : p \in parts(i)}
  IN R[1]

\* A multipart body passes without an internal rule only if it is, from its
\* first byte to its last, a sequence of parts closed by the boundary, in one
\* way only, and then the rules were run on each value and each file name, once
\* and in order; anything else is refused (ngx_http_naxsi_multipart_parse).
MultipartInspected ==
  kind = "multipart" /\ pc = "done" =>
    IF ending = "closed" THEN Readings = {items}
    ELSE boundary_len \notin 3 .. 70 \/ Readings = {}

\* Both loops end on any text: no turn leaves the place where it began, not
\* even behind an empty piece, an empty value or a null byte, and no place is
\* beyond the end of the text (TypeOK).
LoopsAdvance == [][pc = "start" \/ idx' > idx \/ pc' = "done"]_vars
=============================================================================
