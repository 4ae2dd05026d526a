------------------------------ MODULE NaxsiLog ------------------------------
(***************************************************************************)
(* The log lines of a request (naxsi_log.c, naxsi_log_request,             *)
(* naxsi_log_extensive): fields are appended to one buffer; when the next  *)
(* one does not fit, what there is is logged and a new line is begun with  *)
(* the request id.                                                         *)
(*                                                                         *)
(* Texts are abstracted to their lengths.  A value is a number of bytes    *)
(* that are escaped, followed by a number of bytes that are not; a byte    *)
(* that is escaped takes 3 bytes in a text line and esc in a JSON line.    *)
(***************************************************************************)
EXTENDS Integers, Sequences, FiniteSets

CONSTANTS
  NAXSI_LOG_MAX,      \* what a line may take of the buffer
  NGX_MAX_ERROR_STR,  \* the size of the buffer: 100 more
  SizeBits, SizeT,    \* lengths are computed modulo 2^SizeBits
  Rid,                \* the length of the request id
  Key,                \* the length of a field's name
  Reports             \* what is logged: see Calls

Values == [escaped : Nat, plain : Nat, esc : {2, 6}]
Chars(v) == v.escaped + v.plain

\* What there is to log: at a match in learning mode, or at the end.
Report == [extensive : BOOLEAN, uri : Values, name : Values, content : Values,
           tag : Nat, number : Nat, matches : Nat, scores : Seq(BOOLEAN)]

\* A line with the request id has room for a name and half a line, which is
\* the longest a value gets.
ASSUME LogAssumption ==
  /\ NAXSI_LOG_MAX \in Nat /\ NGX_MAX_ERROR_STR \in Nat
  /\ SizeBits \in Nat /\ SizeT \in Nat /\ SizeT = 2 ^ SizeBits
  /\ Rid \in Nat /\ Key \in Nat \ {0}
  /\ Rid + Key + 15 + NAXSI_LOG_MAX \div 2 < NAXSI_LOG_MAX
  /\ NAXSI_LOG_MAX + 2 <= NGX_MAX_ERROR_STR /\ NGX_MAX_ERROR_STR < SizeT
  /\ Reports \subseteq Report

VARIABLES
  as_json, \* log->as_json
  calls,   \* the fields still to be logged
  done,    \* how many fields have been
  length,  \* log->length
  line,    \* what is in the buffer, as entries
  lines,   \* the lines logged, in order
  written, \* history: the last byte of the buffer written in this step
  ended    \* naxsi_log_end was called

vars == <<as_json, calls, done, length, line, lines, written, ended>>

\* Who writes what: a string is escaped, the others are not.
String(v) == [fn |-> "string", val |-> v]
Fixed(n) == [escaped |-> 0, plain |-> n, esc |-> 2]
Cstring(n) == [fn |-> "cstring", val |-> Fixed(n)]
Number(n) == [fn |-> "number", val |-> Fixed(n)]
Short == Fixed(1)

\* naxsi_log_header: ip, server, uri, config, rid.
log_header(r) ==
  <<String(Short), String(Short), String(r.uri), Cstring(1), Cstring(Rid)>>

\* naxsi_log_score: cscore and score, for each tag whose score is positive.
log_scores(r) ==
  [i \in 1 .. 2 * Cardinality({t \in DOMAIN r.scores : r.scores[t]}) |->
     IF i % 2 = 1 THEN Cstring(r.tag) ELSE Number(1)]

\* naxsi_log_match: zone, id, var_name.
log_matches(r) ==
  [i \in 1 .. 3 * r.matches |->
     IF i % 3 = 1 THEN Cstring(1)
     ELSE IF i % 3 = 2 THEN Number(r.number) ELSE String(r.name)]

\* naxsi_log_extensive: ip, server, rid, uri, id, zone, var_name, content.
log_extensive(r) ==
  <<String(Short), String(Short), Cstring(Rid), String(r.uri), Number(r.number),
    Cstring(1), String(r.name), String(r.content)>>

Calls(r) ==
  IF r.extensive THEN log_extensive(r)
  ELSE log_header(r) \o log_scores(r) \o log_matches(r)

\* naxsi_log_begin
Init ==
  /\ as_json \in BOOLEAN
  /\ \E r \in Reports : calls = Calls(r)
  /\ done = 0
  /\ length = 0 /\ line = << >> /\ lines = << >>
  /\ written = 0 /\ ended = FALSE
-----------------------------------------------------------------------------
\* The buffer as it is passed from one call to the next, nothing written yet.
Log == [length |-> length, line |-> line, lines |-> lines, written |-> 0]

Style(text) == IF text THEN "text" ELSE "json"

\* An entry of a line: field f (0 for the request id), how many bytes of its
\* value it holds, and whether it is key=value or "key":value.
Entry(f, kept) == [f |-> f, kept |-> kept, style |-> Style(~as_json)]
RidEntry(text) == [f |-> 0, kept |-> Rid, style |-> Style(text)]

\* What is left of the line, as snprintf is told.
Rest(log) == (NAXSI_LOG_MAX - log.length) % SizeT

\* snprintf of n bytes into what is left of the line; the length grows by n
\* though what does not fit is cut.
Printed(log, n) ==
  [log EXCEPT !.length = @ + n,
              !.written = log.length + (IF n < Rest(log) THEN n
                                        ELSE Rest(log) - 1)]

\* How much of it was.
Cut(log, n) == IF log.length + n < NAXSI_LOG_MAX THEN 0
               ELSE log.length + n - (NAXSI_LOG_MAX - 1)

Put(log, entry) == [log EXCEPT !.line = Append(@, entry)]

\* Mutant of Begun: the request id is left out.
Begun_bare(log, text) == [log EXCEPT !.line = << >>, !.length = 0]

\* The new line: rid=<id>, or "rid":"<id>".
Begun(log, text) ==
  [log EXCEPT !.line = <<RidEntry(text)>>,
              !.length = IF text THEN Rid + 4 ELSE Rid + 8]

\* naxsi_log_as_text_flush and naxsi_log_as_json_flush: nothing is logged of an
\* empty buffer.
Logged(log) ==
  IF log.length > 0 THEN [log EXCEPT !.lines = Append(@, log.line)] ELSE log

\* Mutant of flush: the line is begun anew without having been logged.
flush_lost(log, text) == Begun(log, text)

flush(log, text) == Begun(Logged(log), text)

\* Mutant of Roomy: a line that is not full has room.
Roomy_unless_full(log, n, text) ==
  IF log.length >= NAXSI_LOG_MAX THEN flush(log, text) ELSE log

\* There are n bytes more in this line, or a new one.
Roomy(log, n, text) ==
  IF log.length + n >= NAXSI_LOG_MAX THEN flush(log, text) ELSE log
-----------------------------------------------------------------------------
(***************************************************************************)
(* Text lines                                                              *)
(***************************************************************************)

\* The first k bytes of a value, escaped.
TextWidth(v, k) == IF k <= v.escaped THEN 3 * k ELSE k + 2 * v.escaped

Powers == {d \in 1 .. SizeT : \E i \in 1 .. SizeBits : d = 2 ^ i}
Halves(k) == {k, 0} \cup {k \div d : d \in Powers}

\* k, halved until it is one of S.
Halve(k, S) ==
  CHOOSE n \in Halves(k) : n \in S /\ \A m \in Halves(k) : m \in S => m <= n

HalfLine == {n \in Nat : n < NAXSI_LOG_MAX \div 2}

\* naxsi_log_as_text_string_ex: a value that is too wide even when halved is
\* dropped; others are halved until they fit into a new line.
text_string(log, f, v) ==
  LET k == Halve(Chars(v), HalfLine)
      wide(n) == TextWidth(v, n) + Key + 2
      room == Roomy(log, wide(k), TRUE)
      kept == Halve(k, {n \in Nat : n <= 1 \/ room.length + wide(n) < NAXSI_LOG_MAX})
      full == room.length + wide(kept) - (IF room.length < 1 THEN 1 ELSE 0)
      dots == Printed([room EXCEPT !.length = full, !.written = full], 3)
  IN IF TextWidth(v, k) >= NAXSI_LOG_MAX THEN log
     ELSE IF room.length + wide(kept) >= NAXSI_LOG_MAX THEN room
     ELSE IF kept < Chars(v) THEN Put(dots, Entry(f, kept))
     ELSE Put([room EXCEPT !.length = full, !.written = full],
              Entry(f, kept))

\* What cstrings and numbers have in common: asked bytes of room, n printed.
print(log, f, v, asked, n, text) ==
  LET room == Roomy(log, asked, text)
      lost == Cut(room, n)
  IN Put(Printed(room, n),
         Entry(f, IF lost < Chars(v) THEN Chars(v) - lost ELSE 0))

\* naxsi_log_as_text_cstring_ex and naxsi_log_as_text_number: &key=value.
text_print(log, f, v) ==
  LET n == Key + Chars(v) + 2 IN print(log, f, v, n, n, TRUE)
-----------------------------------------------------------------------------
(***************************************************************************)
(* JSON lines                                                              *)
(***************************************************************************)

\* The first k bytes of a value, escaped.
JsonWidth(v, k) == IF k <= v.escaped THEN v.esc * k
                   ELSE k + (v.esc - 1) * v.escaped

\* naxsi_escape_json_string writes a byte that is not escaped if there is room
\* for it, an escape of two if one byte is left afterwards; of an escape of
\* six (\u00xx) it asks for room for five.
escape_fits(log, v, k) ==
  LET out == log.length + 1 + JsonWidth(v, k) IN
  IF k > v.escaped THEN out <= NAXSI_LOG_MAX
  ELSE out < NAXSI_LOG_MAX + (IF v.esc = 6 THEN 2 ELSE 0)

\* The bytes of a value, of the asked ones, that are written before one does not
\* fit.
escaped_bytes(log, v, asked) ==
  CHOOSE k \in 0 .. asked : /\ \A i \in 1 .. k : escape_fits(log, v, i)
                            /\ k = asked \/ ~escape_fits(log, v, k + 1)

\* naxsi_escape_json_string: the bytes that fit, the dots and the quote if they
\* fit, and a null byte.
escape_json_string(log, f, v, length0, truncate) ==
  LET asked == IF length0 > Rest(log) THEN Rest(log) ELSE length0
      n == escaped_bytes(log, v, asked)
      out == log.length + 1 + JsonWidth(v, n)
      dots == IF truncate /\ out + 4 < NAXSI_LOG_MAX THEN 3 ELSE 0
      quote == IF out + dots < NAXSI_LOG_MAX THEN 1 ELSE 0
      last == out + dots + quote
  IN Put([log EXCEPT !.length = last, !.written = last], Entry(f, n))

\* naxsi_log_as_json_string_ex
json_string(log, f, v) ==
  LET val_len == IF Chars(v) >= NAXSI_LOG_MAX
                 THEN (NAXSI_LOG_MAX - (log.length + 6)) % SizeT ELSE Chars(v)
      k == Halve(val_len, HalfLine)
      room == Roomy(log, Key + k + 6, FALSE)
      named == Printed(room, IF room.length < 1 THEN Key + 3 ELSE Key + 4)
  IN escape_json_string(named, f, v, k, k < val_len)

\* naxsi_log_as_json_cstring_ex: ,"key":"value"
json_cstring(log, f, v) ==
  LET n == Key + Chars(v) + 6 IN print(log, f, v, n, n, FALSE)

\* naxsi_log_as_json_number: ,"key":value, with a text line begun when there is
\* no room, and no room asked for the comma.
json_number(log, f, v) ==
  print(log, f, v, Key + Chars(v) + 3, Key + Chars(v) + 4, TRUE)
-----------------------------------------------------------------------------
\* naxsi_log_string_ex, naxsi_log_cstring_ex, naxsi_log_number.
Written(log, f, call) ==
  IF as_json
  THEN CASE call.fn = "string"  -> json_string(log, f, call.val)
         [] call.fn = "cstring" -> json_cstring(log, f, call.val)
         [] call.fn = "number"  -> json_number(log, f, call.val)
  ELSE CASE call.fn = "string" -> text_string(log, f, call.val)
         [] OTHER              -> text_print(log, f, call.val)

Field ==
  /\ done < Len(calls) /\ ~ended
  /\ LET log == Written(Log, done + 1, calls[done + 1])
     IN /\ length' = log.length /\ line' = log.line /\ lines' = log.lines
        /\ written' = log.written
  /\ done' = done + 1
  /\ UNCHANGED <<as_json, calls, ended>>

\* naxsi_log_end: flush without a new line.
End ==
  /\ done = Len(calls) /\ ~ended
  /\ ended' = TRUE
  /\ lines' = Logged(Log).lines
  /\ UNCHANGED <<as_json, calls, done, length, line, written>>

Next == Field \/ End
Spec == Init /\ [][Next]_vars
-----------------------------------------------------------------------------
(***************************************************************************)
(* Properties                                                              *)
(***************************************************************************)
Call == [fn : {"string", "cstring", "number"}, val : Values]
Entries == [f : 0 .. Len(calls), kept : Nat, style : {"text", "json"}]

\* Type correctness.
TypeOK ==
  /\ as_json \in BOOLEAN /\ ended \in BOOLEAN
  /\ calls \in Seq(Call)
  /\ done \in 0 .. Len(calls)
  /\ length \in Nat /\ written \in Nat
  /\ line \in Seq(Entries)
  /\ lines \in Seq(Seq(Entries))

\* No byte is written behind the buffer, whatever the values and wherever a
\* line is full: the length may pass NAXSI_LOG_MAX, as snprintf's results are
\* added to it, but then the next field begins a new line, so that no field is
\* printed with a negative rest; and the escapes of a JSON line need two bytes
\* more than NAXSI_LOG_MAX (naxsi_log_as_*, naxsi_escape_json_string).
WithinBuffer == written < NGX_MAX_ERROR_STR

\* Where the fields are in what was logged, request ids apart.
At(p) == lines[p[1]][p[2]]
Places == {p \in UNION {{i} \X DOMAIN lines[i] : i \in DOMAIN lines} :
             At(p).f # 0}
Before(p, q) == p[1] < q[1] \/ (p[1] = q[1] /\ p[2] < q[2])

\* In a text line: a value that takes a whole line or more when all of it, or
\* what is left of it when it is halved to less than half a line, is escaped.
TooWide(f) ==
  LET v == calls[f].val
  IN ~as_json /\ calls[f].fn = "string"
     /\ TextWidth(v, Halve(Chars(v), HalfLine)) >= NAXSI_LOG_MAX

LoggedFields == {At(p).f : p \in Places}

\* The fields are logged, once and in order; only text values that are too wide
\* are not.
FieldsLogged ==
  ended =>
    /\ LoggedFields = {f \in DOMAIN calls : ~TooWide(f)}
    /\ \A p, q \in Places : Before(p, q) => At(p).f < At(q).f

\* When a field may be logged with only kept bytes of its value.  A string: it is
\* half a line long; or, in a text line, it would not fit into a new line; or, in
\* a JSON line, the escapes among the bytes up to the first that is lost have used
\* up the room of its length that was asked for, in a new line or not.  Another
\* value: it would not fit into a new line; a number in a JSON line may also lose
\* its last digit, and no other.
MayBeCut(f, kept) ==
  LET v == calls[f].val
      fn == calls[f].fn
  IN \/ fn = "string" /\ Chars(v) \notin HalfLine
     \/ /\ fn = "string" /\ ~as_json
        /\ Rid + Key + TextWidth(v, Chars(v)) + 6 >= NAXSI_LOG_MAX
     \/ fn = "string" /\ as_json /\ JsonWidth(v, kept + 1) > Chars(v)
     \/ /\ fn = "cstring"
        /\ Rid + Key + Chars(v) + (IF as_json THEN 14 ELSE 6) >= NAXSI_LOG_MAX
     \/ /\ fn = "number"
        /\ Rid + Key + Chars(v) + (IF as_json THEN 8 ELSE 6) >= NAXSI_LOG_MAX
     \/ fn = "number" /\ as_json /\ kept = Chars(v) - 1

CutAsStated ==
  \A p \in Places :
    At(p).kept < Chars(calls[At(p).f].val) => MayBeCut(At(p).f, At(p).kept)

\* However many lines a log takes, its fields are logged once and in order, but
\* for text values that are too wide, which are dropped; and no more is cut of
\* them than MayBeCut says: of a number one digit, of a JSON string whatever the
\* escapes before it have taken the room of, a new line or not (naxsi_log_as_*).
FieldsAccounted == FieldsLogged /\ CutAsStated

\* How a line looks that field f begins: as the log, but as text if f is a number.
BegunAs(f) == Style(~as_json \/ calls[f].fn = "number")

\* A line that is begun because the one before it was full begins with the
\* request id and holds a field behind it (naxsi_log_as_text_flush,
\* naxsi_log_as_json_flush); the id is written as the log is, except that a number
\* begins a line of a JSON log with rid=, as in a text log (naxsi_log_as_json_number).
\* This says nothing of the first line: it has the id as one of its fields, the
\* third or the fifth, if that did not come to the second line, which then has the
\* id twice.
LinesCarryRid ==
  \A i \in DOMAIN lines :
    /\ \A k \in DOMAIN lines[i] : lines[i][k].f = 0 => k = 1
    /\ i > 1 => /\ Len(lines[i]) > 1
                /\ lines[i][1].f = 0
                /\ lines[i][1].style = BegunAs(lines[i][2].f)
=============================================================================
