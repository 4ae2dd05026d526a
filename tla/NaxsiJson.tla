----------------------------- MODULE NaxsiJson ------------------------------
(***************************************************************************)
(* The parser of JSON bodies (naxsi_json.c): three functions that call     *)
(* each other, ngx_http_nx_json_val, _array and _obj, over one shared      *)
(* state.  Their calls are the stack; each action is what one of them does *)
(* between two calls, or from one character it tests to the next.          *)
(*                                                                         *)
(* A body is a sequence of tokens.  It is chosen while it is read: a token *)
(* is added, or the body ends, when the parser looks beyond the last one.  *)
(***************************************************************************)
EXTENDS Integers, Sequences

CONSTANTS
  Texts,          \* what a quoted string may hold
  NoKey,          \* js->ckey before the first key
  JSON_MAX_DEPTH,
  MaxTokens       \* bound: the tokens of a body

\* A quoted string is its text.  "nul": one that begins with a null byte;
\* "open": one without its closing quote, "open_esc": with a backslash last;
\* "junk": a character no branch expects.
Marks == {"[", "]", "{", "}", ":", ",", "number", "literal", "space", "junk",
          "nul", "open", "open_esc"}
Unclosed == {"open", "open_esc"}
Tokens == Texts \cup Marks

ASSUME JsonAssumption ==
  /\ Texts \cap (Marks \cup {"end"}) = {}
  /\ NoKey \notin Tokens
  /\ JSON_MAX_DEPTH \in Nat
  /\ MaxTokens \in Nat

VARIABLES
  body,   \* js->src: the tokens read so far
  ended,  \* is it the whole body?
  off,    \* js->off, in tokens
  stack,  \* the containers that are open: the calls of _array and _obj
  depth,  \* js->depth
  ckey,   \* js->ckey
  seen,   \* what the rules were run on: a key and the place of a value
  errors, \* how often internal rule 15 was applied
  pc      \* where the running function is

vars == <<body, ended, off, stack, depth, ckey, seen, errors, pc>>
input == <<body, ended>>

\* "start"; "val": about to call json_val; "opened": behind a bracket that
\* opens; "key", "colon": in an object; "after": a value was read; "finish":
\* json_val has returned to json_parse; "done".
Places == {"start", "val", "opened", "key", "colon", "after", "finish", "done"}

Init ==
  /\ body = << >> /\ ended = FALSE
  /\ off = 0
  /\ stack = << >> /\ depth = 0
  /\ ckey = NoKey
  /\ seen = << >>
  /\ errors = 0
  /\ pc = "start"
-----------------------------------------------------------------------------
\* *json_char(js); the byte behind the body is null.
Char == IF off < Len(body) THEN body[off + 1] ELSE "end"

\* The body is known up to js->off.
Known == off < Len(body) \/ ended

\* The client's next token; two numbers in a row would be one.
More(t) ==
  /\ pc \notin {"start", "done"} /\ ~Known
  /\ Len(body) < MaxTokens
  /\ ~(t = "number" /\ body # << >> /\ body[Len(body)] = "number")
  /\ body' = Append(body, t)
  /\ ended' = (t \in Unclosed)
  /\ UNCHANGED <<off, stack, depth, ckey, seen, errors, pc>>

\* The body ends here.
End ==
  /\ pc \notin {"start", "done"} /\ ~Known
  /\ ended' = TRUE
  /\ UNCHANGED <<body, off, stack, depth, ckey, seen, errors, pc>>

At(place) == pc = place /\ Known /\ Char # "space"
Top == stack[Len(stack)]

Goto(place) == pc' = place
Advance(n) == off' = off + n

\* ngx_http_naxsi_json_parse has its state; without one it just returns.
Start ==
  /\ pc = "start"
  /\ pc' \in {"val", "done"}
  /\ UNCHANGED <<input, off, stack, depth, ckey, seen, errors>>

\* Mutant of Forward: the white space is found again and again.
Forward_stuck ==
  /\ pc \notin {"start", "done"} /\ Known /\ Char = "space"
  /\ UNCHANGED vars

\* ngx_http_nx_json_forward
Forward ==
  /\ pc \notin {"start", "done"} /\ Known /\ Char = "space"
  /\ Advance(1)
  /\ UNCHANGED <<input, stack, depth, ckey, seen, errors, pc>>

\* Every caller returns NGX_ERROR as well, and json_parse applies rule 15;
\* js->depth stays as it is.
Error ==
  /\ errors' = errors + 1
  /\ stack' = << >>
  /\ Goto("finish")

\* json_val has returned: to json_parse, or into the container around.
Returned(st) == Goto(IF st = << >> THEN "finish" ELSE "after")

\* ngx_http_basestr_ruleset_n, under the current key.
Inspect == seen' = Append(seen, [key |-> ckey, at |-> off + 1])

\* How far ngx_http_nx_json_quoted gets on a string it refuses.
QuotedStops == CASE Char = "open_esc" -> 2 [] OTHER -> 1

BadString == Char \in Unclosed \cup {"nul"}

\* ngx_http_nx_json_val on a string, a number, or true, false and null.
Scalar ==
  /\ At("val")
  /\ \/ /\ Char \in Texts \cup {"number", "literal"}
        /\ Inspect /\ Advance(1)
        /\ Returned(stack) /\ UNCHANGED <<stack, errors>>
     \/ BadString /\ Error /\ Advance(QuotedStops) /\ UNCHANGED seen
  /\ UNCHANGED <<input, depth, ckey>>

\* ... on a character that begins no value.
NoValue ==
  /\ At("val")
  /\ Char \in {"]", "}", ":", ",", "junk", "end"}
  /\ Error
  /\ UNCHANGED <<input, off, depth, ckey, seen>>

\* Mutant of TooDeep: one container more.
TooDeep_late == depth > JSON_MAX_DEPTH

\* The test of the callee, on the depth its caller has raised.
TooDeep == depth + 1 > JSON_MAX_DEPTH

\* ... on an array or an object, and the first lines of _array and _obj.
Container ==
  /\ At("val")
  /\ Char \in {"[", "{"}
  /\ IF Char = "{" THEN Inspect ELSE UNCHANGED seen
  /\ depth' = depth + 1
  /\ \/ TooDeep /\ Error /\ UNCHANGED off
     \/ /\ ~TooDeep
        /\ stack' = Append(stack, Char)
        /\ Advance(1)
        /\ Goto("opened")
        /\ UNCHANGED errors
  /\ UNCHANGED <<input, ckey>>

Closing == IF Top = "[" THEN "]" ELSE "}"

\* _array or _obj returns NGX_OK, and json_val after it.
Pop ==
  LET rest == SubSeq(stack, 1, Len(stack) - 1) IN
  /\ stack' = rest
  /\ depth' = depth - 1
  /\ Returned(rest)

\* Behind an opening bracket: an empty container, or its first element.
Opened ==
  /\ At("opened")
  /\ \/ Char = Closing /\ Pop /\ Advance(1)
     \/ /\ Char # Closing
        /\ Goto(IF Top = "[" THEN "val" ELSE "key")
        /\ UNCHANGED <<off, stack, depth>>
  /\ UNCHANGED <<input, ckey, seen, errors>>

\* Mutant of Key: the name is not kept.
Key_forgotten ==
  /\ At("key")
  /\ \/ /\ Char \in Texts
        /\ Advance(1) /\ Goto("colon")
        /\ UNCHANGED <<ckey, stack, errors>>
     \/ BadString /\ Error /\ Advance(QuotedStops) /\ UNCHANGED ckey
     \/ /\ Char \notin Texts /\ ~BadString
        /\ Error /\ UNCHANGED <<off, ckey>>
  /\ UNCHANGED <<input, depth, seen>>

\* _obj reads the name of a member.
Key ==
  /\ At("key")
  /\ \/ /\ Char \in Texts
        /\ ckey' = Char
        /\ Advance(1) /\ Goto("colon")
        /\ UNCHANGED <<stack, errors>>
     \/ BadString /\ Error /\ Advance(QuotedStops) /\ UNCHANGED ckey
     \/ /\ Char \notin Texts /\ ~BadString
        /\ Error /\ UNCHANGED <<off, ckey>>
  /\ UNCHANGED <<input, depth, seen>>

\* ... and the colon behind it.
Colon ==
  /\ At("colon")
  /\ \/ /\ Char = ":"
        /\ Advance(1) /\ Goto("val") /\ UNCHANGED <<stack, errors>>
     \/ Char # ":" /\ Error /\ UNCHANGED off
  /\ UNCHANGED <<input, depth, ckey, seen>>

\* Another element.  Where the body ends behind the comma the loop ends, and
\* the bracket that is missed is an error, as a missing element is.
Element ==
  /\ Char = ","
  /\ Advance(1)
  /\ Goto(IF Top = "[" THEN "val" ELSE "key")
  /\ UNCHANGED <<stack, depth, errors>>

\* Behind an element of an array or a member of an object.
After ==
  /\ At("after")
  /\ \/ Element
     \/ Char = Closing /\ Pop /\ Advance(1) /\ UNCHANGED errors
     \/ Char \notin {",", Closing} /\ Error /\ UNCHANGED <<off, depth>>
  /\ UNCHANGED <<input, ckey, seen>>

\* Mutant of Finish: what follows the value is not looked at.
Finish_early ==
  /\ At("finish")
  /\ UNCHANGED errors
  /\ Goto("done")
  /\ UNCHANGED <<input, off, stack, depth, ckey, seen>>

\* json_parse: something is left, or was skipped.
Finish ==
  /\ At("finish")
  /\ errors' = IF off # Len(body) THEN errors + 1 ELSE errors
  /\ Goto("done")
  /\ UNCHANGED <<input, off, stack, depth, ckey, seen>>

Parse ==
  \/ Start \/ Forward \/ Scalar \/ NoValue \/ Container \/ Opened \/ Key
  \/ Colon \/ After \/ Finish

Next == Parse \/ (\E t \in Tokens : More(t)) \/ End

Spec == Init /\ [][Next]_vars
-----------------------------------------------------------------------------
(***************************************************************************)
(* Properties                                                              *)
(***************************************************************************)

Brackets == {"[", "{"}
Sighting == [key : Texts \cup {NoKey}, at : Nat \ {0}]

TypeOK ==
  /\ body \in Seq(Tokens) /\ ended \in BOOLEAN
  /\ off \in Nat
  /\ stack \in Seq(Brackets) /\ depth \in Nat
  /\ ckey \in Texts \cup {NoKey}
  /\ seen \in Seq(Sighting)
  /\ errors \in 0 .. 2
  /\ pc \in Places

\* js->depth counts the calls that are open, so that containers side by side
\* do not add up, and no more than JSON_MAX_DEPTH are ever open: the recursion
\* is bounded whatever the body (json_val, json_array, json_obj).
NestingBounded ==
  /\ pc \notin {"finish", "done"} => depth = Len(stack)
  /\ Len(stack) <= JSON_MAX_DEPTH

\* A body without white space.
Stripped(tokens) ==
  LET rest[i \in 1 .. Len(tokens) + 1] ==
        IF i > Len(tokens) THEN << >>
        ELSE (IF tokens[i] = "space" THEN << >> ELSE <<tokens[i]>>) \o rest[i + 1]
  IN rest[1]

Text == Stripped(body)

\* The JSON grammar: what a text has of each kind, as the places where it begins
\* and where it ends.
Spans(text) == (1 .. Len(text)) \X (1 .. Len(text))

\* One or more of these, with commas between them.
Lists(text, one) ==
  LET ends[i \in 1 .. Len(text) + 1] ==
        LET first == {k \in i .. Len(text) : <<i, k>> \in one}
            more == {k \in first : k < Len(text) /\ text[k + 1] = ","}
        IN first \cup UNION {ends[k + 2] : k \in more}
  IN {s \in Spans(text) : s[2] \in ends[s[1]]}

Scalars(text) ==
  {s \in Spans(text) : s[1] = s[2] /\ text[s[1]] \in Texts \cup {"number", "literal"}}

Members(text, values) ==
  {s \in Spans(text) : /\ s[1] + 2 <= s[2]
                       /\ text[s[1]] \in Texts /\ text[s[1] + 1] = ":"
                       /\ <<s[1] + 2, s[2]>> \in values}

Closed(text, bracket, inside) ==
  {s \in Spans(text) : /\ s[1] < s[2]
                       /\ text[s[1]] = bracket
                       /\ text[s[2]] = IF bracket = "[" THEN "]" ELSE "}"
                       /\ s[1] + 1 = s[2] \/ <<s[1] + 1, s[2] - 1>> \in inside}

\* The values with at most d containers in one another.
Values(text, d) ==
  LET V[n \in 0 .. d] ==
        IF n = 0 THEN Scalars(text)
        ELSE Scalars(text)
             \cup Closed(text, "[", Lists(text, V[n - 1]))
             \cup Closed(text, "{", Lists(text, Members(text, V[n - 1])))
  IN V[d]

Derives(text) == <<1, Len(text)>> \in Values(text, JSON_MAX_DEPTH)

Parsed == pc = "done" /\ (errors > 0 \/ off > 0)

\* Rule 15 is applied to a body if, and only if, it is not a JSON value of at
\* most JSON_MAX_DEPTH containers in one another: nothing else slips through,
\* and no good body is refused (docs/internal_rules.md: malformed JSON).
AcceptsJson == Parsed => (errors = 0 <=> ended /\ Derives(Text))

\* The places i + 1 to j hold white space.
Spaces(i, j) == \A k \in i + 1 .. j : body[k] = "space"

\* A string with a colon behind it.
IsKey(i) ==
  /\ body[i] \in Texts
  /\ \E j \in i + 1 .. Len(body) : body[j] = ":" /\ Spaces(i, j - 1)

\* Strings, numbers and literals that are values, and objects.
ValueTokens == Texts \cup {"number", "literal", "{"}
IsValue(i) == body[i] \in ValueTokens /\ ~IsKey(i)

\* The last of the keys before place i is key.
Under(keys, i, key) ==
  \/ key = NoKey /\ \A k \in keys : k >= i
  \/ \E k \in keys : /\ k < i /\ body[k] = key
                     /\ \A j \in keys : j <= k \/ j >= i

\* The rules are run on every value of the body, once and in its order, and
\* under the last key written before it: the key of its member, or, for the
\* elements of an array that follow an object, a key inside that object.
ValuesInspected ==
  /\ {seen[n].at : n \in DOMAIN seen} = {i \in DOMAIN body : IsValue(i)}
  /\ \A n \in DOMAIN seen :
       /\ \A m \in 1 .. n - 1 : seen[m].at < seen[n].at
       /\ Under({i \in DOMAIN body : IsKey(i)}, seen[n].at, seen[n].key)

\* Something behind the key was inspected under it.
Served(keys, i) ==
  \E n \in DOMAIN seen : /\ seen[n].key = body[i] /\ seen[n].at > i
                         /\ \A k \in keys : k <= i \/ k > seen[n].at

\* Behind the key, arrays are opened and the first thing is one that ends.
EmptyArrays(i) ==
  \E j \in i + 1 .. Len(body) :
    body[j] = "]" /\ \A k \in i + 1 .. j - 1 : body[k] \in {"space", ":", "["}

\* json_val: a key in front of an object is inspected with an empty value, "to
\* avoid it left unparsed".  The only keys the rules never see are those of
\* arrays that begin with nothing but empty arrays.
KeysInspected ==
  \A i \in DOMAIN body : IsKey(i) =>
    Served({k \in DOMAIN body : IsKey(k)}, i) \/ EmptyArrays(i)

\* Nothing in a body that is accepted is hidden from the rules, neither a value
\* nor a key, and nothing is inspected twice.
EverythingInspected == Parsed /\ errors = 0 => ValuesInspected /\ KeysInspected

\* The parse of any body ends.
FairSpec == Spec /\ WF_vars(Next)
ParseEnds == <>(pc = "done")
=============================================================================
