----------------------------- MODULE NaxsiRules -----------------------------
(***************************************************************************)
(* Rules: the lists they are put into when the configuration is read, and  *)
(* how an item is run against one of them (ngx_http_basestr_ruleset_n),    *)
(* down to the search for a rule's pattern in a name or a value            *)
(* (ngx_http_process_basic_rule_buffer, strfaststr).                       *)
(*                                                                         *)
(* A text is what lies in memory from its first byte on, and its length.   *)
(* A regular expression is abstracted to a word with a number of groups:   *)
(* PCRE is external, and no expression matches the empty string.  Internal *)
(* rules, libinjection and whitelists are in NaxsiInspect and              *)
(* NaxsiWhitelist, and left out.                                           *)
(*                                                                         *)
(* RulesInit, RulesNext and RulesSpec have the names they have because     *)
(* NaxsiZoneProofs extends this module together with NaxsiWhitelist.       *)
(***************************************************************************)
EXTENDS NaxsiZone, NaxsiScore, FiniteSets

CONSTANTS
  Chars,       \* the bytes of texts
  low,         \* tolower
  spelling,    \* the bytes of a name
  MaxPairs,    \* the pairs of captures[] a match may fill
  Lines,       \* the rules explored, as configured
  Inputs,      \* the items explored
  MaxRules     \* bound: the rules of a location

Sources == {"headers", "uri", "args", "body", "file", "raw"}

Pattern == [type : {"STR", "RX"}, word : Seq(Chars) \ {<< >>}, groups : Nat]

ASSUME RulesAssumption ==
  /\ low \in [Chars -> Chars]
  /\ spelling \in [Strings -> Seq(Chars)]
  /\ MaxPairs \in Nat \ {0} /\ MaxRules \in Nat
  /\ \A l \in Lines :
       /\ l.mz \in Seq(Keyword) /\ l.mz # << >>
       /\ l.negative \in BOOLEAN /\ l.pattern \in Pattern
       /\ \A k \in DOMAIN l.pattern.word :
            low[l.pattern.word[k]] = l.pattern.word[k]
       /\ \A k \in DOMAIN l.mz : l.mz[k].rx => l.mz[k].mz \in Located
       /\ IsEffect(l.effect)
  /\ \A it \in Inputs :
       /\ it.source \in Sources /\ it.name \in Strings /\ it.uri \in Uris
       /\ {it.after_name, it.value, it.after_value} \subseteq Seq(Chars)

Seqs == INSTANCE SequencesExt

RuleLists == {"header_rules", "body_rules", "raw_body_rules", "generic_rules",
              "get_rules"}

VARIABLES
  pc,      \* "conf", "rules", "done", or "refused"
  lines,   \* history: the rules configured, in order
  lists,   \* the location's lists of rules, as numbers of lines
  input,   \* the item inspected
  turn,    \* the rule its list comes to
  ctx,     \* the context of the request
  applied  \* history: the matches, in order

rulesVars == <<pc, lines, lists, input, turn, ctx, applied>>
-----------------------------------------------------------------------------
(***************************************************************************)
(* Search                                                                  *)
(***************************************************************************)
\* name and value, with what follows them in memory.
NameText(it) == [bytes |-> spelling[it.name] \o it.after_name,
                 len |-> Len(spelling[it.name])]
ValueText(it) == [bytes |-> it.value \o it.after_value, len |-> Len(it.value)]

\* Does the needle stand at byte p, wherever the text ends?
StandsAt(bytes, p, needle) ==
  \A k \in DOMAIN needle :
    p + k - 1 \in DOMAIN bytes /\ low[bytes[p + k - 1]] = needle[k]

\* Mutant of strfaststr: a failed comparison skips the whole needle.
strfaststr_skips(text, from, needle) ==
  LET end == text.len + 1
      nl == Len(needle)
      search[p \in from .. end] ==
        IF p = end THEN 0
        ELSE IF low[text.bytes[p]] # needle[1] THEN search[p + 1]
        ELSE IF StandsAt(text.bytes, p, needle) THEN p
        ELSE IF p + nl >= end THEN 0
        ELSE search[p + nl]
  IN IF end - from < nl THEN 0 ELSE search[from]

\* strfaststr from byte `from`: the first place of the needle, or 0.  It is
\* compared at each place of its first byte, the last ones included.
strfaststr(text, from, needle) ==
  LET end == text.len + 1
      nl == Len(needle)
      search[p \in from .. end] ==
        IF p = end THEN 0
        ELSE IF low[text.bytes[p]] # needle[1] THEN search[p + 1]
        ELSE IF StandsAt(text.bytes, p, needle) THEN p
        ELSE IF p + nl >= end THEN 0
        ELSE search[p + 1]
  IN IF end - from < nl THEN 0 ELSE search[from]

\* How often a string is found, each search from the byte after the last place.
CountStr(text, needle) ==
  LET count[from \in 1 .. text.len + 1] ==
        LET p == strfaststr(text, from, needle)
        IN IF p = 0 THEN 0
           ELSE IF p + 1 > text.len THEN 1
           ELSE 1 + count[p + 1]
  IN count[1]

Within(text, p, needle) ==
  p + Len(needle) - 1 <= text.len /\ StandsAt(text.bytes, p, needle)

\* PCRE: the first match from byte `from` on, within the text.
rx_from(text, from, word) ==
  {p \in from .. text.len :
     /\ Within(text, p, word)
     /\ \A q \in from .. (p - 1) : ~Within(text, q, word)}

\* A match is worth its captures, the whole included; none if there is no
\* room for them.
Captures(groups) == IF groups + 1 > MaxPairs THEN 0 ELSE groups + 1

\* The captures of all matches, each search from the end of the last match.
CountRx(text, pattern) ==
  LET word == pattern.word
      count[from \in 1 .. text.len + 1] ==
        IF rx_from(text, from, word) = {} THEN 0
        ELSE LET p == CHOOSE p \in rx_from(text, from, word) : TRUE
             IN Captures(pattern.groups) + count[p + Len(word)]
  IN count[1]

nb_match(text, pattern) ==
  CASE pattern.type = "STR" -> CountStr(text, pattern.word)
    [] pattern.type = "RX"  -> CountRx(text, pattern)

\* ngx_http_process_basic_rule_buffer: does the rule match the text?
process_basic_rule_buffer(text, line) ==
  (nb_match(text, line.pattern) > 0) # line.negative
-----------------------------------------------------------------------------
(***************************************************************************)
(* Where a rule is looked for                                              *)
(***************************************************************************)
\* Mutant of Kept: rules on a named variable of the body are forgotten.
Kept_body_only(list) ==
  CASE list = "header_rules"   -> {"headers", "headers_var"}
    [] list = "body_rules"     -> {"body"}
    [] list = "raw_body_rules" -> {"raw_body"}
    [] list = "generic_rules"  -> {"url"}
    [] list = "get_rules"      -> {"args", "args_var"}

\* The flags that put a rule into a list (naxsi_br_loc_conf, read_main_conf).
Kept(list) ==
  CASE list = "header_rules"   -> {"headers", "headers_var"}
    [] list = "body_rules"     -> {"body", "body_var"}
    [] list = "raw_body_rules" -> {"raw_body"}
    [] list = "generic_rules"  -> {"url"}
    [] list = "get_rules"      -> {"args", "args_var"}

\* The list an item is run against, and the zone it is run in.
ListOf(source) ==
  CASE source = "headers" -> "header_rules"
    [] source = "uri"     -> "generic_rules"
    [] source = "args"    -> "get_rules"
    [] source \in {"body", "file"} -> "body_rules"
    [] source = "raw"     -> "raw_body_rules"
ZoneOf(source) ==
  CASE source = "headers" -> "HEADERS"
    [] source = "uri"     -> "URL"
    [] source = "args"    -> "ARGS"
    [] source \in {"body", "raw"} -> "BODY"
    [] source = "file"    -> "FILE_EXT"

\* A location left uncompiled in a rule with patterns matches.
FitsLocation(r, loc, str) ==
  IF r.rx_mz THEN loc.target_rx => str \in rx_matches[loc.target]
  ELSE lower[str] = lower[loc.target]

FirstUrl(r) == {i \in UrlIdx(r) : \A j \in UrlIdx(r) : i <= j}

\* The first $URL of a rule must hold.
uri_constraint_ok(r, uri) ==
  \A i \in FirstUrl(r) : FitsLocation(r, r.locations[i], uri)

\* The named locations the item is at.
NamedHere(r, it) ==
  {i \in NamedIdx(r) :
     /\ VarZone(r.locations[i].var) = ZoneOf(it.source)
     /\ FitsLocation(r, r.locations[i], it.name)}

ZoneFlags(zone) ==
  CASE zone = "HEADERS"  -> {"headers"}
    [] zone = "URL"      -> {"url"}
    [] zone = "ARGS"     -> {"args"}
    [] zone = "BODY"     -> {"raw_body", "body_rule"}
    [] zone = "FILE_EXT" -> {"file_ext"}

Hit(target_name, text, line) ==
  IF process_basic_rule_buffer(text, line)
  THEN <<[target_name |-> target_name, nb_match |-> nb_match(text, line.pattern)]>>
  ELSE << >>

InValue(it, line) == Hit(FALSE, ValueText(it), line)
InName(it, line) ==
  IF line.negative THEN << >> ELSE Hit(TRUE, NameText(it), line)

\* Mutant of in_locations: the loop goes on after a match.
in_locations_all(r, it, line) ==
  Seqs!FlattenSeq([i \in 1 .. Cardinality(NamedHere(r, it)) |->
                     InValue(it, line) \o InName(it, line)])

\* The custom locations: the loop ends with the first that matches, and all
\* that fit the item match alike.
in_locations(r, it, line) ==
  IF NamedHere(r, it) = {} THEN << >> ELSE InValue(it, line) \o InName(it, line)

\* The whole zone: the value, unless the rule targets names, and the name.
in_zone(r, it, line) ==
  IF r.flags \cap ZoneFlags(ZoneOf(it.source)) = {} THEN << >>
  ELSE (IF "target_name" \in r.flags THEN << >> ELSE InValue(it, line))
       \o InName(it, line)

\* The body of the loop over the rules.
Hits(r, it, line) ==
  IF uri_constraint_ok(r, it.uri)
  THEN in_locations(r, it, line) \o in_zone(r, it, line)
  ELSE << >>
-----------------------------------------------------------------------------
NoItem == [source |-> "none"]

RulesInit ==
  /\ pc = "conf"
  /\ lines = << >>
  /\ lists = [l \in RuleLists |-> << >>]
  /\ input = NoItem /\ turn = 1
  /\ \E learning \in BOOLEAN : ctx = NewContext(learning)
  /\ applied = << >>

\* A line MainRule or BasicRule; an error refuses the configuration.
Rule(line) ==
  LET r == naxsi_zone(<< >>, line.mz)
  IN /\ pc = "conf" /\ Len(lines) < MaxRules
     /\ IF r.refused
        THEN pc' = "refused" /\ UNCHANGED <<lines, lists>>
        ELSE /\ lines' = Append(lines, line)
             /\ lists' = [l \in RuleLists |->
                            IF r.flags \cap Kept(l) # {}
                            THEN Append(lists[l], Len(lines) + 1) ELSE lists[l]]
             /\ UNCHANGED pc
     /\ UNCHANGED <<input, turn, ctx, applied>>

\* A parser calls ngx_http_basestr_ruleset_n.
Inspect(it) ==
  /\ pc = "conf" /\ lines # << >>
  /\ pc' = "rules" /\ input' = it
  /\ UNCHANGED <<lines, lists, turn, ctx, applied>>

More == turn <= Len(lists[ListOf(input.source)]) /\ Going(ctx)

\* One rule.
Apply ==
  LET n == lists[ListOf(input.source)][turn]
      line == lines[n]
      hits == Hits(naxsi_zone(<< >>, line.mz), input, line)
      hit(c, h) == apply_rulematch(c, line.effect, h.nb_match, EnoughMemory, FALSE)
  IN /\ pc = "rules" /\ More
     /\ turn' = turn + 1
     /\ ctx' = Seqs!FoldLeft(hit, ctx, hits)
     /\ applied' = applied \o [i \in DOMAIN hits |-> [line |-> n, hit |-> hits[i]]]
     /\ UNCHANGED <<pc, lines, lists, input>>

Done ==
  /\ pc = "rules" /\ ~More
  /\ pc' = "done"
  /\ UNCHANGED <<lines, lists, input, turn, ctx, applied>>

RulesNext ==
  \/ \E line \in Lines : Rule(line)
  \/ \E it \in Inputs : Inspect(it)
  \/ Apply
  \/ Done

RulesSpec == RulesInit /\ [][RulesNext]_rulesVars
-----------------------------------------------------------------------------
(***************************************************************************)
(* The reference: a rule is looked for in the items its match zone asks    *)
(* for, as long as its URL holds (docs/rules.md, docs/matchzones.md).      *)
(* What it looks at in an item is not what docs/matchzones.md says of two  *)
(* kinds of rules: one without NAME looks at the name too (as              *)
(* unit-tests/tests/07naxsi_argnames.t expects), and one of a named        *)
(* variable and NAME looks at the value too.  NoRuleMissed asks the former *)
(* of the code, as the test does; OnlyWhatIsAsked allows both.             *)
(***************************************************************************)
Words(line) == {line.mz[i] : i \in DOMAIN line.mz}
Has(line, mzs) == \E k \in Words(line) : k.mz \in mzs
NameOnly(line) == Has(line, {"NAME"})
NamedVariable(line) == Has(line, {"$HEADERS_VAR", "$ARGS_VAR", "$BODY_VAR"})

Same(k, str) ==
  IF k.rx THEN str \in rx_matches[k.target] ELSE lower[str] = lower[k.target]

\* By a named variable, or by the whole zone.
ByVar(line, it) ==
  \E k \in Words(line) :
    /\ k.mz = CASE it.source = "headers" -> "$HEADERS_VAR"
                [] it.source = "args"    -> "$ARGS_VAR"
                [] it.source = "body"    -> "$BODY_VAR"
                [] OTHER                 -> "none"
    /\ Same(k, it.name)
ByZone(line, it) ==
  Has(line, {"ANY", CASE it.source = "headers" -> "HEADERS"
                      [] it.source = "uri"     -> "URL"
                      [] it.source = "args"    -> "ARGS"
                      [] it.source = "body"    -> "BODY"
                      [] it.source = "file"    -> "FILE_EXT"
                      [] it.source = "raw"     -> "RAW_BODY"})
Asked(line, it) ==
  /\ ByVar(line, it) \/ ByZone(line, it)
  /\ \A k \in Words(line) : k.mz = "$URL" => Same(k, it.uri)

\* A rule the documentation is clear about: patterns and plain names are not
\* mixed ("You CANNOT mix"), there is one URL, and RAW_BODY, which is run as
\* BODY, is not joined with zones that put the rule among those of BODY.
ClearRule(line) ==
  /\ \A k1, k2 \in Words(line) :
       {k1.mz, k2.mz} \subseteq Located => k1.rx = k2.rx
  /\ Cardinality({k \in Words(line) : k.mz = "$URL"}) <= 1
  /\ Has(line, {"RAW_BODY"}) =>
       ~Has(line, {"BODY", "$BODY_VAR", "FILE_EXT"})

Places(text, word) == {p \in 1 .. text.len : Within(text, p, word)}
Occurs(text, line) == Places(text, line.pattern.word) # {}

\* A string begins at the end of a text and goes on in what follows it.
Overruns(text, line) ==
  /\ line.pattern.type = "STR"
  /\ \E p \in 1 .. text.len :
       /\ StandsAt(text.bytes, p, line.pattern.word)
       /\ ~Within(text, p, line.pattern.word)

\* There is room for the groups of the expression.
Roomy(line) == line.pattern.type = "RX" => line.pattern.groups < MaxPairs

Texts == {NameText(input), ValueText(input)}
PlainRule(line) ==
  ClearRule(line) /\ Roomy(line) /\ \A t \in Texts : ~Overruns(t, line)

Matches(n, target_name) ==
  {i \in DOMAIN applied :
     applied[i].line = n /\ applied[i].hit.target_name = target_name}
-----------------------------------------------------------------------------
(***************************************************************************)
(* Properties                                                              *)
(***************************************************************************)

\* No rule is missed: unless the request is stopped before, a rule that asks
\* for the item and whose pattern is in its name or value has matched there;
\* so has a negative one whose pattern is not in the value (the flags, the
\* lists, the zone the parser runs the item in, and the search agree).
NoRuleMissed ==
  pc = "done" /\ Going(ctx) =>
    \A n \in DOMAIN lines :
      LET line == lines[n]
      IN PlainRule(line) /\ Asked(line, input) =>
           /\ ~line.negative /\ Occurs(NameText(input), line) =>
                Matches(n, TRUE) # {}
           /\ ~NameOnly(line) /\ Occurs(ValueText(input), line) # line.negative =>
                Matches(n, FALSE) # {}

\* A rule matches no item it was not asked to look at, no value if it is on
\* the names of whole zones, and nothing that does not hold its pattern; what
\* it counts is each place of a string, those that overlap included, or the
\* captures of disjoint places of an expression.  Left out, against
\* docs/matchzones.md: that a rule without NAME (:43, :78, :126) matches no name,
\* and one of a named variable and NAME (:69, :108, :152) not the value of the
\* variable.  The code looks at both.
OnlyWhatIsAsked ==
  \A n \in DOMAIN lines, target \in BOOLEAN : \A i \in Matches(n, target) :
    LET line == lines[n]
        text == IF target THEN NameText(input) ELSE ValueText(input)
        places == Places(text, line.pattern.word)
        apart(S) == \A p, q \in S : p < q => p + Len(line.pattern.word) <= q
    IN PlainRule(line) =>
         /\ Asked(line, input)
         /\ target => ~line.negative
         /\ ~target => ~NameOnly(line) \/ NamedVariable(line)
         /\ IF line.pattern.type = "STR"
            THEN applied[i].hit.nb_match = Cardinality(places)
            ELSE \E S \in SUBSET places :
                   /\ apart(S)
                   /\ applied[i].hit.nb_match
                        = Cardinality(S) * (line.pattern.groups + 1)
                   /\ \A p \in places : apart(S \cup {p}) => p \in S

\* A rule counts once for the value and once for the name, twice only if it
\* asks for both the variable and its zone, however many of its locations fit
\* (the break that ends their loop, the lists, which hold a rule once).
CountedOnce ==
  \A n \in DOMAIN lines, target \in BOOLEAN :
    ClearRule(lines[n]) =>
    Cardinality(Matches(n, target))
      <= IF ByVar(lines[n], input) /\ ByZone(lines[n], input) THEN 2 ELSE 1

\* docs/matchzones.md:82: a rule "detects the occurrence of the string
\* `malicious` exclusively within the HTTP GET queries values": the string is
\* in what the rule matched, none of it in what follows.
ExclusivelyWithin ==
  \A i \in DOMAIN applied :
    LET line == lines[applied[i].line]
    IN ~line.negative =>
         Occurs(IF applied[i].hit.target_name THEN NameText(input)
                ELSE ValueText(input), line)
=============================================================================
