---------------------------- MODULE MCNaxsiRules ----------------------------
(***************************************************************************)
(* An instance of NaxsiRules: texts over "a", "A" and "b", variables "a"   *)
(* and "ab", two URIs, every keyword of a match zone.                      *)
(***************************************************************************)
EXTENDS NaxsiRules

CharsDef == {"a", "A", "b"}
lowDef == [c \in CharsDef |-> IF c = "A" THEN "a" ELSE c]
StringsDef == {"", "a", "A", "ab", "/a", "/A", "/b", "^a"}
UrisDef == {"/a", "/A", "/b"}
lowerDef ==
  [s \in StringsDef |-> CASE s = "A" -> "a" [] s = "/A" -> "/a" [] OTHER -> s]
rx_matchesDef ==
  [s \in StringsDef |->
     CASE s = "^a" -> {"a", "A", "ab"}
       [] OTHER    -> {t \in StringsDef : lowerDef[t] = lowerDef[s]}]
spellingDef ==
  [s \in StringsDef |-> CASE s = "a"  -> <<"a">>
                          [] s = "A"  -> <<"A">>
                          [] s = "ab" -> <<"a", "b">>
                          [] OTHER    -> << >>]
TagsDef == {"$A"}
CheckRulesDef ==
  {[sc_tag |-> "$A", cmp |-> "SUP_OR_EQUAL", sc_score |-> 4, flags |-> {"block"}]}

K(mz) == [mz |-> mz, rx |-> FALSE, target |-> ""]
L(mz, target) == [mz |-> mz, rx |-> FALSE, target |-> target]
X(mz, target) == [mz |-> mz, rx |-> TRUE, target |-> target]

MatchZones ==
  {<<K("ANY")>>, <<K("ARGS"), K("BODY")>>, <<K("HEADERS"), K("NAME")>>,
   <<K("FILE_EXT")>>, <<K("RAW_BODY")>>, <<K("URL"), K("ANY")>>, <<K("URL")>>,
   <<L("$ARGS_VAR", "a")>>, <<L("$HEADERS_VAR", "A")>>,
   <<L("$BODY_VAR", "a"), K("NAME")>>, <<L("$BODY_VAR", "a"), K("BODY")>>,
   <<L("$ARGS_VAR", "a"), L("$ARGS_VAR", "A")>>,
   <<L("$URL", "/a"), K("ARGS")>>, <<L("$URL", "/a"), L("$BODY_VAR", "ab")>>,
   <<L("$URL", "/a")>>, <<L("$URL", "/A"), K("ANY")>>,
   <<X("$URL", "/a"), X("$ARGS_VAR", "^a"), K("HEADERS")>>,
   <<L("$URL", "/a"), X("$BODY_VAR", "^a")>>,
   <<K("RAW_BODY"), L("$BODY_VAR", "a")>>}

P(type, word, groups) == [type |-> type, word |-> word, groups |-> groups]
Patterns ==
  {P("STR", <<"a">>, 0), P("STR", <<"a", "b">>, 0), P("STR", <<"a", "a">>, 0),
   P("RX", <<"a", "a">>, 1), P("RX", <<"b">>, 2)}

Scores == [sscores |-> [t \in {"$A"} |-> 2], flags |-> {}]

RulesOf(mzs, negative, patterns) ==
  [mz : mzs, negative : {negative}, pattern : patterns, effect : {Scores}]

LinesDef ==
  RulesOf(MatchZones, FALSE, Patterns)
  \cup RulesOf(MatchZones, TRUE, {P("STR", <<"a", "b">>, 0), P("RX", <<"b">>, 2)})

\* Of two rules, the first is one of these.
Firsts ==
  RulesOf({<<K("ANY")>>}, FALSE, {P("STR", <<"a">>, 0)})
  \cup RulesOf({<<K("ARGS"), K("BODY")>>}, TRUE, {P("RX", <<"b">>, 2)})
Bound == Len(lines) = 2 => lines[1] \in Firsts

Values ==
  {<< >>, <<"b">>, <<"b", "a">>, <<"A", "a", "a">>, <<"a", "a", "b">>}
ItemsOf(source, names) ==
  [source : {source}, name : names, after_name : {<< >>}, value : Values,
   after_value : {<< >>, <<"b">>}, uri : {"/A", "/b"}]

InputsDef ==
  UNION {ItemsOf(s, {"A", "ab"}) : s \in {"headers", "args", "body"}}
  \cup ItemsOf("uri", {""}) \cup ItemsOf("raw", {""})
  \cup ItemsOf("file", {"a"})
=============================================================================
