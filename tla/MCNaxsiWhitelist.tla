-------------------------- MODULE MCNaxsiWhitelist --------------------------
(***************************************************************************)
(* Instances of NaxsiWhitelist: variables "a" and "A" that differ in case, *)
(* "b", a variable named like the URI "/a", and two other URIs.            *)
(***************************************************************************)
EXTENDS NaxsiWhitelist

Lower(s) == CASE s = "A" -> "a" [] s = "/A" -> "/a" [] OTHER -> s
StringsDef == {"", "a", "A", "b", "/a", "/A", "/b", "^a"}
UrisDef == {"/a", "/A", "/b"}
lowerDef == [s \in StringsDef |-> Lower(s)]

\* "^a" is a pattern for "a" and "A"; other strings match where they occur.
rx_matchesDef ==
  [s \in StringsDef |->
     CASE s = "^a"            -> {"a", "A", "^a"}
       [] s = ""              -> StringsDef
       [] s \in {"a", "A"}    -> {"a", "A", "/a", "/A", "^a"}
       [] OTHER               -> {t \in StringsDef : Lower(t) = Lower(s)}]

K(mz) == [mz |-> mz, rx |-> FALSE, target |-> ""]
L(mz, target) == [mz |-> mz, rx |-> FALSE, target |-> target]
X(mz, target) == [mz |-> mz, rx |-> TRUE, target |-> target]

\* Zones without location, the odd ones and one that is refused included.
Global ==
  {<< >>, <<K("ANY")>>, <<K("ARGS"), K("BODY")>>, <<K("HEADERS"), K("NAME")>>,
   <<K("FILE_EXT")>>, <<K("RAW_BODY")>>, <<K("URL"), K("ANY")>>}

\* Named variables and URLs.
Named ==
  {<<L("$ARGS_VAR", "a")>>, <<L("$HEADERS_VAR", "A")>>,
   <<L("$BODY_VAR", "a"), K("NAME")>>, <<L("$ARGS_VAR", "/a")>>,
   <<L("$ARGS_VAR", "a"), L("$BODY_VAR", "a")>>}

Urls ==
  {<<L("$URL", "/a"), K("ARGS")>>, <<L("$URL", "/A"), K("BODY"), K("NAME")>>,
   <<L("$URL", "/a"), K("FILE_EXT")>>, <<L("$URL", "/a"), K("ANY")>>,
   <<L("$URL", "/a"), K("URL")>>, <<L("$URL", "/a")>>,
   <<L("$URL", "/A"), L("$ARGS_VAR", "A")>>,
   <<L("$URL", "/a"), K("RAW_BODY")>>}

Patterns ==
  {<<X("$ARGS_VAR", "^a")>>, <<X("$HEADERS_VAR", "^a")>>,
   <<X("$URL", "/a"), K("BODY")>>,
   <<X("$URL", "/a"), L("$BODY_VAR", "b"), K("NAME")>>,
   <<X("$BODY_VAR", "^a"), L("$URL", "/a")>>,
   <<X("$URL", "/a"), K("ANY")>>}

HeaderPattern == {<<X("$HEADERS_VAR", "^a")>>}

AllMatchZones == Global \cup Named \cup Urls \cup Patterns

\* One rule; two, one of them internal; all user rules but one.
IdListsDef == {<<1000>>, <<1001, 17>>, <<-1000>>}

ItemsOf(zone, names, targets) ==
  [rule_id : {17, 1000, 1001}, zone : {zone}, name : names,
   target_name : targets, uri : {"/A", "/b"}]

ItemsDef ==
  ItemsOf("HEADERS", {"a"}, BOOLEAN) \cup ItemsOf("URL", {""}, {FALSE})
  \cup ItemsOf("ARGS", {"A", "/a"}, BOOLEAN)
  \cup ItemsOf("BODY", {""}, {FALSE}) \cup ItemsOf("BODY", {"A"}, BOOLEAN)
  \cup ItemsOf("FILE_EXT", {"a"}, {FALSE})
=============================================================================
