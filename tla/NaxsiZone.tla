------------------------------ MODULE NaxsiZone ------------------------------
(***************************************************************************)
(* The match zone of a rule or a whitelist, "mz:...", read keyword by      *)
(* keyword (naxsi_zone).  NaxsiWhitelist says what it means in a           *)
(* whitelist, NaxsiRules in a rule.                                        *)
(*                                                                         *)
(* Every pattern is assumed to compile.                                    *)
(***************************************************************************)
EXTENDS Integers, Sequences

CONSTANTS
  Strings,     \* names, URIs and patterns
  Uris,        \* the strings that are URIs
  lower,       \* ngx_hash_strlow, tolower
  rx_matches   \* the strings a string, taken for a pattern, matches

\* What is a URI and what is empty does not depend on the case.
ASSUME StringsAssumption ==
  /\ Uris \subseteq Strings /\ "" \in Strings \ Uris
  /\ lower \in [Strings -> Strings]
  /\ \A s, u \in Strings : lower[s] = lower[u] =>
       /\ s \in Uris <=> u \in Uris
       /\ s = "" <=> u = ""
  /\ rx_matches \in [Strings -> SUBSET Strings]

Located == {"$URL", "$ARGS_VAR", "$BODY_VAR", "$HEADERS_VAR"}
Keyword ==
  [mz : {"ANY", "RAW_BODY", "BODY", "HEADERS", "URL", "ARGS", "NAME",
         "FILE_EXT"} \cup Located,
   rx : BOOLEAN, target : Strings]

\* The flags of ngx_http_basic_rule_t a keyword sets.
FlagsOf(mz) ==
  CASE mz = "ANY"          -> {"any", "raw_body", "body", "body_rule",
                               "headers", "url", "args", "file_ext"}
    [] mz = "RAW_BODY"     -> {"raw_body"}
    [] mz = "BODY"         -> {"body", "body_rule"}
    [] mz = "HEADERS"      -> {"headers"}
    [] mz = "URL"          -> {"url"}
    [] mz = "ARGS"         -> {"args"}
    [] mz = "NAME"         -> {"target_name"}
    [] mz = "FILE_EXT"     -> {"file_ext", "body"}
    [] mz = "$ARGS_VAR"    -> {"args_var"}
    [] mz = "$BODY_VAR"    -> {"body_var"}
    [] mz = "$HEADERS_VAR" -> {"headers_var"}
    [] mz = "$URL"         -> {}

EmptyRule(ids) ==
  [ids |-> ids, flags |-> {}, rx_mz |-> FALSE, locations |-> << >>,
   refused |-> FALSE]

\* One keyword: ANY goes with nothing but $URL, and after a pattern comes no
\* plain $URL.  A location is compiled as soon as the rule holds a pattern.
keyword(r, k) ==
  IF \/ k.mz = "ANY" /\ r.flags # {}
     \/ "any" \in r.flags /\ (k.mz # "$URL" \/ k.rx)
     \/ k.mz = "$URL" /\ ~k.rx /\ r.rx_mz
  THEN [r EXCEPT !.refused = TRUE]
  ELSE [r EXCEPT
          !.flags = @ \cup FlagsOf(k.mz),
          !.rx_mz = @ \/ k.rx,
          !.locations =
            IF k.mz \in Located
            THEN Append(@, [var |-> k.mz, target |-> k.target,
                            target_rx |-> r.rx_mz \/ k.rx])
            ELSE @]

\* A match zone must hold a zone: $URL alone is none.
naxsi_zone(ids, mz) ==
  LET read[i \in 0 .. Len(mz)] ==
        IF i = 0 THEN EmptyRule(ids) ELSE keyword(read[i - 1], mz[i])
      r == read[Len(mz)]
  IN [r EXCEPT !.refused = @ \/ (mz # << >> /\ r.flags = {})]

\* The locations that name a variable, those that name a URL.
NamedIdx(r) == {i \in DOMAIN r.locations : r.locations[i].var # "$URL"}
UrlIdx(r)   == {i \in DOMAIN r.locations : r.locations[i].var = "$URL"}

VarZone(var) ==
  CASE var = "$BODY_VAR"    -> "BODY"
    [] var = "$HEADERS_VAR" -> "HEADERS"
    [] var = "$ARGS_VAR"    -> "ARGS"
=============================================================================
