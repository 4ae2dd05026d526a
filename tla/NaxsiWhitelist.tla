--------------------------- MODULE NaxsiWhitelist ---------------------------
(***************************************************************************)
(* Whitelists: their match zones when the configuration is read, their     *)
(* aggregation into hash tables (ngx_http_naxsi_create_hashtables_n), and  *)
(* the lookup of an item a rule has matched                                *)
(* (ngx_http_naxsi_is_rule_whitelisted_n).                                 *)
(*                                                                         *)
(* Keys of the tables are sequences of names, URIs and "#" where the code  *)
(* concatenates them: no name and no URI holds a '#'.  nginx's hash tables *)
(* are external: the first entry inserted under a key is the one found.    *)
(* Every pattern is assumed to compile.                                    *)
(***************************************************************************)
EXTENDS NaxsiZone, FiniteSets

CONSTANTS
  MatchZones,     \* match zones explored; << >> is a rule without "mz:"
  IdLists,        \* lists of rule ids explored, as in "wl:1000,1001"
  Items,          \* matches of rules to look up
  MayFail,        \* may allocations fail?
  FailSteps,      \* bound: the steps of a lookup where one may
  MaxWhitelists   \* bound: the whitelists of a location

Zones == {"HEADERS", "URL", "ARGS", "BODY", "FILE_EXT"}

Item == [rule_id : Int, zone : Zones, name : Strings, target_name : BOOLEAN,
         uri : Uris]

ASSUME WhitelistAssumption ==
  /\ "#" \notin Strings
  /\ MatchZones \subseteq Seq(Keyword)
  /\ IdLists \subseteq Seq(Int) \ {<< >>}
  /\ Items \subseteq Item
  /\ MayFail \in BOOLEAN /\ FailSteps \subseteq 2 .. 7
  /\ MaxWhitelists \in Nat

VARIABLES
  phase,            \* "conf", then "build", "serve", "answered"; or "refused"
  whitelist_rules,  \* the location's whitelists, in the order of its lines
  tables,           \* disabled_rules, rxmz_wlr and tmp_wlr
  next,             \* the whitelist create_hashtables comes to
  lookup            \* the item looked up, what was not allocated, the answer

vars == <<phase, whitelist_rules, tables, next, lookup>>
-----------------------------------------------------------------------------
(***************************************************************************)
(* Aggregation                                                             *)
(***************************************************************************)
LastOf(S) == CHOOSE i \in S : \A j \in S : j <= i
NameOf(r) == r.locations[LastOf(NamedIdx(r))]
UriOf(r)  == r.locations[LastOf(UrlIdx(r))].target

\* The zone of a whitelist that has a location: the last word is the named
\* location's.
wlr_zone(r) ==
  LET has(F) == r.flags \cap F # {}
  IN IF NamedIdx(r) # {} THEN VarZone(NameOf(r).var)
     ELSE IF has({"any"}) THEN "ANY"
     ELSE IF has({"body", "body_var"}) THEN "BODY"
     ELSE IF has({"headers"}) THEN "HEADERS"
     ELSE IF has({"args"}) THEN "ARGS"
     ELSE IF has({"url"}) THEN "URL"
     ELSE IF has({"file_ext"}) THEN "FILE_EXT"
     ELSE "UNKNOWN"

\* ngx_http_wlr_identify: one named location at most, and a zone.
wlr_identified(r) ==
  Cardinality(NamedIdx(r)) <= 1 /\ wlr_zone(r) # "UNKNOWN"

\* The key of a whitelist: [#]uri, [#]name or [#]uri#name.
fullname(r) ==
  (IF "target_name" \in r.flags THEN <<"#">> ELSE << >>)
  \o (IF UrlIdx(r) # {} THEN <<UriOf(r)>> ELSE << >>)
  \o (IF UrlIdx(r) # {} /\ NamedIdx(r) # {} THEN <<"#">> ELSE << >>)
  \o (IF NamedIdx(r) # {} THEN <<NameOf(r).target>> ELSE << >>)

\* The entries that stand for the whitelist already.
wlr_find(wlr, r) ==
  {i \in DOMAIN wlr : wlr[i].name = fullname(r) /\ wlr[i].zone = wlr_zone(r)}

\* The entry of a new key.
fresh(r) ==
  [name |-> fullname(r), zone |-> wlr_zone(r),
   uri_only |-> NamedIdx(r) = {}, target_name |-> "target_name" \in r.flags,
   ids |-> r.ids]

\* Mutant of wlr_merge: the merged list replaces its father's.
wlr_merge_replaces(wlr, r) ==
  IF wlr_find(wlr, r) = {}
  THEN Append(wlr, fresh(r))
  ELSE [i \in DOMAIN wlr |->
          IF i \in wlr_find(wlr, r)
          THEN [wlr[i] EXCEPT !.ids = r.ids] ELSE wlr[i]]

wlr_merge(wlr, r) ==
  IF wlr_find(wlr, r) = {}
  THEN Append(wlr, fresh(r))
  ELSE [i \in DOMAIN wlr |->
          IF i \in wlr_find(wlr, r)
          THEN [wlr[i] EXCEPT !.ids = @ \o r.ids] ELSE wlr[i]]

\* The locations of a whitelist with patterns are compiled: its name and its
\* last URL, if they were not yet.
compiled(r) ==
  [r EXCEPT !.locations =
     [i \in DOMAIN @ |->
        IF (NamedIdx(r) # {} /\ i = LastOf(NamedIdx(r)))
           \/ (UrlIdx(r) # {} /\ i = LastOf(UrlIdx(r)))
        THEN [@[i] EXCEPT !.target_rx = TRUE] ELSE @[i]]]

NoTables == [disabled_rules |-> << >>, rxmz_wlr |-> << >>, tmp_wlr |-> << >>]

\* The body of create_hashtables_n's loop.
add_whitelist(T, r) ==
  CASE r.locations = << >> -> [T EXCEPT !.disabled_rules = Append(@, r)]
    [] r.locations # << >> /\ r.rx_mz ->
         [T EXCEPT !.rxmz_wlr = Append(@, compiled(r))]
    [] OTHER -> [T EXCEPT !.tmp_wlr = wlr_merge(@, r)]
-----------------------------------------------------------------------------
(***************************************************************************)
(* Lookup                                                                  *)
(***************************************************************************)
InternalIds == 0 .. 999

\* Does a list hold the id?  The first id that decides does.
nx_check_ids(id, ids) ==
  LET excludes(i) == ids[i] < 0 /\ id \notin InternalIds /\ id = -ids[i]
      decides(i)  == ids[i] = id \/ ids[i] = 0 \/ excludes(i)
  IN \/ \E i \in DOMAIN ids :
          /\ decides(i) /\ ~excludes(i)
          /\ \A j \in 1 .. (i - 1) : ~decides(j)
     \/ /\ id \notin InternalIds
        /\ \E i \in DOMAIN ids : ids[i] < 0
        /\ \A i \in DOMAIN ids : ~decides(i)

\* The zones whose entries a hash table holds.
TableOf(zone) ==
  IF zone \in {"BODY", "FILE_EXT"} THEN {"ANY", "BODY", "FILE_EXT"}
  ELSE {"ANY", zone}

lower_key(key) ==
  [i \in DOMAIN key |-> IF key[i] = "#" THEN "#" ELSE lower[key[i]]]

Homonyms(T, key, zone) ==
  {i \in DOMAIN T.tmp_wlr :
     /\ T.tmp_wlr[i].zone \in TableOf(zone)
     /\ lower_key(T.tmp_wlr[i].name) = lower_key(key)}

\* Mutant of find_wl_in_hash: the key is looked up as it is written.
find_wl_in_hash_cased(T, key, zone) ==
  LET S == {i \in Homonyms(T, key, zone) : T.tmp_wlr[i].name = key}
  IN {T.tmp_wlr[i] : i \in {j \in S : \A k \in S : j <= k}}

\* nx_find_wl_in_hash: the entry found, if any.
find_wl_in_hash(T, key, zone) ==
  LET S == Homonyms(T, key, zone)
  IN {T.tmp_wlr[i] : i \in {j \in S : \A k \in S : j <= k}}

\* Mutant of is_whitelist_adapted: uri_only is not looked at.
is_whitelist_adapted_fooled(b, item, type) ==
  LET zone == IF item.zone = "FILE_EXT" THEN "BODY" ELSE item.zone
  IN /\ b.target_name = item.target_name
     /\ \/ b.zone = zone
        \/ b.zone = "ANY" /\ (type = "NAME_ONLY" => zone # "URL")
     /\ nx_check_ids(item.rule_id, b.ids)

\* Does the entry found apply to the item?
is_whitelist_adapted(b, item, type) ==
  LET zone == IF item.zone = "FILE_EXT" THEN "BODY" ELSE item.zone
  IN /\ b.target_name = item.target_name
     /\ CASE type = "NAME_ONLY" ->
               \/ b.zone = "ANY" /\ zone \in {"ARGS", "BODY", "HEADERS"}
               \/ b.zone = zone /\ ~b.uri_only
          [] type = "URI_ONLY" -> b.zone \in {zone, "ANY"}
          [] type = "MIXED"    -> ~b.uri_only /\ b.zone \in {zone, "ANY"}
     /\ nx_check_ids(item.rule_id, b.ids)

\* A disabled rule: one without location.  If it targets nothing, it is
\* disabled everywhere.
disabled(r, item) ==
  /\ nx_check_ids(item.rule_id, r.ids)
  /\ \/ r.flags \cap {"args", "headers", "body", "url"} = {}
     \/ /\ ("target_name" \in r.flags) = item.target_name
        /\ CASE item.zone = "ARGS"     -> "args" \in r.flags
             [] item.zone = "HEADERS"  -> "headers" \in r.flags
             [] item.zone = "BODY"     -> "body" \in r.flags
             [] item.zone = "FILE_EXT" -> "file_ext" \in r.flags
             [] item.zone = "URL"      -> "url" \in r.flags

\* ngx_http_rule_match_zone_rx: only whitelists of zone ANY are compared.
match_zone_rx(r, zone) ==
  \/ wlr_zone(r) # "ANY"
  \/ zone = "FILE_EXT" /\ "file_ext" \in r.flags

\* A whitelist with patterns; one left uncompiled matches.
whitelisted_rx(r, item) ==
  /\ match_zone_rx(r, item.zone)
  /\ ("target_name" \in r.flags) = item.target_name
  /\ \A i \in DOMAIN r.locations :
       LET loc == r.locations[i]
           matches(str) == loc.target_rx => str \in rx_matches[loc.target]
       IN /\ loc.var \in {"$BODY_VAR", "$ARGS_VAR"} => matches(item.name)
          /\ loc.var = "$URL" => matches(item.uri)
  /\ nx_check_ids(item.rule_id, r.ids)

\* Steps 2 to 7 look up a key in the hash tables.
hashed(T, item, step) ==
  LET found(key, zone, type) ==
        \E b \in find_wl_in_hash(T, key, zone) :
          is_whitelist_adapted(b, item, type)
  IN CASE step = 2 -> /\ item.name # ""
                      /\ found(<<item.name>>, item.zone, "NAME_ONLY")
       [] step = 3 -> /\ item.name # ""
                      /\ found(<<"#", item.name>>, item.zone, "NAME_ONLY")
       [] step = 4 -> found(<<item.uri>>, "URL", "URI_ONLY")
       [] step = 5 -> found(<<item.uri>>, item.zone, "URI_ONLY")
       [] step = 6 -> found(<<"#", item.uri>>, item.zone, "URI_ONLY")
       [] step = 7 -> found((IF item.target_name THEN <<"#">> ELSE << >>)
                            \o <<item.uri, "#", item.name>>,
                            item.zone, "MIXED")

\* What cannot be allocated: nothing, the copy nx_find_wl_in_hash makes at a
\* step (the entry is not found), or the key of a step (the lookup ends).
\* Bound: one allocation of a lookup fails.
Enough == [what |-> "nothing", step |-> 0]

Copies(item) == {5, 6, 7} \cup (IF item.name = "" THEN {} ELSE {2, 3})
Keys(T, item) ==
  {5, 6, 7} \cup (IF item.name = "" THEN {} ELSE {3})
  \cup {4 : i \in {j \in DOMAIN T.tmp_wlr :
                    T.tmp_wlr[j].zone \in TableOf("URL")}}

Failures(T, item) ==
  {Enough} \cup
  (IF MayFail
   THEN [what : {"copy"}, step : Copies(item) \cap FailSteps]
        \cup [what : {"key"}, step : Keys(T, item) \cap FailSteps]
   ELSE {})

is_rule_whitelisted(T, item, failure) ==
  LET lost(step) == \/ failure.what = "copy" /\ step = failure.step
                    \/ failure.what = "key" /\ step >= failure.step
  IN \/ \E i \in DOMAIN T.disabled_rules : disabled(T.disabled_rules[i], item)
     \/ \E step \in 2 .. 7 : ~lost(step) /\ hashed(T, item, step)
     \/ /\ ~lost(8)
        /\ \E i \in DOMAIN T.rxmz_wlr : whitelisted_rx(T.rxmz_wlr[i], item)
-----------------------------------------------------------------------------
(***************************************************************************)
(* A location, from its first whitelist to a lookup                        *)
(***************************************************************************)
NoLookup == [item |-> << >>, failure |-> Enough, whitelisted |-> FALSE]

IsWhitelist(r) ==
  /\ DOMAIN r = {"ids", "flags", "rx_mz", "locations", "refused"}
  /\ r.ids \in IdLists /\ r.rx_mz \in BOOLEAN /\ r.refused = FALSE

Init ==
  /\ phase = "conf"
  /\ whitelist_rules = << >>
  /\ tables = NoTables
  /\ next = 1
  /\ lookup = NoLookup

\* A line BasicRule wl:... of the location; an error refuses the whole
\* configuration.
BasicRule(ids, mz) ==
  LET r == naxsi_zone(ids, mz)
  IN /\ phase = "conf" /\ Len(whitelist_rules) < MaxWhitelists
     /\ \/ /\ r.refused \/ MayFail
           /\ phase' = "refused"
           /\ UNCHANGED whitelist_rules
        \/ /\ ~r.refused
           /\ whitelist_rules' = Append(whitelist_rules, r)
           /\ UNCHANGED phase
     /\ UNCHANGED <<tables, next, lookup>>

\* The location is complete: create_hashtables_n starts.
EndConf ==
  /\ phase = "conf"
  /\ phase' = "build"
  /\ UNCHANGED <<whitelist_rules, tables, next, lookup>>

\* One whitelist; an error refuses the configuration.
Aggregate ==
  LET r == whitelist_rules[next]
  IN /\ phase = "build" /\ next <= Len(whitelist_rules)
     /\ \/ /\ MayFail \/ (r.locations # << >> /\ ~wlr_identified(r))
           /\ phase' = "refused"
           /\ UNCHANGED <<tables, next>>
        \/ /\ r.locations = << >> \/ wlr_identified(r)
           /\ tables' = add_whitelist(tables, r)
           /\ next' = next + 1
           /\ UNCHANGED phase
     /\ UNCHANGED <<whitelist_rules, lookup>>

\* ngx_http_wlr_finalize_hashtables: from now on requests are served.
Finalize ==
  /\ phase = "build" /\ next > Len(whitelist_rules)
  /\ phase' = "serve"
  /\ UNCHANGED <<whitelist_rules, tables, next, lookup>>

\* A rule has matched an item.
Lookup(item, failure) ==
  /\ phase = "serve" /\ failure \in Failures(tables, item)
  /\ phase' = "answered"
  /\ lookup' = [item |-> item, failure |-> failure,
                whitelisted |-> is_rule_whitelisted(tables, item, failure)]
  /\ UNCHANGED <<whitelist_rules, tables, next>>

Next ==
  \/ \E ids \in IdLists, mz \in MatchZones : BasicRule(ids, mz)
  \/ EndConf
  \/ Aggregate
  \/ Finalize
  \/ \E item \in Items : \E failure \in Failures(tables, item) :
       Lookup(item, failure)

Spec == Init /\ [][Next]_vars
-----------------------------------------------------------------------------
(***************************************************************************)
(* What whitelists say (docs/whitelist.md, docs/matchzones.md): an item is *)
(* exempt when its rule is listed, the match is in a zone of the list, in  *)
(* its named variable if it has one, and at its URL if it has one.         *)
(***************************************************************************)
ZonesOf(r) ==
  {z \in Zones :
     CASE z = "HEADERS"  -> r.flags \cap {"headers", "headers_var"} # {}
       [] z = "ARGS"     -> r.flags \cap {"args", "args_var"} # {}
       [] z = "BODY"     -> r.flags \cap {"body", "body_var"} # {}
       [] z = "URL"      -> "url" \in r.flags
       [] z = "FILE_EXT" -> "file_ext" \in r.flags}

Fits(r, target, str) ==
  IF r.rx_mz THEN str \in rx_matches[target] ELSE lower[str] = lower[target]

\* Whitelist r names the item.
Names(r, item) ==
  /\ nx_check_ids(item.rule_id, r.ids)
  /\ r.flags # {} =>
       /\ ("target_name" \in r.flags) = item.target_name
       /\ item.zone \in ZonesOf(r)
  /\ \A i \in DOMAIN r.locations :
       IF r.locations[i].var = "$URL"
       THEN Fits(r, r.locations[i].target, item.uri)
       ELSE Fits(r, r.locations[i].target, item.name)

\* A whitelist the documentation is clear about: a zone besides RAW_BODY and
\* NAME, a single one with a location (FILE_EXT is in BODY), and, unless it
\* holds patterns, one URL at most, which is a URI, and no variable without
\* name or named like a URI.
Clear(r) ==
  /\ r.flags = {} \/ ZonesOf(r) # {}
  /\ r.locations # << >> =>
       \/ "any" \in r.flags
       \/ ZonesOf(r) \subseteq {"BODY", "FILE_EXT"}
       \/ Cardinality(ZonesOf(r)) = 1
  /\ ~r.rx_mz =>
       /\ Cardinality(UrlIdx(r)) <= 1
       /\ \A i \in DOMAIN r.locations :
            /\ r.locations[i].target # ""
            /\ r.locations[i].target \in Uris <=> i \in UrlIdx(r)

WhitelistSet == {whitelist_rules[i] : i \in DOMAIN whitelist_rules}

\* FILE_EXT is told apart from BODY for the item, which the code often does
\* not: a list of FILE_EXT covers BODY, and one of BODY with a URL FILE_EXT.
FilesApart(r, item) ==
  /\ item.zone = "BODY" /\ "file_ext" \in r.flags => "body_rule" \in r.flags
  /\ item.zone = "FILE_EXT" /\ "BODY" \in ZonesOf(r) /\ r.locations # << >> =>
       "file_ext" \in r.flags

OnlyListed ==
  lookup.whitelisted => \E r \in WhitelistSet : Names(r, lookup.item)

\* Nothing is exempt that no whitelist names, whatever was merged and
\* whatever could not be allocated; a variable named like a URI is not taken
\* for it, unless the list covers ANY zone of that URI (merge, find and
\* is_whitelist_adapted).  Not said of the values of a body where there are
\* lists of FILE_EXT, nor of file names where there are lists of BODY and a
\* URL: the code takes one for the other, against docs/matchzones.md:157, :162.
OnlyWhatIsListed ==
  (\A r \in WhitelistSet :
     /\ Clear(r) /\ ~r.rx_mz
     /\ lookup # NoLookup =>
          /\ FilesApart(r, lookup.item)
          /\ "any" \in r.flags /\ r.locations # << >> =>
               lookup.item.name \notin Uris)
  => OnlyListed

\* Two lists compete for a key: both are in one table under names that are
\* equal in lower case, and they are not merged; or they are and one of them
\* has negative ids.
Compete(r1, r2) ==
  /\ \A r \in {r1, r2} : r.locations # << >> /\ ~r.rx_mz
  /\ lower_key(fullname(r1)) = lower_key(fullname(r2))
  /\ \E z \in Zones : {wlr_zone(r1), wlr_zone(r2)} \subseteq TableOf(z)
  /\ \/ fresh(r1) # [fresh(r2) EXCEPT !.ids = r1.ids]
     \/ \E r \in {r1, r2} : \E i \in DOMAIN r.ids : r.ids[i] < 0

NoneCompete ==
  \A i, j \in DOMAIN whitelist_rules :
    i # j => ~Compete(whitelist_rules[i], whitelist_rules[j])

\* What a whitelist names is exempt, whatever the case of names and URIs and
\* whatever the other whitelists, unless two compete or memory runs out
\* (the sequence of lookups, and the keys they agree on with create_hashtables).
WhitelistsApply ==
  phase = "answered" /\ lookup.failure = Enough /\ NoneCompete =>
    \A r \in WhitelistSet :
      /\ Clear(r) /\ ~("any" \in r.flags /\ r.rx_mz)
      /\ FilesApart(r, lookup.item) /\ Names(r, lookup.item)
      => lookup.whitelisted

\* Aggregation changes nothing: together, whitelists exempt what each would
\* alone, the odd ones and those with patterns included (wlr_merge).
Aggregation ==
  phase = "answered" /\ lookup.failure = Enough /\ NoneCompete =>
    lookup.whitelisted =
      \E r \in WhitelistSet :
        is_rule_whitelisted(add_whitelist(NoTables, r), lookup.item, Enough)
=============================================================================
