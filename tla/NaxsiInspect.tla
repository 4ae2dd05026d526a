---------------------------- MODULE NaxsiInspect ----------------------------
(***************************************************************************)
(* The inspection of one request (ngx_http_naxsi_data_parse): headers, URI *)
(* and arguments, then the body, each cut into the strings the rules are   *)
(* run on, with the points where inspection stops early.                   *)
(*                                                                         *)
(* What the bytes hold is abstracted to what the parsers make of it.  An   *)
(* item is a (name, value) pair: the null bytes found when it is decoded,  *)
(* whether its UTF-8 is bad, what libinjection says of it where the        *)
(* location enables it, and for the local and the main rules, in order,    *)
(* the matches each rule makes in it (in the value, then in the name).     *)
(* Matches of rules that are whitelisted for it are left out: they have no *)
(* effect.  A match of an internal rule also decides where the parser goes *)
(* on, so their whitelisting is modelled.                                  *)
(***************************************************************************)
EXTENDS NaxsiScore, Sequences

CONSTANTS
  LIBINJECTION_SQL, LIBINJECTION_XSS,  \* tags of internal rules 17 and 18
  Effects,     \* what the rules do when they match
  Requests,    \* the requests explored
  LocConfs,    \* the configurations of the location explored
  MayFail      \* may the copies the parsers make fail to be allocated?

Seqs == INSTANCE SequencesExt

\* What the loops of the parsers do: op(c, x) for each x of s, in order.
Fold(op(_, _), c, s) ==
  LET f[i \in 0 .. Len(s)] == IF i = 0 THEN c ELSE op(f[i - 1], s[i])
  IN f[Len(s)]

\* The internal rules.
InternalIds == {2} \cup 10 .. 21

\* A match: what its rule does, and how often it matches.
Hit == [effect : Effects, nb_match : Nat]

Item ==
  [zeros : Seq(InternalIds), bad_utf8 : BOOLEAN, injections : Seq(InternalIds),
   hits : [{"local", "main"} -> Seq(Seq(Hit))]]

\* What a query holds between two '&': an item, or nothing.
Piece == {p \in Seq(Item) : Len(p) <= 1}

Query ==
  [present : BOOLEAN, zeros : Seq(InternalIds), trailing : BOOLEAN,
   pieces : Seq(Piece)]

\* In a body that is no query, every piece holds an item.
Body ==
  {b \in [bufs : BOOLEAN, temp_file : BOOLEAN, mismatch : BOOLEAN,
          type : {"none", "urlencoded", "multipart", "json", "other"},
          zeros : Seq(InternalIds), trailing : BOOLEAN, pieces : Seq(Piece),
          ending : {"closed", "boundary", "disposition", "format", "line"},
          errors : Seq(InternalIds)] :
     b.type # "urlencoded" => \A i \in DOMAIN b.pieces : b.pieces[i] # << >>}

Request ==
  [headers : Seq(Item), illegal_host : BOOLEAN, uri : Item, args : Query,
   method : {"GET", "PATCH", "POST", "PUT"}, body : Body]

\* A location: learning or not, for a client its ignore lists hold (listed)
\* or not; the internal rules it whitelists; by zone, which of its own and of
\* the main rules there are.
RuleSets == SUBSET {"local", "main"}
LocConf ==
  [learning : BOOLEAN, listed : BOOLEAN, whitelisted : SUBSET InternalIds,
   header_rules : RuleSets, generic_rules : RuleSets, get_rules : RuleSets,
   body_rules : RuleSets, raw_body_rules : RuleSets]

ASSUME InspectAssumption ==
  /\ {LIBINJECTION_SQL, LIBINJECTION_XSS} \subseteq Tags
  /\ \A e \in Effects : IsEffect(e)
  /\ Requests \subseteq Request /\ LocConfs \subseteq LocConf
  /\ MayFail \in BOOLEAN

VARIABLES
  pc,    \* the next parser
  req,   \* the request
  cf,    \* the location's configuration (and the main rules)
  ctx,   \* the context
  failed \* history: the parser whose copy was not allocated, if any

vars == <<pc, req, cf, ctx, failed>>

Init ==
  /\ pc = "headers"
  /\ req \in Requests
  /\ cf \in LocConfs
  /\ ctx = NewContext(cf.learning)
  /\ failed = "none"
-----------------------------------------------------------------------------
(***************************************************************************)
(* Matches.  In the operators below c is the context the parser is called  *)
(* with and k the location's configuration; they give the context it       *)
(* leaves.                                                                 *)
(***************************************************************************)

\* The match of an internal rule: those of libinjection also score.
Internal(id) ==
  [effect |->
     [sscores |-> CASE id = 17 -> [t \in {LIBINJECTION_SQL} |-> 8]
                    [] id = 18 -> [t \in {LIBINJECTION_XSS} |-> 8]
                    [] OTHER   -> [t \in {} |-> 0],
      flags |-> IF id \in {19, 20, 21} THEN {"drop"} ELSE {"block"}],
   nb_match |-> 1]

\* The internal rule is not whitelisted here.
Applies(k, id) == id \notin k.whitelisted

hit(k, c, h) == apply_rulematch(c, h.effect, h.nb_match, EnoughMemory, k.listed)

internal(k, c, id) == IF Applies(k, id) THEN hit(k, c, Internal(id)) ELSE c

\* A sequence of internal rules matches.
internals(k, c, ids) == Fold(LAMBDA d, id : internal(k, d, id), c, ids)

\* One rule, with the matches it makes in the item.
rule(k, c, hits) ==
  IF Going(c) THEN Fold(LAMBDA d, h : hit(k, d, h), c, hits) ELSE c

\* ngx_http_basestr_ruleset_n: an item against a set of rules.
basestr_ruleset(k, c, item, set) ==
  IF item.bad_utf8 /\ Applies(k, 20)
  THEN internal(k, c, 20)
  ELSE Fold(LAMBDA d, hits : rule(k, d, hits),
            internals(k, c, item.injections), item.hits[set])

\* Against the sets that hold rules for the zone, the location's first.
rulesets(k, c, item, sets) ==
  LET d == IF "local" \in sets THEN basestr_ruleset(k, c, item, "local") ELSE c
  IN IF "main" \in sets THEN basestr_ruleset(k, d, item, "main") ELSE d

\* An item is decoded (null bytes match rule 10) and run against the rules.
decoded(k, c, item, sets) ==
  rulesets(k, internals(k, c, item.zeros), item, sets)
-----------------------------------------------------------------------------
(***************************************************************************)
(* Headers, URI and arguments                                              *)
(***************************************************************************)

\* The loop over the headers goes on while the request is not blocked,
\* learning or not.
header(k, c, item) ==
  IF "block" \notin c.flags THEN decoded(k, c, item, k.header_rules) ELSE c

all_headers(k, c, headers) ==
  Fold(LAMBDA d, item : header(k, d, item), c, headers)

\* Mutant of headers_parse: the host is checked only if no header matched.
headers_parse_host_last(k, c, r) ==
  LET d == all_headers(k, c, r.headers)
  IN IF k.header_rules = {} THEN c
     ELSE IF r.illegal_host /\ d.matched = 0 THEN internal(k, d, 21) ELSE d

\* ngx_http_naxsi_headers_parse.
headers_parse(k, c, r) ==
  LET d == all_headers(k, c, r.headers)
  IN IF k.header_rules = {} THEN c
     ELSE IF r.illegal_host THEN internal(k, d, 21) ELSE d

\* A piece of a query string: an item, or nothing between two '&'.
piece(k, c, p, sets) ==
  IF p = << >> THEN internal(k, c, 12)
  ELSE IF Going(c) THEN decoded(k, c, p[1], sets) ELSE c

\* ngx_http_spliturl_ruleset: rule 10 for raw null bytes, rule 12 for a last
\* '&', then the pieces until inspection stops.
spliturl_ruleset(k, c, query, sets) ==
  LET d == internals(k, c, query.zeros)
      e == IF query.trailing THEN internal(k, d, 12) ELSE d
  IN Fold(LAMBDA x, p : piece(k, x, p, sets), e, query.pieces)

\* ngx_http_naxsi_uri_parse, once inspection is to go on.
uri_parse(k, c, r) ==
  IF k.generic_rules = {} THEN internal(k, c, 19)
  ELSE decoded(k, c, r.uri, k.generic_rules)

\* Mutant of ArgsDue: the main rules are forgotten.
ArgsDue_local == Going(ctx) /\ req.args.present /\ "local" \in cf.get_rules

\* ngx_http_naxsi_args_parse: are there arguments, and rules for them?
ArgsDue == Going(ctx) /\ req.args.present /\ cf.get_rules # {}
-----------------------------------------------------------------------------
(***************************************************************************)
(* The body                                                                *)
(***************************************************************************)

\* The parts of a multipart body, each decoded.
parts(k, c, pieces) ==
  Fold(LAMBDA d, p : decoded(k, d, p[1], k.body_rules), c, pieces)

\* ngx_http_naxsi_multipart_parse: the parts, then what ends the parse: the
\* closing boundary, a bad boundary, a malformed part, a malformed
\* content-disposition, or data whose end is not found.
multipart_parse(k, c, body) ==
  LET d == parts(k, c, body.pieces)
      e == internal(k, d, 13)
  IN CASE body.ending = "closed"      -> d
       [] body.ending = "boundary"    -> internal(k, d, 14)
       [] body.ending = "disposition" -> e
       [] body.ending = "format"      -> IF Applies(k, 13) THEN error_fatal(e) ELSE e
       [] body.ending = "line"        -> error_fatal(d)

\* Items that are not decoded: the values of a JSON body, a raw body.
values(k, c, pieces, sets) ==
  Fold(LAMBDA d, p : rulesets(k, d, p[1], sets), c, pieces)

\* ngx_http_naxsi_json_parse: the keys and values up to the first error;
\* what follows the value is another one.
json_parse(k, c, body) ==
  internals(k, values(k, c, body.pieces, k.body_rules), body.errors)

\* ngx_http_naxsi_rawbody_parse: the body as one item, if it is not empty.
rawbody_parse(k, c, body) == values(k, c, body.pieces, k.raw_body_rules)

\* The parser gives the body up: rule 2 applies to it.
TooBig(k, body) == (body.temp_file \/ body.mismatch) /\ Applies(k, 2)

\* The body, copied into one buffer, by content type.
typed_body(k, c, body) ==
  CASE body.type = "urlencoded" -> spliturl_ruleset(k, c, body, k.body_rules)
    [] body.type = "multipart"  -> multipart_parse(k, c, body)
    [] body.type = "json"       -> json_parse(k, c, body)
    [] OTHER ->
         IF ~Applies(k, 11) /\ Going(c) THEN rawbody_parse(k, c, body)
         ELSE internal(k, c, 11)

\* ngx_http_naxsi_body_parse.
body_parse(k, c, body) ==
  IF ~body.bufs THEN internal(k, c, 16)
  ELSE IF body.type = "none" /\ Applies(k, 11) THEN internal(k, c, 11)
  ELSE IF TooBig(k, body) THEN internal(k, c, 2)
  ELSE typed_body(k, c, body)

\* Does body_parse reach the copy of the body?
Copied(k, body) ==
  /\ body.bufs /\ ~(body.type = "none" /\ Applies(k, 11))
  /\ ~(body.temp_file /\ Applies(k, 2))

\* The request's method has a body, and there are rules for it.
HasBody(k, r) == r.method \in {"PATCH", "POST", "PUT"} /\ k.body_rules # {}

\* The body of this request is to be parsed.
BodyDue == HasBody(cf, req) /\ Going(ctx)
-----------------------------------------------------------------------------
(***************************************************************************)
(* The steps of ngx_http_naxsi_data_parse                                  *)
(***************************************************************************)
Headers ==
  /\ pc = "headers" /\ pc' = "uri"
  /\ ctx' = headers_parse(cf, ctx, req)
  /\ UNCHANGED <<req, cf, failed>>

\* A copy fails: an internal error, which stops the request.
CopyFails(parser) ==
  /\ MayFail
  /\ ctx' = error_fatal(ctx)
  /\ failed' = parser
  /\ UNCHANGED <<req, cf>>

Uri ==
  /\ pc = "uri" /\ pc' = "args"
  /\ \/ /\ ctx' = IF Going(ctx) THEN uri_parse(cf, ctx, req) ELSE ctx
        /\ UNCHANGED <<req, cf, failed>>
     \/ Going(ctx) /\ cf.generic_rules # {} /\ CopyFails("uri")

Args ==
  /\ pc = "args" /\ pc' = "body"
  /\ \/ /\ ctx' = IF ArgsDue
                  THEN spliturl_ruleset(cf, ctx, req.args, cf.get_rules)
                  ELSE ctx
        /\ UNCHANGED <<req, cf, failed>>
     \/ ArgsDue /\ CopyFails("args")

\* The JSON parser's state cannot be allocated: it returns, silently.
JsonFails ==
  /\ MayFail
  /\ req.body.type = "json" /\ Copied(cf, req.body) /\ ~TooBig(cf, req.body)
  /\ failed' = "json"
  /\ UNCHANGED <<req, cf, ctx>>

BodyStep ==
  /\ pc = "body" /\ pc' = "update"
  /\ \/ /\ ctx' = IF BodyDue THEN body_parse(cf, ctx, req.body) ELSE ctx
        /\ UNCHANGED <<req, cf, failed>>
     \/ BodyDue /\ Copied(cf, req.body) /\ CopyFails("body")
     \/ BodyDue /\ JsonFails

Update ==
  /\ pc = "update" /\ pc' = "done"
  /\ ctx' = update_current_ctx_status(ctx, cf.listed)
  /\ UNCHANGED <<req, cf, failed>>

Next == Headers \/ Uri \/ Args \/ BodyStep \/ Update

Spec == Init /\ [][Next]_vars
-----------------------------------------------------------------------------
(***************************************************************************)
(* The reference: what there is to find in a request r when nothing stops  *)
(* the inspection, as a sequence of matches.                               *)
(***************************************************************************)
FoundIf(k, present, id) ==
  IF present /\ Applies(k, id) THEN <<Internal(id)>> ELSE << >>

Found(k, ids) ==
  Seqs!FlattenSeq([i \in DOMAIN ids |-> FoundIf(k, TRUE, ids[i])])

FoundInSet(k, item, set) ==
  FoundIf(k, item.bad_utf8, 20) \o Found(k, item.injections)
  \o Seqs!FlattenSeq(item.hits[set])

FoundInItem(k, item, sets) ==
  (IF "local" \in sets THEN FoundInSet(k, item, "local") ELSE << >>)
  \o (IF "main" \in sets THEN FoundInSet(k, item, "main") ELSE << >>)

FoundDecoded(k, item, sets) ==
  Found(k, item.zeros) \o FoundInItem(k, item, sets)

FoundInPiece(k, p, sets) ==
  IF p = << >> THEN FoundIf(k, TRUE, 12) ELSE FoundDecoded(k, p[1], sets)

FoundInPieces(k, pieces, sets) ==
  Seqs!FlattenSeq([i \in DOMAIN pieces |-> FoundInPiece(k, pieces[i], sets)])

FoundInQuery(k, query, sets) ==
  Found(k, query.zeros) \o FoundIf(k, query.trailing, 12)
  \o FoundInPieces(k, query.pieces, sets)

FoundInHeaders(k, r) ==
  IF k.header_rules = {} THEN << >>
  ELSE Seqs!FlattenSeq([i \in DOMAIN r.headers |->
                          FoundDecoded(k, r.headers[i], k.header_rules)])
       \o FoundIf(k, r.illegal_host, 21)

FoundInUri(k, r) ==
  IF k.generic_rules = {} THEN FoundIf(k, TRUE, 19)
  ELSE FoundDecoded(k, r.uri, k.generic_rules)

FoundInArgs(k, r) ==
  IF r.args.present /\ k.get_rules # {}
  THEN FoundInQuery(k, r.args, k.get_rules) ELSE << >>

\* Items that are not decoded: JSON values, the raw body.
FoundInValues(k, pieces, sets) ==
  Seqs!FlattenSeq([i \in DOMAIN pieces |-> FoundInItem(k, pieces[i][1], sets)])

FoundTyped(k, body) ==
  CASE body.type = "urlencoded" -> FoundInQuery(k, body, k.body_rules)
    [] body.type = "multipart" ->
         FoundInPieces(k, body.pieces, k.body_rules)
         \o FoundIf(k, body.ending = "boundary", 14)
         \o FoundIf(k, body.ending \in {"format", "disposition"}, 13)
    [] body.type = "json" ->
         FoundInValues(k, body.pieces, k.body_rules) \o Found(k, body.errors)
    [] OTHER -> FoundIf(k, body.type = "other", 11)
                \o FoundInValues(k, body.pieces, k.raw_body_rules)

FoundInBody(k, r) ==
  IF ~HasBody(k, r) THEN << >>
  ELSE IF ~r.body.bufs THEN FoundIf(k, TRUE, 16)
  ELSE FoundIf(k, r.body.type = "none", 11)
       \o FoundIf(k, r.body.temp_file \/ r.body.mismatch, 2)
       \o FoundTyped(k, r.body)

Findings ==
  FoundInHeaders(cf, req) \o FoundInUri(cf, req) \o FoundInArgs(cf, req)
  \o FoundInBody(cf, req)

\* The context when a sequence of matches is applied, and when all are.
Run(k, hits) == Fold(LAMBDA d, h : hit(k, d, h), NewContext(k.learning), hits)
Full == Run(cf, Findings)

\* The multipart data cannot be parsed, which is an internal error.
Unparsable(k, r) ==
  /\ HasBody(k, r) /\ r.body.bufs /\ r.body.type = "multipart"
  /\ ~TooBig(k, r.body)
  /\ r.body.ending = "line" \/ (r.body.ending = "format" /\ Applies(k, 13))

FullyDenied == Denied(Full) \/ (Unparsable(cf, req) /\ ~cf.listed)
-----------------------------------------------------------------------------
(***************************************************************************)
(* Properties                                                              *)
(***************************************************************************)

\* Stopping early (the guards on block and drop, the returns after internal
\* rules 2, 11, 13, 14, 16 and 20) never changes the verdict outside
\* learning mode: the request is denied exactly when all it holds denies it.
EarlyExitSound ==
  pc = "done" /\ ~cf.learning /\ failed = "none" =>
    (Denied(ctx) <=> FullyDenied)

\* A request passes only when all there was to find has been found and
\* recorded: no header, argument or body part is skipped on the way.
PassSeesEverything ==
  pc = "done" /\ ~cf.learning /\ ~cf.listed /\ ~Denied(ctx)
    /\ failed # "json" => ctx.matched = Len(Findings)

\* When the copy of the URI, the arguments or the body cannot be made, the
\* request does not pass uninspected, learning or not.
FailClosed ==
  pc = "done" /\ failed \in {"uri", "args", "body"} /\ ~cf.listed =>
    "drop" \in ctx.flags
=============================================================================
