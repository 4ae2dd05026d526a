# naxsi in TLA+

naxsi is a web application firewall: an nginx module that inspects each HTTP
request against rules, adds up scores, and blocks, drops, logs or lets pass.
This directory holds a model of it, the TLC configurations that check the model
on small instances, and proofs, checked by TLAPS, of the results that hold for
every instance. Paths below are relative to `src/naxsi_src/` unless they start
with `docs/`.

- [The system](#the-system): parts, state, interactions, what is hard
- [The modules](#the-modules): what each models and what it leaves out
- [The runs](#the-runs): what TLC checks, with which bounds
- [The proofs](#the-proofs): what holds for all instances, and why
- [Where the code and its documentation differ](#where-the-code-and-its-documentation-differ)
- [Plan](#plan): what is done, what is left
- [What is not modelled](#what-is-not-modelled)

## The system

An nginx worker is a single-threaded event loop. It runs the *phases* of a
request until one of them waits, and takes up another request. naxsi registers
a handler in the REWRITE phase. Everything naxsi does at run time happens in
that handler and in the callback nginx calls when a request's body is complete.
Everything else happens while the configuration is read.

| Part | Code | State | Operations |
| --- | --- | --- | --- |
| request handler | `naxsi_skeleton.c:1285-1664`, `naxsi_runtime.c:1043-1192, 2685-2703` | the context of the request (`ngx_http_request_ctx_t`: over, ready, wait_for_body, learning, enabled, post_action, block, drop, ...), `r->count`, the location's counters and post action | make the context, read the body, inspect, deny, redirect, run the post action |
| match application | `naxsi_runtime.c:20-70, 1194-1354, 2583-2682` | scores by tag, flags, list of matches | a rule matches; CheckRules are compared; an internal error |
| inspection engine | `naxsi_runtime.c:1357-1830, 1980-2580` | the context | headers, URI, arguments, body, each cut into items that are run against the rules |
| body parsers | `naxsi_runtime.c:1832-2273`, `naxsi_json.c`, `naxsi_raw.c` | position in the body; for JSON the depth and the current key | one value, one part, one internal rule for what is malformed |
| whitelist tables | `naxsi_utils.c:213-841` | disabled rules, hash tables, whitelists with patterns | one whitelist is identified, merged or added; tables are built |
| whitelist lookup | `naxsi_runtime.c:299-1041`, `naxsi_utils.c:1048-1074` | none | is this match of this rule exempt? |
| rule parser | `naxsi_config.c` | one rule | ids, scores, match zones, patterns, CheckRules |
| configuration life cycle | `naxsi_skeleton.c:400-1283` | main and location configurations | create, inherit, validate, register |
| ignore lists | `naxsi_net.c`, `naxsi_runtime.c:449-485` | addresses, CIDRs | is this client ignored? |
| decoding | `naxsi_utils.c:20-214`, `naxsi_utf8.c` | position in the string | percent-decoding, null bytes, UTF-8 |
| logging | `naxsi_log.c` | a line, split into fragments | text and JSON fields, flush |
| exported variables | `naxsi_skeleton.c:1666-2110` | none | `$naxsi_attack_action` and others, read by later phases |

**How they interact.** The request handler calls the inspection engine once,
which calls the parsers, which cut out items and run the location's and the
main rules on them. Each match goes through match application: it first asks
the whitelist lookup, then adds scores and flags and compares the CheckRules.
The handler reads the flags when inspection ends. What the calls share is the
context of the request; what requests share is the location's configuration,
which at run time is read only but for two counters and nginx's `post_action`.

**What is hard.** No thread ever runs in parallel, but a request suspends where
its body is awaited, and its phases may be entered again for rewrites, error
pages, `DeniedUrl` and post actions; internal redirects erase the module's
context; nginx's reference count is lowered by hand. Inspection has a dozen
early exits, each with a guard of its own. Flags are raised on partial scores.
Allocations fail. The whitelists of a location are merged, hashed in lower case
and looked up under seven keys. `PROJECT.json` lists each of these hazards at its
line, with the properties that cover it.

**What makes each part correct.**

- Request handler: a guarded location is reached by no client request uninspected
  (internal requests are not inspected: one that nginx redirects from a location
  that is switched off into a guarded one is not, and `NoBypass` leaves it out); a
  request is inspected once, its verdict is final and honoured; it is freed exactly
  when its last user is done; counters are exact; every request ends.
- Match application: scores are what the matches add up to; the verdict is that of
  the totals, in whatever order rules match; lost memory never blocks more (it may
  well let pass); ignored clients are never stopped.
- Inspection: stopping early changes no verdict; what passes has been seen
  whole; what cannot be copied does not pass.
- Whitelists: they exempt what they name, nothing else, and each does so
  whatever the others are.
- Parsers, decoding: everything between the delimiters is inspected once; the
  recursion is bounded; malformed input raises an internal rule.
- Rule matching: a rule is looked for where its match zone says, counts once, and
  matches only what is there.
- Configuration: a location has the rules, switches and ignore lists it declares or
  inherits, and none is enabled unfinished.
- Logging: nothing is written behind the buffer, no field is lost or repeated between
  lines, every further line begins with the request id.

## The modules

```
NaxsiGate     <== implemented by ==  NaxsiRequest    requests, worker, references
NaxsiScore    <-- extended by ------ NaxsiMatches    any sequence of matches
              <-- extended by ------ NaxsiInspect    the matches of a request, in order
              <-- extended by -----\
                                     NaxsiRules      rules, lists, search
NaxsiZone     <-- extended by -----/                 match zones
              <-- extended by ------ NaxsiWhitelist  whitelists, tables, lookup
NaxsiNet      <-- extended by ------ NaxsiConf       directives, inheritance, ignore lists
NaxsiDecode   <-- extended by ------ NaxsiItems      queries and multipart bodies
NaxsiJson                                            JSON bodies
NaxsiLog                                             log lines
```

`NaxsiXProofs` extends `NaxsiX` with its theorems (Request, Matches, Inspect, Json, Conf,
Log, Items); `NaxsiZoneProofs` extends both modules that rest on `NaxsiZone`, which is why
`NaxsiRules` names its `RulesInit`, `RulesNext` and `RulesSpec`. `MCNaxsiX` gives the
constants of `NaxsiX` small values.

`NaxsiRequest` leaves the result of an inspection open: any values of block and
drop. `NaxsiMatches` and `NaxsiInspect` say which values there may be. `NaxsiInspect`
in turn leaves open which items a text has (`NaxsiItems`, `NaxsiJson`), which rules
match one (`NaxsiRules`) and which matches are exempt (`NaxsiWhitelist`); it takes
the local and the main rules that `NaxsiConf` puts in force.

### NaxsiGate and NaxsiRequest

`NaxsiGate` is what a client and an operator are promised: at most one decision
per request, taken before the resource answers, never revised; a denied request
does not get to the resource; only denied ones are sent to `DeniedUrl`.

`NaxsiRequest` is the handler with nginx around it. `access_handler(q)` is one call
of `ngx_http_naxsi_access_handler`, split by its returns: `Skip` (inspected
already, disabled, internal), `StillWaiting` (NGX_DONE), `Open` (makes the
context; then `SwitchedOff`, `AwaitBody`, `BodyError` or `Inspect`), `OutOfMemory`,
`Resume`. `payload_handler(q)` is the body callback up to
`ngx_http_core_run_phases`; the call that follows is `Resume`, with `worker = q`
all along. `output_forbidden_page` is part of the step that inspects, as in the
code. Rewrites, redirects, content handlers, aborted bodies and reference
counting are nginx's and marked external. `worker` says whose phases are
running: another request moves only when it is `NoRequest`, so interleaving is
exactly where the event loop allows it. `count` is `r->count` and `References(q)` the
users it should count. `inspections`, `inspected_at`, `at_origin` and `denied` are
history.

Left out: the log line (only its failure remains), headers set on the denied
page, the other exported variables, subrequests (the handler declines them as
internal), a body whose reading fails after NGX_AGAIN with a status of its own
(it ends with `BodyAborted` like a timeout).

### NaxsiScore and NaxsiMatches

`NaxsiScore` holds the operators: `apply_rulematch` (flags and scores of a rule,
multiplied by the number of matches, under a memory that may refuse entries),
`update_current_ctx_status` (CheckRules, then what an ignored client is spared)
and `error_fatal`. `NaxsiMatches` applies them in any order and number, and keeps
the totals, the applied rules, and whether memory was lost as history; `Expected`
is the verdict as a user reads the rules. Left out: `ctx->score`, which nothing
reads, and widths: a score would have to pass 2^63.

### NaxsiInspect

One step per parser of `ngx_http_naxsi_data_parse`: headers, URI, arguments, body,
last update. Under each, operators named after the functions reproduce the order
of the calls and every guard on block, drop and learning. They take the request and
its location as one argument, `k`, and the context as another: a call is a function of
both, and a loop over the parts of a body a recursive function of the turn. The bytes
are abstracted to *items*: the null bytes found in one, whether its UTF-8 is bad, what
libinjection finds, and the matches of each rule, for the local and the main rules.
What is to be found when nothing stops early is computed apart, as the sequence
`Findings`, and compared: `Fold` applies it match by match.

Assumptions: matches get the memory they need (`EnoughMemory`; `NaxsiMatches` covers
the rest), the URI is not empty, `r->request_body` exists when the body parser is
called, and whitelists are a set of internal rule ids (those decide what a parser
does next; a whitelisted ordinary match has no effect and is left out). Bodies are
abstracted to their items and an ending: how they are cut is in `NaxsiItems` and
`NaxsiJson`.

### NaxsiZone and NaxsiWhitelist

`NaxsiZone` is the reading of a match zone, keyword by keyword, into the flags and
locations of a rule, with its refusals. `NaxsiWhitelist` goes from the lines of a
location to an answer. `BasicRule` reads one whitelist
(`naxsi_zone`), `Aggregate` is one iteration
of the loop of `ngx_http_naxsi_create_hashtables_n` (`add_whitelist`: disable, keep
as pattern, or merge under a key), `Finalize` builds the hash tables, `Lookup` is a
call of `ngx_http_naxsi_is_rule_whitelisted_n`: disabled rules, then seven lookups,
then the patterns, with an allocation that fails at some step or none.

Keys are sequences of names and `#` rather than bytes, so no name or URI holds a
`#`. nginx's hash tables are external: keys are compared in lower case and the
first inserted wins (`Homonyms`, `find_wl_in_hash`). All patterns compile. `Strings`,
`lower` and `rx_matches` are constants.

`Names` is what the documentation says of a whitelist. The properties are stated of
lists for which it is clear (`Clear`): a zone, and a single one with a location; one
`$URL` at most, whose value is a URI; no variable without name or named like a URI (with
two `$URL`s the last is the key, and an entry without name is not looked up). They say
nothing where FILE_EXT and BODY are taken for each other (`FilesApart`): of values of a
body where there is a list of FILE_EXT, nor of file names where there is one of BODY and
a URL. docs/matchzones.md:157 and 162 have FILE_EXT for file names only. WhitelistsApply also leaves out
lists of ANY and a pattern (`$URL_X:...|ANY`), which exempt file names only, as
`match_zone_rx` compares no other zone with ANY. See the
list of what else is not clear, under
[divergences](#where-the-code-and-its-documentation-differ). Lists that hide each
other (`Compete`: same table, same key in lower case, and different zones or spellings;
or merged with negative ids) are exempt from the two properties that promise
they apply.

### NaxsiRules

A configuration of rules, then one item run against one list of them. `Rule(line)`
parses a match zone and puts the rule into the lists its flags name, as
`ngx_http_naxsi_br_loc_conf` and `ngx_http_naxsi_read_main_conf` both do; `Apply` is one
turn of the loop of `ngx_http_basestr_ruleset_n`: the URL first, then the named
locations, then the zone, each looking into the value and the name with
`process_basic_rule_buffer`. `strfaststr` is translated with what lies in memory behind
the text, because the code compares it. A regular expression is a word with groups: which
texts PCRE matches is external, what the code does with the number PCRE returns is not.

The properties are stated of rules the documentation is clear about (`ClearRule`, `Roomy`):
patterns and plain names are not mixed in a match zone, there is one URL, `RAW_BODY` is not
joined with zones that put the rule among those of BODY, and there is room for the groups.
What the code does with the others:

- one pattern in a match zone makes `rx_mz` of the rule, and its plain locations, which
  have no expression compiled, match everything;
- of several `$URL` only the first is looked at;
- `RAW_BODY|BODY` runs on every item of a body, and on raw bodies as one of zone BODY;
- an expression of more than nine groups matches and counts 0 times (PCRE returns 0), so
  its rule never matches, and each group counts as one match more;
- `mz:ARGS` or `mz:HEADERS` also look at names (docs/matchzones.md has "values";
  unit-tests/tests/07naxsi_argnames.t expects names), and `$ARGS_VAR:x|NAME` also at the
  value. NoRuleMissed asks the former of the code, as the test does, and OnlyWhatIsAsked allows
  both: what it says of NAME is about rules of whole zones.

No expression matches the empty string: if one does, the loop at `naxsi_runtime.c:187-226`
stays where it is for ever.

### NaxsiDecode and NaxsiItems

`NaxsiDecode` has the conversions: null bytes, percent escapes as the state machine of
`naxsi_unescape_uri`, and the UTF-8 check. Next to each is a reference defined in another way
(`Decoded`, `Uncommon`, `IsUtf8`: pieces of a text, scalar values with their shortest
encoding).

`NaxsiItems` cuts a text. A query is bytes: `QueryStart`, then `QueryEmpty` or
`QueryPiece` per turn of the loop of `ngx_http_spliturl_ruleset`. A multipart body is tokens
with widths, since the parser compares lengths (`Closing`): `MultipartTop`, `MultipartHeader`,
`MultipartData` are the stretches of the loop of `ngx_http_naxsi_multipart_parse`, with the internal
rule each refusal raises. The references are a grammar (`Readings`: all the sequences of items
that a body can be read as) and the pieces between the `&` of a query. Early exits are in
`NaxsiInspect` and left out here.

The model counts internal rule 20 once for each item that is not UTF-8, the code once for each
list of rules the item is run against; the properties ask whether it was raised. The inner loop of the
multipart parser that seeks a boundary behind null bytes (`naxsi_runtime.c:2140-2148`) is one step of the
model, `DataEnd`: that this loop moves on at each null byte is not checked, only what it finds.

What the model shows of the code and no property forbids: an escape cut by the end of the text
disappears; a header line that announces a file is followed by one line that is skipped
whatever it says, a boundary included; the byte before a line feed is not looked at; nor are the
two bytes behind a closing boundary; the data of a file is not inspected, only its name.

`LoopsAdvance` is a safety property: each turn moves forward, and a text is finite. Stating that
both loops end under fairness would say no more, and cost an ENABLED per state.

### NaxsiJson

The recursive descent of `naxsi_json.c` with an explicit stack of calls (`stack`): a frame is the
function that waits and where. A body is chosen token by token while it is read (`More`,
`End`), so all bodies of up to `MaxTokens` tokens are explored, malformed ones among them.
`Tokens` are what the parser tells apart; what is inside a string is a text.

A body is accepted without internal rule 15 exactly if it is JSON of at most JSON_MAX_DEPTH
containers in one another (`AcceptsJson`). The reference is the grammar: what a text without its white
space has of each kind (`Scalars`, `Lists`, `Members`, `Closed`, `Values`), as the places where it
begins and ends; how it is parsed plays no part in it. An element of an array that
follows an object is inspected under the last key of that object: `ValuesInspected` states
this rule as it is.

### NaxsiNet and NaxsiConf

`NaxsiNet` is `naxsi_net.c` over addresses of any width: an address is bits, a mask the set of its
bits, and a shift by the width of a word, which C leaves undefined, any of the results a machine
gives (`Shifted`).

`NaxsiConf` loads a configuration: any lines in any blocks (`Directive`, `MainRule`, one action per
handler), the end of the file, the merges, from the outside in (`Merge`), and `naxsi_init`. A handler that
fails ends everything (`Refused`). `declared` is history: what the lines say. The hash
tables are represented by the lists they are built from; `NaxsiWhitelist` says what is in them.
What a location *runs* is compared with what its text and the text around it says.

Seen in the model, and allowed by the properties: a block that lists one rule of a kind drops all
those of the block around it; switches cannot be turned off again; `SecRulesEnabled` in
http without `DeniedUrl` there is refused though every location has one; an address listed
twice is refused; `/320` is read as `/32`; a location whose only ignored CIDR is one
address hides the addresses (not the CIDRs) of the block around it; `MainRule` accepts a
whitelist and takes it for a rule (docs/directives.md:156 and 179).

### NaxsiLog

One step per field of an action log or an extended log. Texts are lengths; a value is a number of
bytes that are escaped followed by those that are not. `text_string`, `json_string` and the rest give
the length after the call, the last byte written, and how much of the value is in the line. Sizes
are modulo `SizeT`, as some are computed by subtraction. `lines` are the log lines as fields.

FieldsAccounted says where every field is and how much of it, and names what the code does lose:

- a text value of which half, escaped, is longer than a line (`TooWide`, `naxsi_log.c:56`)
  is not logged at all;
- the last digit of a number that ends exactly at the limit of a JSON line, because no room is asked
  for its comma (`naxsi_log.c:252-257`), and no digit more;
- the end of a JSON string with escapes, because room is asked for its bytes before they are escaped
  (`naxsi_log.c:222`): it may be cut in a line that is nearly full though a new line would hold it
  (`MayBeCut`); and what is half a line or longer, or does not fit into a new line.

A new line of a JSON log that a number begins is a text line (`rid=` instead of `"rid":`,
`naxsi_log.c:254`), and no other is; LinesCarryRid says both. It is about the lines after the first.
The first has the id as an ordinary field, or not at all when it is full before that field's turn; the second then begins with the id and
holds it once more. An escape `\u00xx` may pass the limit by one (`naxsi_log.c:168`), which the 100
bytes behind `NAXSI_LOG_MAX` absorb. Left out: lengths of 2^30 and more, which the code divides
first, and the second escaping of the URI in `naxsi_log_uri`, which only makes it longer.

## The runs

Each run is a module and a configuration; `tlc -config X.cfg M`. Distinct states are
given for the passing ones.

| Run | Checks | Instance and why it is enough |
| --- | --- | --- |
| `request_one` (22,614) | TypeOK, InspectedOnce, NoBypass, VerdictHonoured, BodyHasContext, ActionIsExported, ImplementsGate | one request, every value of every flag, a guarded, a learning and a disabled location and a guarded denied page, three hops: enough to be rewritten, redirected by nginx and run again while the body is awaited, with a denial and a post action on top |
| `request_two` (574,372) | CountersAgree, ReferencesExact, VerdictFinal, EveryRequestFreed | two requests that ask for post actions, a learning location and a guarded page, one hop each: what they share is two counters and post_action, and two suffice for one to write between two reads of the other; no symmetry, which liveness does not allow |
| `matches` (152,128) | ScoresAddUp, OrderIndependent, NeverOverblocks, IgnoredNeverStopped, FlagsSticky | two tags, three CheckRules at limits the scores hit exactly and pass, five rules (two tags at once, negative score, flags only), 0 to 2 matches each, four steps, every way memory may fail |
| `inspect` (899,127) | EarlyExitSound, PassSeesEverything, FailClosed | requests with two items in each place, of seven kinds (clean, half the limit, blocked, dropped, null byte, bad UTF-8, libinjection), all body types and endings, locations that whitelist the internal rules the parsers branch on or lack a set of rules; two items because an early exit can only hide the second from the first |
| `whitelist` (829,786) | OnlyWhatIsListed, WhitelistsApply, Aggregation | up to two whitelists of 26 match zones (all keywords, cases, refused ones) and 3 id lists, 11 kinds of item in 5 zones at 2 URIs; two because a table entry is merged with or hidden by one other |
| `rules` (368,680) | NoRuleMissed, OnlyWhatIsAsked, CountedOnce | one or two rules of 19 match zones (every keyword, patterns, mixtures, URLs that hold or not), strings and expressions that overlap themselves and have groups, negative or not; items of every source whose texts hold a pattern never, once, twice, overlapping, in another case or across their end; the second rule is there because the first may stop the request |
| `conf` (271,705) | RulesInForce, SwitchesStick, EnabledIsReady, IgnoredAsListed | http, a server and a location; any three directives of every kind, well formed or not, in any of them; IPv4 of two bits and IPv6 of two words of two bits, masks of 0, less than, exactly and more than a word, and too long: three blocks because a location inherits through a server, three lines because one block may say what the next overrides and a third enables |
| `items` (155,348) | QueryInspected, QueryReported, MultipartInspected, LoopsAdvance | all queries of up to five bytes of the seven that matter (an escape is three, so one fits beside each delimiter), texts around every limit of the UTF-8 check; multipart bodies of up to two parts, with and without files, with every edit of one token, and two in the smallest; boundaries of 0, 2, 3, 70 and 71 bytes |
| `json` (660,974) | NestingBounded, AcceptsJson, EverythingInspected, ParseEnds | all bodies of up to eight tokens with two texts, a limit of two instead of ten containers: one too many fits three times, siblings after it as well |
| `log` (287,360) | WithinBuffer, FieldsAccounted, LinesCarryRid | lines of 64 bytes in a buffer of 66: values of every length up to half a line, around one and of two, with few or many bytes escaped to 2, 3 or 6; up to three matches and three scores, so that lines are begun at every field. Two bytes behind the limit are what the code needs of the 100 it has |
| `request_post_action` | PostActionAskedFor, violated | |
| `rules_exclusively` | ExclusivelyWithin, violated | the instance of `rules` |

The bounds are named constants: `MaxHops` (rewrites, error pages and re-runs of a
request, which nginx itself limits to ten), `MaxMatches`, `MaxWhitelists`,
`FailSteps` (the lookups of a whitelist search whose allocations may fail), `MaxRules`,
`MaxLines`, `MaxQuery`, `MaxTokens`, and the sets of requests, rules, items, whitelists,
bodies and reports.

**Fairness** is assumed in `request_two` and `json`. The worker is an event loop, so what
is enabled and not waiting is run: weak fairness of the handler, of the phases
after it, of the return from a redirect, and of content handlers, which are nginx's
or a proxy's and have timeouts of their own. A request that waits for its body gets
it or is ended by `client_body_timeout`: strong fairness of the two together,
because re-runs of the phases and other requests disable them again and again
(while the worker is busy). Clients need not send anything. The JSON parser is one call
without a wait: weak fairness of its next step.

**Deadlock** is checked for the request handler, whose only end is `Finished`. The other
modules model calls that return, and a configuration that is loaded once: their
configurations say `CHECK_DEADLOCK FALSE`.

Every property of a passing run has a *mutant* in `PROJECT.json`: a plausible bug
(a dropped guard, a swapped order, a missing reset) that breaks it.

## The proofs

All theorems hold for every value of the constants that the named assumptions allow:
any number of requests, locations, hops, tags, rules, CheckRules and matches; any
tree of blocks and any width of an address; JSON bodies of any length and any
limit of their depth; queries and multipart bodies of any length; log lines and buffers of
any size.

**NaxsiRequestProofs**, from `ConstantsAssumption` (the shapes of the constants;
`Requests` is finite and without `NoRequest`). None of the safety properties is
inductive alone. `IInv` is TypeOK, ReferencesExact, NoBypass, VerdictHonoured and,
for each request, `RequestInv`:

- `AwaitingBody`: a request with wait_for_body has its context attached, not over
  and not ready, is not internal, and is in "rewrite", "body" or freed; "body"
  implies wait_for_body. It says why `payload_handler` finds a context, and that
  its `r->count--` meets the reader's reference.
- `FirstRunAlone`: up to "later", outside redirects, no further run of the phases
  and no content handler exists, so the first run holds the only reference.
- `ContextKept`: until a redirect, an inspected request has its context attached,
  and an attached context that is neither over, waiting nor ready was disabled.
- `DenialKept`: a denied request was redirected or is freed; the resource's handler
  was started only for requests that are redirected, in "content" or freed.
- `HistoryFollows`: one inspection, at a known location, exactly when over; only an
  inspected request has block, and only one whose context was made is over.

There is one lemma per action (with one step per conjunct), `NextIInv` collects them,
and PTL closes `SpecIInv`. Then follow TypeCorrect, NeverBypassed, VerdictsHonoured,
CountsExact, AtMostOneInspection, BodyFindsContext, VerdictsFinal, ActionExported, CountersExact (a
second invariant on top of the first, with the cardinality of the set that grows by
one at an inspection) and `GateImplemented`: initial states map to initial
states, and each action to `Decide`, `Serve`, `Leave` or a stutter of `NaxsiGate`.

**NaxsiMatchesProofs**, from `CheckRulesAssumption` and `EffectsAssumption`. `IInv` is
TypeOK, `ctx.ignore => listed`, IgnoredNeverStopped, NeverOverblocks,
OrderIndependent and `ScoresFollow`: the entries of special_scores are among the
tags of applied rules, equal to the totals when no memory was lost, and below
them otherwise if scores only grow (ScoresKept is what the runs check of it). The heart is that a limit met by a partial
score is met by every later one (`Monotone`): so flags raised early are flags of
the totals. StickyFlags needs no monotonicity: only an ignored client's flags are
taken back.

**NaxsiInspectProofs**, from `InspectAssumption` and `CheckRulesAssumption` (requests of any
length, any rules, CheckRules and locations). A context *agrees* with the matches to be found so far
(`Agrees`) if it is the one they lead to (`Run`), or both are denied. Outside learning mode, and for a
client on no ignore list, every parser keeps the agreement, because

- one match keeps it: no match takes a flag back, so what is denied stays so (`DeniedStays`);
- a guard that skips something looks at block or drop (or follows the match of an internal rule,
  `InternalDenies`), and there both sides are denied whatever is skipped.

`Keeps` states these as closure properties of a relation, and a lemma for each operator, from one rule
(`RuleMoves`) to the five parsers, says that it *moves* within any relation that has them (`Moves`): the
typing of contexts comes out of the same lemmas, with the relation that holds always (`Pairs`). The loops
over headers, pieces, parts, values, rules and matches are recursive functions of the turn; `UpTo` is the
induction over the turns, from the well-foundedness of the subsets of a finite set (the library's induction
theorems cannot be used), and `LoopMoves` and `LoopRelates` apply it. `InspectInv` says that pc, the context and
what is before pc agree; AgreesThroughout proves it. At the end the agreement is about all `Findings`:
EarlyExitIsSound and PassHasSeenEverything follow. FailsClosed is a conjunct of the invariant: a copy that
fails drops, and nothing takes that back.

**NaxsiZoneProofs** proves about whitelists and about rules what both have from `naxsi_zone`.
About whitelists it assumes `StringsAssumption` and `WhitelistAssumption` (any number of whitelists with
match zones of any length, over any strings). A match zone that is read without refusal is `Accepted`: its
flags and locations say the same (`Coherent`, by induction over the keywords). `Built(T, W, n)` is the
invariant of the loop of create_hashtables: after n - 1 whitelists of W, disabled_rules and rxmz_wlr hold
theirs, and tmp_wlr has one entry for each key, which `StandsFor` the whitelists of that key: it looks like one
of them, has the ids of all, and holds no id none holds. TLC checked it on the instance of `whitelist` before it was proved.
`WhitelistInv` adds the types, that whitelists taken have one named location at most, and that the
answer is what the tables give. The three theorems then go by what a whitelist `Exempts` alone:

- what it names it exempts (`NamedIsExempt`: one of the keys asked for is its `fullname`, since it has
  a URI, a name or both, and no name is a URI), and what it exempts it names, where FILE_EXT and BODY
  are not taken for each other (`ExemptsWhatItNames`);
- what the tables exempt one of the whitelists does (`TablesExempt`), provided that those of one key differ
  in their ids only: clear ones do (`ClearAlike`), and so do those that do not compete (`ApartAlike`);
- if none compete, nothing is in the way of an entry and its ids lose nothing by the merge, so the tables exempt
  what each does (`TheTablesTo`, `HoldsAll`).

About rules it assumes `StringsAssumption` and `RulesAssumption`: any `tolower`, any set of lines and items, with
match zones, patterns and texts of any length; a line has a keyword and a pattern that is not empty, and
only a keyword with a target (`$URL`, `$ARGS_VAR`, ...) is a pattern, as `$URL_X` and its like are. The
CheckRules and the effects of rules are arbitrary: where the inspection stops does not matter to the argument,
which goes in four steps.

- *Search.* `strfaststr` and the loops of `process_basic_rule_buffer` are functions whose value at a
  place depends on later places; `BackwardExists` says that such functions exist, `DownFrom` is induction from the last
  place down. A search finds the first place (`StrFound`, `RxFirst`), so a string is counted at each of its
  places (`CountsPlaces`) and an expression at places that do not overlap and to which none can be added
  (`CountsCaptures`). The string must not begin in the text and end behind it: that is `Contained`, the
  negation of `Overruns`, and where it fails the code is wrong (`rules_exclusively`).
- *Zone.* A rule read from a match zone has the flag of each keyword and a location for each that is
  located, and no others (`ZoneHolds`). For a clear rule a location fits what its keyword names (`ClearFits`); if
  the rule is in the list of the item, it is at a named location or in the zone exactly if it asks to be
  (`NamedIsAsked`, `ZoneIsAsked`), and if it asks, it is in the list (`AskedIsListed`). Neither direction
  holds without the list: a rule on RAW_BODY, run as BODY, is kept from bodies of other kinds by its list alone.
- *Run.* `RulesInv`: each list holds the numbers of the lines whose flags put them there, in
  ascending order (`ListHolds`), and the matches of a line stand in one row, equal to what its run finds (`OneRun`), if
  its turn is over, else there are none (`NoRun`). The order of the lists is what makes this inductive: a line that
  was in a list twice would have two rows.
- *Invariants.* `ClearRun` says what a run finds in terms of what is asked, and `RanListed` that after the last
  turn every line of the list has run or the inspection stopped; the three invariants follow.

**NaxsiJsonProofs**, from `JsonAssumption`. `IInv` adds to the types that the depth
counter is the number of open calls as long as none has failed, that the limit holds, and that
rule 15 is applied once at most; TypeCorrect and DepthBounded follow. `Reading` says how what was inspected follows from what was
read: every value before the place of the parser was inspected (`ValuesSeen`), in order
(`InOrder`), under the last key (`UnderLastKey`), and each key was used, is in hand, or belongs
to an array that began with empty arrays (`KeysServed`). Its conjuncts speak of the tokens read, of
which there are ever more: the lemmas on `Append` say that what was true of a token remains so.

OnlyJsonAccepted compares the parser with the grammar. The parser is never sure of the body, only of what
it read, so the invariant `Judged` speaks of every body that may yet be the whole one (`Whole`): it is
JSON exactly if its rest, from the place of the parser on, is what the waiting calls expect (`Right`), and
if rule 15 was applied it is not. What they expect is `Expects`: a value, a name, a colon, and behind
it that the open containers are closed, from the inside out (`Onward`, by a chain of the places where each
goes on). The invariant needs no unique derivation, and a body that is refused early is
refused whatever comes. The steps have a lemma each (`RightScalar`, `RightContainer`, ...), which rests on
one about the text (`ReadScalar`, `ReadContainer`, `ReadOpened`, `ReadOn`, ...). `Spot` carries the places of
the body to those of the text without white space, and `ListsRead` unrolls a list by one element. That the
recursive functions of the grammar exist is `LoopExists` (a value depends on the one before) and
`BackwardExists` (on later ones).

**NaxsiConfProofs**, from `WidthsAssumption` and `ConfAssumption`. `SubnetIsPrefix` needs no
induction: the bits of a mask are an interval. The tree of blocks is any parent function from
which http is reached, and `Around` (the blocks around a block) the least set closed under it; induction
over the tree is an argument about the complement of a closed set (`Inwards`), and
`NearestValue` says that taking a value from the parent when there is none is the value of the
nearest block that has one. `IInv` then has three parts: types, `Phases` (which blocks are pushed,
merged and built in which status) and `Inherited` (a merged block has the values of the nearest one
that declares any).

**NaxsiLogProofs**, from `LogAssumption`. `IInv` is TypeOK, WithinBuffer, that a line is
empty exactly when nothing was written of it, and `Right(Segments, done)`: the segments (the lines
logged and the one in the buffer) hold exactly the fields done but those too wide, in order, whole or cut as stated,
and each segment but the first begins with the id, in the style `BegunAs` has for its first field. What one call does to them is its `Outcome`
(the segments are `Extended` by at most one entry, at the end, and the bytes written stay inside),
shown for each kind of field; `ExtendedRight` then carries `Right` on.
The loop that halves a value is a `CHOOSE` of the largest number among its halves, and the one of
`naxsi_escape_json_string` of the most bytes that fit; lemma `Largest`, by the well-foundedness of the
subset order on finite sets, says that both exist.

**NaxsiItemsProofs**, from `ItemsAssumption`. TypeOK is inductive as it stands: what a step looks for
(`Find`, `LineEnd`, `DataEnd`) is at its place or behind it and within the text, or is not there
(`FirstKnown` says that the first of some places exists), and a header that is accepted ends in a
blank line that is in the text. LoopsEnd follows: each turn moves on, so both loops end on every text.

Utf8Checked and Unescaped say of any text what TLC finds for short ones: `utf8_check` and
`naxsi_unescape` give what their references do. Each is a recursion from the front, whose value at a place is the
state of a loop, against one from the back, which `DownFrom` relates from the last place down. For UTF-8,
the tests of the code on each byte are those on the scalar value, length by length (`OneByte` to
`FourBytes`); for the escapes, one piece brings the state machine back to its first state (`PieceRest`), or
the end of the text cuts it (`CutRest`).

The theorems on queries rest on `QueryRead`: what was inspected and counted so far, with what the pieces from
the place of the loop on still give, is all that the query gives (`Reading`; `Left` is what is left). An
empty piece is counted (`EmptyReads`), another is split at the first `=` as the reference splits it
(`SplitIs`) and counted or inspected (`PieceReads`); at the end nothing is left (`EndReads`). The code counts
a query that ends with `&` once in advance (`LastAmp`), as the reference does with the empty piece there.

MultipartInspectedHolds compares the multipart loop with the grammar of bodies (`Readings`), for every body
and boundary, in three layers:

- *A header line.* The parser goes over the words of a line and keeps one name, one file and
  whether a `;` is pending; the grammar asks that no name and no file be given twice and that there be a
  parameter between any two `;`. What it knows at a word is what is true of the words so far (`Said`,
  `Pending`), as long as they are in order (`GoodWords`), by induction along the line.
- *A part.* The code's header is the one of the grammar (`HeaderIs` with `HeaderOf`), the search
  of the end of the data finds the first boundary (`DataEndIs` with `Bound`), and the parser closes the body
  where the grammar does (`EndingsAre` with `EndsAt`: a closing boundary, with two bytes behind it at
  most). The grammar leaves some choice, and these lemmas are why it has one reading at most.
- *The whole.* `MultipartRead`: what the body may be read as is what was inspected so far, followed by what
  may be read from the place of the loop on (`AfterItems`); between the header and the data, by the part whose
  data are next (`DataRead`). A body that passes thus has one reading, what was inspected; one that is refused
  has none.

**Only model-checked**: EveryRequestFreed and ParseEnds, as liveness is beyond the prover; the
hash tables of nginx, modelled by what they do; and the violated properties.

## Where the code and its documentation differ

Two have a run whose counterexample shows it; `PROJECT.json` quotes the lines.

1. `request_post_action`: a learning-mode request that asks for a post action
   writes it into the shared configuration (`naxsi_runtime.c:1181`), and later
   requests that did not ask run it too.
2. `rules_exclusively`: a string is compared beyond the end of the text
   (`naxsi_utils.c:60`), where a decoded escape has left its tail, a JSON value its
   quote, a multipart part its boundary: a rule matches what is not in the text.

The models show these as well (the operator named is what to look at):

- A rule of ARGS or HEADERS looks at names too (`naxsi_runtime.c:1799`; docs/matchzones.md:43, 78
  and 126 have only values, a test expects names), and one of a named variable and NAME at the value
  too (`naxsi_runtime.c:1709`; docs/matchzones.md:152 has "name instead of value"): `in_locations`, `in_zone`.
- A whitelist of FILE_EXT exempts every value of a body (`naxsi_config.c:286`,
  `naxsi_runtime.c:822`), where docs/matchzones.md:162 has the filename (`is_whitelist_adapted`, `disabled`).
- A text value whose half, escaped, is a line or more is not logged (`naxsi_log.c:56`), where the
  comment below and docs/logs.md:56 have it shortened (`text_string`); a number in a JSON line may
  lose its last digit (`naxsi_log.c:252`), and a new line that it begins is a text line (`json_number`).
- `$naxsi_attack_action` looks at block and not at drop (`naxsi_skeleton.c:2050`): a request
  that was dropped reads `$PASS` (`attack_action`).
- An upper limit (`CheckRule "$X < 99"`, docs/directives.md:44) is decided by
  the first match, on a partial score (`naxsi_runtime.c:2650`; `CheckFlags`).
- The guard of the header loop tests block twice (`naxsi_runtime.c:2510`): in learning mode,
  a header that blocks hides one that drops (`header`).
- Internal rules 17 and 18 block (`naxsi_runtime.c:41`) where docs/internal_rules.md:119 says
  they only score (`internals`). docs/directives.md:107 has internal rules drop; only 19 to 21 do.
- Whitelists with patterns are not tied to their zone, and those of `$HEADERS_VAR_X` to no name
  (`naxsi_runtime.c:527`, docs/matchzones.md:65; `match_zone_rx`).
- `mz:RAW_BODY` alone disables a rule everywhere, and `$URL:/a|RAW_BODY` is refused:
  docs/matchzones.md:175 and 218 have it equivalent to BODY and fit for `$URL`.
- `$URL:/a|ANY` also exempts an argument named `/a` elsewhere, and `$ARGS_VAR:/a`
  any argument of the URI `/a`, though `naxsi_utils.c:819` means to prevent it.
- Of two whitelists that differ in the case of a name only the first applies: they
  are merged by `strcmp` and looked up in lower case.
- An ANY and a BODY entry under one key: the first hides the second.
- `$URL:/a|ARGS|BODY` applies to BODY only; `$URL:/a|BODY` also to file names.
- docs/old/runtime-modifiers.md:108-112 has a JSON log that is too long go on in an empty
  second entry, as JSON "cannot be connected"; the code goes on with the fields, under the id.
- The JSON parser returns silently when its state cannot be allocated
  (`naxsi_json.c:296`), the one failure PassSeesEverything excludes.
- An IPv6 CIDR `/64` shifts by the width of a word (`naxsi_net.c:116`), which is undefined:
  IgnoredAsListed says nothing of blocks that list one.
- The comment at `naxsi_skeleton.c:507` doubts that configurations should be merged at all;
  they are, and `RulesInForce` says how.

`Clear`, `FilesApart`, `Compete`, `HalfMask`, `NamedVariable`, `TooWide`, `MayBeCut` and the names
in `OnlyWhatIsListed` set those aside that would falsify a property. More of the kind is under each module above.

## Plan

Done: every part with control of its own, in the order of the table of parts; the safety properties of
the request handler, of scoring, of the inspection engine, of rule matching, of the whitelists, of the
configuration and of the log, those of the JSON parser, those of queries and their decoding, those of
multipart bodies, and that the query and multipart loops end, are proved.

Left, in order of importance:

1. Composition of `NaxsiInspect` and `NaxsiMatches` with failing memory: a failed
   match is taken for a whitelisted one by the callers (`naxsi_runtime.c:1249`).
2. In `NaxsiRequest`, a body whose reading fails after NGX_AGAIN with a status of its own and
   is answered by an error page (`naxsi_skeleton.c:1607`): what nginx then does with the
   references, which is not in this repository.

## What is not modelled

PCRE and libinjection: their results are inputs. The text of log lines and debug messages,
and the exported variables that copy or format what the models have. The scanning of
configuration lines into words, scores and ids, and of addresses (`inet_pton`). Windows
replacements, build files, packaging, scripts and the rules shipped as data. A score that
passes 2^63, a text of 2^30 bytes.
