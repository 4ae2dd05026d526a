---------------------------- MODULE NaxsiRequest ----------------------------
(***************************************************************************)
(* The life of HTTP requests in one nginx worker, as the naxsi module sees *)
(* it: the REWRITE-phase handler (ngx_http_naxsi_access_handler), the body *)
(* callback (ngx_http_naxsi_payload_handler), the verdict's consequences   *)
(* (ngx_http_output_forbidden_page) and the nginx steps that surround them *)
(* (phase engine, event loop, internal redirects, reference counting).     *)
(*                                                                         *)
(* The worker is a single-threaded event loop: it runs the phases of one   *)
(* request (worker = q) until they return to the loop (worker =            *)
(* NoRequest).  Requests interleave only where a request waits: for its    *)
(* body, or for its content handler.  They share the location's            *)
(* configuration, which naxsi writes to: two counters and the core         *)
(* module's post_action.                                                   *)
(*                                                                         *)
(* What the rules say of a request is left open here: an inspection ends   *)
(* with any values of the flags block and drop (NaxsiInspect says which).  *)
(***************************************************************************)
EXTENDS Naturals, FiniteSets

CONSTANTS
  Requests,        \* the requests of one behaviour, each used once
  NoRequest,       \* worker = NoRequest: the event loop is idle
  Locations,       \* the locations of the nginx configuration
  NoLocation,
  enabled,         \* SecRulesEnabled, per location
  force_disabled,  \* SecRulesDisabled, per location
  learning,        \* LearningMode, per location
  denied_url,      \* the location DeniedUrl leads to, per location
  EnableFlags, LearningFlags, PostActionFlags,
                   \* the values the variables naxsi_flag_* may have
  MaxHops          \* bound: rewrites, error pages and re-runs per request

\* A variable naxsi_flag_* of the request: unset, or "0" or "1".
Flag == {"unset", "0", "1"}

ASSUME ConstantsAssumption ==
  /\ NoRequest \notin Requests
  /\ IsFiniteSet(Requests)
  /\ NoLocation \notin Locations
  /\ enabled \in [Locations -> BOOLEAN]
  /\ force_disabled \in [Locations -> BOOLEAN]
  /\ learning \in [Locations -> BOOLEAN]
  /\ denied_url \in [Locations -> Locations]
  /\ EnableFlags \cup LearningFlags \cup PostActionFlags \subseteq Flag
  /\ MaxHops \in Nat

VARIABLES
  worker,           \* the request whose phases are running, or NoRequest
  pc,               \* where the request is in nginx
  loc,              \* its location (r->loc_conf)
  has_body,         \* its method is PATCH, POST or PUT
  enable_flag,      \* the variable naxsi_flag_enable, for this request
  internal,         \* r->internal
  attached,         \* r->ctx[naxsi] # NULL
  created,          \* a pool cleanup still leads to the context
  ctx,              \* the context (ngx_http_request_ctx_t)
  count,            \* r->count
  outer,            \* phase runs suspended under an internal redirect
  active,           \* content handlers running for the request
  in_post_action,   \* r->post_action
  hops,             \* rewrites, error pages and re-runs so far
  request_processed, request_blocked, \* the location's counters
  post_action,      \* the location's core post_action, as naxsi leaves it
  inspections,      \* history: number of inspections of the request
  inspected_at,     \* history: the location of the last one
  at_origin,        \* history: content ran for it outside a redirect
  denied            \* history: naxsi redirected it to DeniedUrl

inputVars   == <<has_body, enable_flag>>
ctxVars     == <<attached, created, ctx>>
sharedVars  == <<request_processed, request_blocked, post_action>>
historyVars == <<inspections, inspected_at, at_origin, denied>>
vars        == <<worker, pc, loc, inputVars, internal, count, outer, active,
                 in_post_action, hops, ctxVars, sharedVars, historyVars>>

(***************************************************************************)
(* Types                                                                   *)
(***************************************************************************)
Context ==
  [over : BOOLEAN, wait_for_body : BOOLEAN, ready : BOOLEAN,
   enabled : BOOLEAN, learning : BOOLEAN, post_action : BOOLEAN,
   block : BOOLEAN, drop : BOOLEAN]

ZeroContext ==
  [over |-> FALSE, wait_for_body |-> FALSE, ready |-> FALSE,
   enabled |-> FALSE, learning |-> FALSE, post_action |-> FALSE,
   block |-> FALSE, drop |-> FALSE]

\* "new": not arrived; "rewrite": naxsi's handler is next; "later": naxsi
\* declined, the phases after it are next; "body": suspended until the body
\* is read; "content": the phases have run; "freed": the request is gone.
Places == {"new", "rewrite", "later", "body", "content", "freed"}

TypeOK ==
  /\ worker \in Requests \cup {NoRequest}
  /\ pc \in [Requests -> Places]
  /\ loc \in [Requests -> Locations]
  /\ has_body \in [Requests -> BOOLEAN]
  /\ enable_flag \in [Requests -> EnableFlags]
  /\ internal \in [Requests -> BOOLEAN]
  /\ attached \in [Requests -> BOOLEAN]
  /\ created \in [Requests -> BOOLEAN]
  /\ ctx \in [Requests -> Context]
  /\ count \in [Requests -> Nat]
  /\ outer \in [Requests -> Nat]
  /\ active \in [Requests -> Nat]
  /\ in_post_action \in [Requests -> BOOLEAN]
  /\ hops \in [Requests -> 0 .. MaxHops]
  /\ request_processed \in [Locations -> Nat]
  /\ request_blocked \in [Locations -> Nat]
  /\ post_action \in [Locations -> BOOLEAN]
  /\ inspections \in [Requests -> Nat]
  /\ inspected_at \in [Requests -> Locations \cup {NoLocation}]
  /\ at_origin \in [Requests -> BOOLEAN]
  /\ denied \in [Requests -> BOOLEAN]

Init ==
  /\ worker = NoRequest
  /\ pc = [q \in Requests |-> "new"]
  /\ loc \in [Requests -> Locations]
  /\ has_body \in [Requests -> BOOLEAN]
  /\ enable_flag \in [Requests -> EnableFlags]
  /\ internal = [q \in Requests |-> FALSE]
  /\ attached = [q \in Requests |-> FALSE]
  /\ created = [q \in Requests |-> FALSE]
  /\ ctx = [q \in Requests |-> ZeroContext]
  /\ count = [q \in Requests |-> 0]
  /\ outer = [q \in Requests |-> 0]
  /\ active = [q \in Requests |-> 0]
  /\ in_post_action = [q \in Requests |-> FALSE]
  /\ hops = [q \in Requests |-> 0]
  /\ request_processed = [l \in Locations |-> 0]
  /\ request_blocked = [l \in Locations |-> 0]
  /\ post_action = [l \in Locations |-> FALSE]
  /\ inspections = [q \in Requests |-> 0]
  /\ inspected_at = [q \in Requests |-> NoLocation]
  /\ at_origin = [q \in Requests |-> FALSE]
  /\ denied = [q \in Requests |-> FALSE]
-----------------------------------------------------------------------------
(***************************************************************************)
(* What nginx does around the module (external code).                      *)
(***************************************************************************)

\* The event loop reads a request's headers and runs its phases.
Arrive(q) ==
  /\ worker = NoRequest /\ pc[q] = "new"
  /\ worker' = q
  /\ pc' = [pc EXCEPT ![q] = "rewrite"]
  /\ count' = [count EXCEPT ![q] = 1]
  /\ UNCHANGED <<loc, inputVars, internal, outer, active, in_post_action, hops,
                 ctxVars, sharedVars, historyVars>>

\* The post action of the location is due when a request is finalized there.
PostActionDue(q) == post_action[loc[q]] /\ ~in_post_action[q]

\* ngx_http_finalize_request for one reference to the request: run the
\* location's post action as an internal redirect, or drop the reference and
\* free the request with the last one.  a: is naxsi's context attached now?
Finalize(q, a) ==
  IF PostActionDue(q)
  THEN /\ in_post_action' = [in_post_action EXCEPT ![q] = TRUE]
       /\ internal' = [internal EXCEPT ![q] = TRUE]
       /\ attached' = [attached EXCEPT ![q] = FALSE]
       /\ loc' = [loc EXCEPT ![q] = denied_url[loc[q]]]
       /\ pc' = [pc EXCEPT ![q] = "rewrite"]
       /\ worker' = q
       /\ UNCHANGED count
  ELSE /\ count' = [count EXCEPT ![q] = @ - 1]
       /\ pc' = [pc EXCEPT ![q] = IF count[q] = 1 THEN "freed" ELSE "content"]
       /\ worker' = IF outer'[q] > 0 THEN q ELSE NoRequest
       /\ attached' = [attached EXCEPT ![q] = a]
       /\ UNCHANGED <<in_post_action, internal, loc>>

\* ngx_http_internal_redirect: module contexts are zeroed, the phases run
\* again, inside the caller, on one more reference.
InternalRedirect(q) ==
  /\ internal' = [internal EXCEPT ![q] = TRUE]
  /\ attached' = [attached EXCEPT ![q] = FALSE]
  /\ loc' = [loc EXCEPT ![q] = denied_url[loc[q]]]
  /\ pc' = [pc EXCEPT ![q] = "rewrite"]
  /\ count' = [count EXCEPT ![q] = @ + 1]
  /\ outer' = [outer EXCEPT ![q] = @ + 1]
  /\ UNCHANGED <<worker, in_post_action>>

\* rewrite ... last, in the rewrite module, which runs after naxsi: the new
\* URI selects a location and the REWRITE phase starts again.
RewriteUri(q) ==
  /\ worker = q /\ pc[q] = "later" /\ hops[q] < MaxHops
  /\ \E l \in Locations : loc' = [loc EXCEPT ![q] = l]
  /\ pc' = [pc EXCEPT ![q] = "rewrite"]
  /\ hops' = [hops EXCEPT ![q] = @ + 1]
  /\ UNCHANGED <<worker, inputVars, internal, count, outer, active,
                 in_post_action, ctxVars, sharedVars, historyVars>>

\* An internal redirect of nginx's own (error_page, index, try_files).
NginxRedirect(q) ==
  /\ worker = q /\ pc[q] = "later" /\ hops[q] < MaxHops
  /\ \E l \in Locations : loc' = [loc EXCEPT ![q] = l]
  /\ pc' = [pc EXCEPT ![q] = "rewrite"]
  /\ internal' = [internal EXCEPT ![q] = TRUE]
  /\ attached' = [attached EXCEPT ![q] = FALSE]
  /\ hops' = [hops EXCEPT ![q] = @ + 1]
  /\ UNCHANGED <<worker, inputVars, count, outer, active, in_post_action,
                 created, ctx, sharedVars, historyVars>>

\* The content handler starts; the phase run returns to its caller, which is
\* output_forbidden_page when the run is the one of its redirect.
StartContent(q) ==
  /\ worker = q /\ pc[q] = "later"
  /\ pc' = [pc EXCEPT ![q] = "content"]
  /\ active' = [active EXCEPT ![q] = @ + 1]
  /\ worker' = IF outer[q] > 0 THEN q ELSE NoRequest
  /\ at_origin' = [at_origin EXCEPT ![q] = @ \/ ~internal[q]]
  /\ UNCHANGED <<loc, inputVars, internal, count, outer, in_post_action, hops,
                 ctxVars, sharedVars, inspections, inspected_at, denied>>

\* A content handler has sent its answer.
ContentDone(q) ==
  /\ worker \in {q, NoRequest} /\ pc[q] = "content" /\ active[q] > 0
  /\ active' = [active EXCEPT ![q] = @ - 1]
  /\ UNCHANGED outer
  /\ Finalize(q, attached[q])
  /\ UNCHANGED <<inputVars, hops, created, ctx, sharedVars, historyVars>>

\* output_forbidden_page returned NGX_HTTP_OK: the rewrite phase's checker
\* finalizes the request once more, below the redirect it has made.
FinishOuter(q) ==
  /\ worker = q /\ pc[q] = "content" /\ outer[q] > 0
  /\ outer' = [outer EXCEPT ![q] = @ - 1]
  /\ Finalize(q, attached[q])
  /\ UNCHANGED <<inputVars, active, hops, created, ctx, sharedVars, historyVars>>

\* The client closes, or client_body_timeout expires, before the body is
\* complete: nginx terminates the request whatever its references.
BodyAborted(q) ==
  /\ worker = NoRequest /\ pc[q] = "body"
  /\ pc' = [pc EXCEPT ![q] = "freed"]
  /\ count' = [count EXCEPT ![q] = 0]
  /\ UNCHANGED <<worker, loc, inputVars, internal, outer, active,
                 in_post_action, hops, ctxVars, sharedVars, historyVars>>

\* The phases are run again while the body is awaited ("we're called again").
PhasesRerun(q) ==
  /\ worker = NoRequest /\ pc[q] = "body" /\ hops[q] < MaxHops
  /\ worker' = q
  /\ pc' = [pc EXCEPT ![q] = "rewrite"]
  /\ hops' = [hops EXCEPT ![q] = @ + 1]
  /\ UNCHANGED <<loc, inputVars, internal, count, outer, active,
                 in_post_action, ctxVars, sharedVars, historyVars>>
-----------------------------------------------------------------------------
(***************************************************************************)
(* How naxsi's handler leaves a request: NGX_DECLINED lets the phases go   *)
(* on, NGX_ERROR and error statuses make nginx finalize the request.       *)
(***************************************************************************)
Declined(q) ==
  /\ pc' = [pc EXCEPT ![q] = "later"]
  /\ attached' = [attached EXCEPT ![q] = TRUE]
  /\ UNCHANGED <<worker, loc, internal, count, outer, in_post_action>>

Failed(q) ==
  /\ UNCHANGED outer
  /\ Finalize(q, TRUE)

\* Mutant of KeptInLearning: the test of drop is forgotten.
KeptInLearning_drop_too(v) == v.learning

\* LearningMode keeps the request from being stopped, unless it is dropped.
KeptInLearning(v) == v.learning /\ ~v.drop

\* ngx_http_output_forbidden_page for a request with block or drop set.
output_forbidden_page(q, v) ==
  \/ \* an allocation fails (the log line, a header)
     /\ Failed(q)
     /\ UNCHANGED <<post_action, denied>>
  \/ /\ KeptInLearning(v) /\ ~v.post_action
     /\ Declined(q)
     /\ UNCHANGED <<post_action, denied>>
  \/ /\ KeptInLearning(v) /\ v.post_action
     /\ Declined(q)
     /\ post_action' = [post_action EXCEPT ![loc[q]] = TRUE]
     /\ UNCHANGED denied
  \/ /\ ~KeptInLearning(v)
     /\ InternalRedirect(q)
     /\ denied' = [denied EXCEPT ![q] = TRUE]
     /\ UNCHANGED post_action

\* Mutant of Stopped: dropped requests are forgotten.
Stopped_block_only(v) == v.block

\* The request is stopped here, and counted as blocked.
Stopped(v) == v.block \/ v.drop

\* The end of the handler, for a ready context c: data_parse gives the flags,
\* the location counts, and the request passes or meets its verdict.  (With
\* only the flag log set, output_forbidden_page just writes the log line.)
Inspect(q, c) ==
  \E block, drop \in BOOLEAN :
    LET v == [c EXCEPT !.over = TRUE, !.block = block, !.drop = drop]
    IN /\ ctx' = [ctx EXCEPT ![q] = v]
       /\ created' = [created EXCEPT ![q] = TRUE]
       /\ request_processed' = [request_processed EXCEPT ![loc[q]] = @ + 1]
       /\ request_blocked' =
            [request_blocked EXCEPT ![loc[q]] = IF Stopped(v) THEN @ + 1 ELSE @]
       /\ inspections' = [inspections EXCEPT ![q] = @ + 1]
       /\ inspected_at' = [inspected_at EXCEPT ![q] = loc[q]]
       /\ \/ Stopped(v) /\ output_forbidden_page(q, v)
          \/ ~Stopped(v) /\ Declined(q) /\ UNCHANGED <<post_action, denied>>
       /\ UNCHANGED <<inputVars, active, hops, at_origin>>
-----------------------------------------------------------------------------
(***************************************************************************)
(* ngx_http_naxsi_access_handler                                           *)
(***************************************************************************)
AtHandler(q) == worker = q /\ pc[q] = "rewrite"

\* Mutant of Waiting: the test of wait_for_body is missing.
Waiting_never(q) == FALSE

\* The body is still awaited.
Waiting(q) == attached[q] /\ ~ctx[q].over /\ ctx[q].wait_for_body

\* Mutant of RunsHere: internal requests are processed too.
RunsHere_internal_too(q) ==
  enabled[loc[q]] /\ (force_disabled[loc[q]] => enable_flag[q] = "1")

\* The tests that precede the context: is the module to run here?
RunsHere(q) ==
  /\ enabled[loc[q]]
  /\ force_disabled[loc[q]] => enable_flag[q] = "1"
  /\ ~internal[q]

\* A flag present at run time overrides the location's directive.
Override(flag, default) == IF flag = "unset" THEN default ELSE flag = "1"

\* Inspected already, not to be inspected here, or inspection was switched
\* off when the context was made: NGX_DECLINED, nothing changes.
Skip(q) ==
  /\ AtHandler(q) /\ ~Waiting(q)
  /\ \/ attached[q] /\ ctx[q].over
     \/ ~RunsHere(q)
     \/ attached[q] /\ ~ctx[q].ready
  /\ pc' = [pc EXCEPT ![q] = "later"]
  /\ UNCHANGED <<worker, loc, inputVars, internal, count, outer, active,
                 in_post_action, hops, ctxVars, sharedVars, historyVars>>

\* Called again before the body is there: NGX_DONE.
StillWaiting(q) ==
  /\ AtHandler(q) /\ Waiting(q)
  /\ worker' = NoRequest
  /\ pc' = [pc EXCEPT ![q] = "body"]
  /\ UNCHANGED <<loc, inputVars, internal, count, outer, active,
                 in_post_action, hops, ctxVars, sharedVars, historyVars>>

\* Mutant of SetContext: the context is only kept in the pool.
SetContext_pool_only(q) == UNCHANGED attached /\ created' = [created EXCEPT ![q] = TRUE]

\* The context is put in r->ctx, and in the pool's list of cleanups.
SetContext(q) ==
  /\ attached' = [attached EXCEPT ![q] = TRUE]
  /\ created' = [created EXCEPT ![q] = TRUE]

\* ngx_http_read_client_request_body returned NGX_AGAIN: one more reference
\* for the body reader, and control returns to the event loop.
AwaitBody(q, c) ==
  /\ ctx' = [ctx EXCEPT ![q] = [c EXCEPT !.wait_for_body = TRUE]]
  /\ SetContext(q)
  /\ count' = [count EXCEPT ![q] = @ + 1]
  /\ worker' = NoRequest
  /\ pc' = [pc EXCEPT ![q] = "body"]
  /\ UNCHANGED <<loc, inputVars, internal, outer, active, in_post_action, hops,
                 sharedVars, historyVars>>

\* Reading the body fails at once: the handler returns the error status.
BodyError(q, c) ==
  /\ Failed(q)
  /\ ctx' = [ctx EXCEPT ![q] = c]
  /\ created' = [created EXCEPT ![q] = TRUE]
  /\ UNCHANGED <<inputVars, active, hops, sharedVars, historyVars>>

\* Inspection is switched off for this request: NGX_DECLINED.
SwitchedOff(q, c) ==
  /\ Declined(q)
  /\ ctx' = [ctx EXCEPT ![q] = c]
  /\ created' = [created EXCEPT ![q] = TRUE]
  /\ UNCHANGED <<inputVars, active, hops, sharedVars, historyVars>>

\* The first call for the request: make the context, read the flags, get the
\* body (it may be there already: payload_handler then runs in the call and
\* takes back the reader's reference) and inspect.
Open(q) ==
  /\ AtHandler(q) /\ ~attached[q] /\ RunsHere(q)
  /\ \E learning_flag \in LearningFlags, post_action_flag \in PostActionFlags :
       LET c == [ZeroContext EXCEPT
                   !.enabled = Override(enable_flag[q], enabled[loc[q]]),
                   !.learning = Override(learning_flag, learning[loc[q]]),
                   !.post_action = Override(post_action_flag, FALSE)]
       IN \/ ~c.enabled /\ SwitchedOff(q, c)
          \/ c.enabled /\ Inspect(q, [c EXCEPT !.ready = TRUE])
          \/ c.enabled /\ has_body[q] /\ AwaitBody(q, c)
          \/ c.enabled /\ has_body[q] /\ BodyError(q, c)

\* The context, or its cleanup, cannot be allocated: NGX_ERROR.
OutOfMemory(q) ==
  /\ AtHandler(q) /\ ~attached[q] /\ RunsHere(q)
  /\ UNCHANGED outer
  /\ Finalize(q, FALSE)
  /\ UNCHANGED <<inputVars, active, hops, created, ctx, sharedVars, historyVars>>

\* Mutant of Due: the test of over is missing.
Due_again(q) == ctx[q].ready

\* Ready, and not inspected yet.
Due(q) == ctx[q].ready /\ ~ctx[q].over

\* The call made by payload_handler's ngx_http_core_run_phases.
Resume(q) ==
  /\ AtHandler(q) /\ attached[q] /\ RunsHere(q)
  /\ Due(q)
  /\ Inspect(q, ctx[q])

access_handler(q) ==
  Skip(q) \/ StillWaiting(q) \/ Open(q) \/ OutOfMemory(q) \/ Resume(q)

\* Mutants of ReleaseReader: the reference is kept, or dropped twice.
ReleaseReader_never(q) == UNCHANGED count
ReleaseReader_twice(q) == count' = [count EXCEPT ![q] = @ - 2]

\* The body reader's reference is given back.
ReleaseReader(q) == count' = [count EXCEPT ![q] = @ - 1]

\* ngx_http_naxsi_payload_handler, when the awaited body is complete.
payload_handler(q) ==
  /\ worker = NoRequest /\ pc[q] = "body"
  /\ ctx' = [ctx EXCEPT ![q].ready = TRUE, ![q].wait_for_body = FALSE]
  /\ ReleaseReader(q)
  /\ worker' = q
  /\ pc' = [pc EXCEPT ![q] = "rewrite"]
  /\ UNCHANGED <<loc, inputVars, internal, outer, active, in_post_action, hops,
                 attached, created, sharedVars, historyVars>>
-----------------------------------------------------------------------------
(***************************************************************************)
(* The variable $naxsi_attack_action: r->ctx is zeroed by an internal      *)
(* redirect, the context is then found through the pool's cleanups.        *)
(***************************************************************************)

\* Mutant of recover_request_ctx: only r->ctx is looked at.
recover_request_ctx_attached(q) == attached[q]

recover_request_ctx(q) == attached[q] \/ (internal[q] /\ created[q])

attack_action(q) ==
  IF ~recover_request_ctx(q) THEN "not_found"
  ELSE IF ctx[q].learning
       THEN IF ctx[q].block THEN "$LEARNING-BLOCK" ELSE "$LEARNING-PASS"
       ELSE IF ctx[q].block THEN "$BLOCK" ELSE "$PASS"
-----------------------------------------------------------------------------
Nginx(q) ==
  \/ Arrive(q) \/ RewriteUri(q) \/ NginxRedirect(q) \/ StartContent(q)
  \/ ContentDone(q) \/ FinishOuter(q) \/ BodyAborted(q) \/ PhasesRerun(q)

Naxsi(q) == access_handler(q) \/ payload_handler(q)

Finished == worker = NoRequest /\ \A q \in Requests : pc[q] = "freed"

Next == \/ \E q \in Requests : Nginx(q) \/ Naxsi(q)
        \/ Finished /\ UNCHANGED vars

Spec == Init /\ [][Next]_vars

(***************************************************************************)
(* The worker runs on until the phases return, an awaited body arrives or  *)
(* client_body_timeout ends the request, and content handlers answer.      *)
(* Clients need not send requests.                                         *)
(***************************************************************************)
Fairness ==
  \A q \in Requests :
    /\ WF_vars(access_handler(q))
    /\ WF_vars(RewriteUri(q) \/ NginxRedirect(q) \/ StartContent(q))
    /\ WF_vars(ContentDone(q))
    /\ WF_vars(FinishOuter(q))
    /\ SF_vars(payload_handler(q) \/ BodyAborted(q))

FairSpec == Spec /\ Fairness
-----------------------------------------------------------------------------
(***************************************************************************)
(* Properties                                                              *)
(***************************************************************************)

\* The verdict v is to keep the client from the resource.
Denies(v) == v.drop \/ (v.block /\ ~v.learning)

\* A request is inspected at most once, however its phases are run again:
\* rewrites, awaited bodies, error pages, DeniedUrl and post actions (the
\* over flag, and "don't process internal requests", naxsi_skeleton.c:1341).
InspectedOnce == \A q \in Requests : inspections[q] <= 1

\* No bypass: when the handler lets a request go on to the later phases of a
\* location naxsi guards, the request has been inspected and its verdict
\* lets it pass, or its flag has switched inspection off.
NoBypass ==
  \A q \in Requests :
    pc[q] = "later" /\ RunsHere(q) =>
      /\ attached[q]
      /\ (ctx[q].over /\ ~Denies(ctx[q])) \/ ~ctx[q].enabled

\* The verdict is honoured both ways: a request whose verdict denies it never
\* reaches a content handler but through a redirect, and only such requests
\* are sent to DeniedUrl (not the learning-mode ones without drop).
VerdictHonoured ==
  \A q \in Requests :
    /\ at_origin[q] => ~(ctx[q].over /\ Denies(ctx[q]))
    /\ denied[q] => ctx[q].over /\ Denies(ctx[q])

\* The counters naxsi exports tell what happened: each location has counted
\* every request inspected there once, and as blocked those stopped there.
CountersAgree ==
  \A l \in Locations :
    LET here == {q \in Requests : inspected_at[q] = l}
    IN /\ request_processed[l] = Cardinality(here)
       /\ request_blocked[l] =
            Cardinality({q \in here : ctx[q].block \/ ctx[q].drop})

\* The references held on a request: its phase run or the suspension of it,
\* the body reader, the phase run below a redirect, and content handlers.
References(q) ==
  (IF pc[q] \in {"rewrite", "later", "body"} THEN 1 ELSE 0)
  + (IF pc[q] # "freed" /\ ctx[q].wait_for_body THEN 1 ELSE 0)
  + outer[q] + active[q]

\* r->count is exact: with payload_handler's count-- and the return of
\* NGX_HTTP_OK after the redirect, a request is freed neither before its last
\* user is done (the count never runs ahead) nor never (it never lags).
ReferencesExact == \A q \in Requests : count[q] = References(q)

\* payload_handler uses the context without testing it: it is always there.
BodyHasContext == \A q \in Requests : pc[q] = "body" => attached[q]

\* A verdict is final: no later step of any request changes the context of an
\* inspected one.
VerdictFinal ==
  [][\A q \in Requests : ctx[q].over => ctx'[q] = ctx[q]]_vars

\* Every request that arrives is answered and freed, also when its body is
\* late, when it is denied, and when post actions run.
EveryRequestFreed ==
  \A q \in Requests : (pc[q] = "rewrite") ~> (pc[q] = "freed")

\* docs/old/runtime-modifiers.md:6: naxsi_flag_post_action set to "0" disables
\* the post action in learning mode; it is off by default (line 66).  So a
\* post action runs only for requests that asked for one.
PostActionAskedFor ==
  \A q \in Requests : in_post_action[q] => ctx[q].post_action

\* naxsi_skeleton.c:2048: $naxsi_attack_action tells whether a request is
\* "pass or block".  However often an inspected request is redirected, and
\* r->ctx with it lost, the variable is found; a request refused for its score
\* reads $BLOCK, on the denied page too, and no other request does.
ActionIsExported ==
  \A q \in Requests : pc[q] # "freed" =>
    /\ ctx[q].over => attack_action(q) # "not_found"
    /\ denied[q] /\ ~ctx[q].drop => attack_action(q) = "$BLOCK"
    /\ attack_action(q) = "$BLOCK" => ctx[q].over /\ Denies(ctx[q])

(***************************************************************************)
(* The gate that a client sees.                                            *)
(***************************************************************************)
Decision(c) == IF ~c.over THEN "none" ELSE IF Denies(c) THEN "deny" ELSE "pass"

Gate == INSTANCE NaxsiGate WITH
  decision <- [q \in Requests |-> Decision(ctx[q])],
  origin   <- at_origin,
  refused  <- denied,
  gone     <- [q \in Requests |-> pc[q] = "freed"]

\* The handlers, with their callbacks and redirects, implement the gate.
ImplementsGate == Gate!Spec
=============================================================================
