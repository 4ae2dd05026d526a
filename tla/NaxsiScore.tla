----------------------------- MODULE NaxsiScore -----------------------------
(***************************************************************************)
(* How the match of a rule changes the context of a request: scores, flags *)
(* and the location's CheckRules (ngx_http_apply_rulematch_v_n and         *)
(* ngx_http_naxsi_update_current_ctx_status).                              *)
(*                                                                         *)
(* Pure operators: NaxsiMatches applies them to any sequence of matches,   *)
(* NaxsiInspect to the matches of a request in the order of the parsers.   *)
(* A rule's plain score (ctx->score) is left out: nothing reads it.        *)
(***************************************************************************)
EXTENDS Integers

CONSTANTS
  Tags,        \* the names of special scores ($SQL, $XSS, ...)
  CheckRules   \* the CheckRules of the location

Flags == {"block", "drop", "allow", "log"}

Comparison == {"SUP", "SUP_OR_EQUAL", "INF", "INF_OR_EQUAL"}

CheckRule ==
  [sc_tag : Tags, cmp : Comparison, sc_score : Int, flags : SUBSET Flags]

\* Scores by tag: the tags present are the domain.
IsScores(s) == DOMAIN s \subseteq Tags /\ s \in [DOMAIN s -> Int]

\* What a rule does when it matches: a record of its scores and its flags.
IsEffect(e) == IsScores(e.sscores) /\ e.flags \subseteq Flags

\* What the allocator grants a match: the entry of ctx->matched, and the
\* tags for which ctx->special_scores can take a new entry.
Memory == [entry : BOOLEAN, tags : SUBSET Tags]
EnoughMemory == [entry |-> TRUE, tags |-> Tags]

ASSUME CheckRulesAssumption == CheckRules \subseteq CheckRule

\* The fields of ngx_http_request_ctx_t that an inspection works on.
IsContext(c) ==
  /\ c \in [flags : SUBSET Flags, ignore : BOOLEAN, learning : BOOLEAN,
            special_scores : {c.special_scores}, matched : Nat]
  /\ IsScores(c.special_scores)

NewContext(learning) ==
  [flags |-> {}, ignore |-> FALSE, learning |-> learning,
   special_scores |-> [t \in {} |-> 0], matched |-> 0]

\* Inspection goes on: not blocked, or learning; and not dropped.
Going(c) == ("block" \notin c.flags \/ c.learning) /\ "drop" \notin c.flags

\* The request will not reach the resource.
Denied(c) == "drop" \in c.flags \/ ("block" \in c.flags /\ ~c.learning)
-----------------------------------------------------------------------------
\* Mutant of Met: SUP_OR_EQUAL is taken for SUP.
Met_strict(cr, score) ==
  \/ cr.cmp \in {"SUP", "SUP_OR_EQUAL"} /\ score > cr.sc_score
  \/ cr.cmp = "INF" /\ score < cr.sc_score
  \/ cr.cmp = "INF_OR_EQUAL" /\ score <= cr.sc_score

\* Does a CheckRule's comparison hold of a score?
Met(cr, score) ==
  \/ cr.cmp = "SUP" /\ score > cr.sc_score
  \/ cr.cmp = "SUP_OR_EQUAL" /\ score >= cr.sc_score
  \/ cr.cmp = "INF" /\ score < cr.sc_score
  \/ cr.cmp = "INF_OR_EQUAL" /\ score <= cr.sc_score

\* Mutant of CheckFlags: the tags are not compared.
CheckFlags_untagged(scores) ==
  {f \in Flags : \E cr \in CheckRules :
     /\ f \in cr.flags
     /\ \E t \in DOMAIN scores : Met(cr, scores[t])}

\* The flags of the CheckRules met by the scores: only a tag that is present
\* is compared.
CheckFlags(scores) ==
  {f \in Flags : \E cr \in CheckRules :
     /\ f \in cr.flags
     /\ cr.sc_tag \in DOMAIN scores /\ Met(cr, scores[cr.sc_tag])}

\* Mutant of Spared: the client is not spared what was set before.
Spared_later(flags, ignored) == flags

\* The flags that are left to a client IgnoreIP or IgnoreCIDR lists.
Spared(flags, ignored) == IF ignored THEN flags \ {"block", "drop"} ELSE flags

\* Mutant of update_current_ctx_status: the flags are computed afresh.
update_current_ctx_status_afresh(c, listed) ==
  [c EXCEPT !.ignore = @ \/ listed,
            !.flags = Spared(CheckFlags(c.special_scores), c.ignore \/ listed)]

\* ngx_http_naxsi_update_current_ctx_status; listed: the location's ignore
\* lists hold the client's address.
update_current_ctx_status(c, listed) ==
  [c EXCEPT !.ignore = @ \/ listed,
            !.flags = Spared(@ \cup CheckFlags(c.special_scores),
                             c.ignore \/ listed)]

\* Mutant of Added: the first score of a tag is not multiplied.
Added_first_once(scores, sscores, nb, new) ==
  [t \in DOMAIN scores \cup (DOMAIN sscores \cap new) |->
     (IF t \in DOMAIN scores THEN scores[t] ELSE 0)
     + (IF t \notin DOMAIN sscores THEN 0
        ELSE IF t \in DOMAIN scores THEN sscores[t] * nb ELSE sscores[t])]

\* The scores after nb matches of a rule; new: the tags that can be added.
Added(scores, sscores, nb, new) ==
  [t \in DOMAIN scores \cup (DOMAIN sscores \cap new) |->
     (IF t \in DOMAIN scores THEN scores[t] ELSE 0)
     + (IF t \in DOMAIN sscores THEN sscores[t] * nb ELSE 0)]

\* A match that libinjection or a negated regular expression makes counts
\* for one.
Times(nb_match) == IF nb_match = 0 THEN 1 ELSE nb_match

\* ngx_http_apply_rulematch_v_n for a rule that is not whitelisted.
apply_rulematch(c, effect, nb_match, memory, listed) ==
  IF ~memory.entry THEN c
  ELSE update_current_ctx_status(
         [c EXCEPT !.matched = @ + 1,
                   !.special_scores =
                      Added(@, effect.sscores, Times(nb_match), memory.tags),
                   !.flags = @ \cup effect.flags],
         listed)

\* Mutant of error_fatal: the request is blocked, not dropped.
error_fatal_block(c) == [c EXCEPT !.flags = @ \cup {"block"}]

\* naxsi_error_fatal.
error_fatal(c) == [c EXCEPT !.flags = @ \cup {"block", "drop"}]
=============================================================================
