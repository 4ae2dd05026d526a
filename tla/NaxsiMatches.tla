---------------------------- MODULE NaxsiMatches ----------------------------
(***************************************************************************)
(* The context of one request under any sequence of rule matches, internal *)
(* errors and failed allocations, until data_parse brings it up to date a  *)
(* last time and the handler reads the verdict.                            *)
(***************************************************************************)
EXTENDS NaxsiScore

CONSTANTS
  Effects,    \* what the rules that may match do
  NbMatches,  \* how often a rule may match one string
  Memories,   \* what the allocator may grant
  MaxMatches  \* bound: matches and errors in one request

ASSUME EffectsAssumption ==
  /\ \A e \in Effects : IsEffect(e)
  /\ NbMatches \subseteq Nat
  /\ Memories \subseteq Memory
  /\ MaxMatches \in Nat

VARIABLES
  ctx,      \* the context
  listed,   \* the client is on the location's ignore lists
  over,     \* the inspection has ended
  steps,    \* matches and errors so far
  applied,  \* history: the effects of the rules that have matched
  totals,   \* history: what they add up to, by tag
  fatal,    \* history: an internal error was met
  lost      \* history: an allocation failed

vars == <<ctx, listed, over, steps, applied, totals, fatal, lost>>

TypeOK ==
  /\ IsContext(ctx)
  /\ listed \in BOOLEAN
  /\ over \in BOOLEAN
  /\ steps \in 0 .. MaxMatches
  /\ applied \subseteq Effects
  /\ totals \in [Tags -> Int]
  /\ fatal \in BOOLEAN
  /\ lost \in BOOLEAN

Init ==
  /\ \E learning \in BOOLEAN : ctx = NewContext(learning)
  /\ listed \in BOOLEAN
  /\ over = FALSE
  /\ steps = 0
  /\ applied = {}
  /\ totals = [t \in Tags |-> 0]
  /\ fatal = FALSE
  /\ lost = FALSE

\* A tag of the effect gets no entry in ctx->special_scores.
TagLost(effect, memory) ==
  \E t \in DOMAIN effect.sscores :
    t \notin DOMAIN ctx.special_scores /\ t \notin memory.tags

\* A rule matches.
Match(effect, nb_match, memory) ==
  /\ ~over /\ steps < MaxMatches
  /\ ctx' = apply_rulematch(ctx, effect, nb_match, memory, listed)
  /\ steps' = steps + 1
  /\ applied' = applied \cup {effect}
  /\ totals' = [t \in Tags |->
                  IF t \in DOMAIN effect.sscores
                  THEN totals[t] + effect.sscores[t] * Times(nb_match)
                  ELSE totals[t]]
  /\ lost' = (lost \/ ~memory.entry \/ TagLost(effect, memory))
  /\ UNCHANGED <<listed, over, fatal>>

\* The parser meets an internal error.
Error ==
  /\ ~over /\ steps < MaxMatches
  /\ ctx' = error_fatal(ctx)
  /\ steps' = steps + 1
  /\ fatal' = TRUE
  /\ UNCHANGED <<listed, over, applied, totals, lost>>

\* The end of data_parse.
End ==
  /\ ~over
  /\ ctx' = update_current_ctx_status(ctx, listed)
  /\ over' = TRUE
  /\ UNCHANGED <<listed, steps, applied, totals, fatal, lost>>

Next ==
  \/ \E effect \in Effects, nb_match \in NbMatches, memory \in Memories :
       Match(effect, nb_match, memory)
  \/ Error
  \/ End

Spec == Init /\ [][Next]_vars
-----------------------------------------------------------------------------
(***************************************************************************)
(* The verdict as a user reads the rules: the flags of the rules that      *)
(* matched, and of the CheckRules the totals reach, in whatever order.     *)
(***************************************************************************)
Reached(cr) ==
  /\ \E e \in applied : cr.sc_tag \in DOMAIN e.sscores
  /\ LET total == totals[cr.sc_tag]
     IN \/ total = cr.sc_score /\ cr.cmp \in {"SUP_OR_EQUAL", "INF_OR_EQUAL"}
        \/ total > cr.sc_score /\ cr.cmp \in {"SUP", "SUP_OR_EQUAL"}
        \/ total < cr.sc_score /\ cr.cmp \in {"INF", "INF_OR_EQUAL"}

Expected ==
  {f \in Flags :
     \/ fatal /\ f \in {"block", "drop"}
     \/ \E e \in applied : f \in e.flags
     \/ \E cr \in CheckRules : Reached(cr) /\ f \in cr.flags}

\* A rule that matched scores the tag.
Tagged(t) == \E e \in applied : t \in DOMAIN e.sscores

\* The scores have only grown, and CheckRules set lower limits.
Monotone ==
  /\ \A e \in applied : \A t \in DOMAIN e.sscores : e.sscores[t] >= 0
  /\ \A cr \in CheckRules : cr.cmp \in {"SUP", "SUP_OR_EQUAL"}

\* What the CheckRules compare: a tag has a score only if a rule that matched
\* scores it; if no allocation failed, every such tag has one, and it is what
\* the matches add up to; a failed one loses scores, if they only grow, and
\* never adds any (apply_rulematch sets the first score of a tag and adds the
\* later ones in two places, and each of its allocations may fail).
ScoresAddUp ==
  /\ \A t \in DOMAIN ctx.special_scores : Tagged(t)
  /\ ~lost => \A t \in Tags :
       Tagged(t) => /\ t \in DOMAIN ctx.special_scores
                    /\ ctx.special_scores[t] = totals[t]
  /\ Monotone => \A t \in DOMAIN ctx.special_scores :
                   ctx.special_scores[t] <= totals[t]

\* Flags raised one match at a time, on partial scores, are the flags of the
\* totals, whatever the order of the matches and wherever inspection stops
\* (apply_rulematch updates the context after each match).
OrderIndependent ==
  Monotone /\ ~listed /\ ~lost => ctx.flags = Expected

\* Lost allocations cost matches, they never add a flag: a request is not
\* stopped for what it does not hold.
NeverOverblocks == Monotone => ctx.flags \subseteq Expected

\* A client on IgnoreIP or IgnoreCIDR lists is never stopped, whatever
\* matched and whichever error came last; others are not treated like it.
IgnoredNeverStopped ==
  over => /\ listed => ctx.flags \cap {"block", "drop"} = {}
          /\ ctx.ignore = listed

\* No match takes back what an earlier one has raised, negative scores and
\* upper limits included, unless the client is ignored.
FlagsSticky == [][~listed => ctx.flags \subseteq ctx'.flags]_vars
=============================================================================
