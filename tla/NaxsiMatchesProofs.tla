------------------------- MODULE NaxsiMatchesProofs -------------------------
(***************************************************************************)
(* Proofs about NaxsiMatches, for any tags, CheckRules, rules, allocation  *)
(* failures and number of matches.                                         *)
(***************************************************************************)
EXTENDS NaxsiMatches, TLAPS

\* The scores of the context against the totals: without losses they agree,
\* with losses, where scores only grow, they lag.
ScoresFollow ==
  /\ DOMAIN ctx.special_scores \subseteq {t \in Tags : Tagged(t)}
  /\ \A t \in Tags : ~Tagged(t) => totals[t] = 0
  /\ ~lost => /\ {t \in Tags : Tagged(t)} \subseteq DOMAIN ctx.special_scores
              /\ \A t \in DOMAIN ctx.special_scores :
                   ctx.special_scores[t] = totals[t]
  /\ Monotone => /\ \A t \in Tags : totals[t] >= 0
                 /\ \A t \in DOMAIN ctx.special_scores :
                      ctx.special_scores[t] <= totals[t]

\* The inductive invariant: the safety properties, and the relation of
\* scores and totals they rest on.
IInv ==
  /\ TypeOK
  /\ ctx.ignore => listed
  /\ IgnoredNeverStopped
  /\ ScoresFollow
  /\ NeverOverblocks
  /\ OrderIndependent
-----------------------------------------------------------------------------
(***************************************************************************)
(* The operators of NaxsiScore                                             *)
(***************************************************************************)

\* What a match adds to the scores: the tags it brings where there is room,
\* each value increased by the rule's score times the matches.
LEMMA AddedScores ==
  ASSUME NEW scores, IsScores(scores), NEW sscores, IsScores(sscores),
         NEW nb \in Nat, NEW new \in SUBSET Tags
  PROVE  LET s == Added(scores, sscores, nb, new)
         IN /\ IsScores(s)
            /\ DOMAIN s = DOMAIN scores \cup (DOMAIN sscores \cap new)
            /\ \A t \in DOMAIN s :
                 s[t] = (IF t \in DOMAIN scores THEN scores[t] ELSE 0)
                        + (IF t \in DOMAIN sscores THEN sscores[t] * nb ELSE 0)
  <1>1. \A t \in DOMAIN sscores : sscores[t] * nb \in Int
    BY DEF IsScores
  <1>2. QED
    BY <1>1 DEF Added, IsScores

\* The flags of rules and CheckRules are flags of the context.
LEMMA FlagsKnown ==
  /\ {"block", "drop"} \subseteq Flags
  /\ \A e \in Effects : e.flags \subseteq Flags
  /\ \A k \in CheckRules : k.flags \subseteq Flags
  BY EffectsAssumption, CheckRulesAssumption DEF Flags, IsEffect, CheckRule

\* A match counts at least once.
LEMMA TimesPositive == \A nb \in Nat : Times(nb) \in Nat /\ Times(nb) >= 1
  BY DEF Times

\* The product of two nonnegative integers is one.
LEMMA ProductNonneg ==
  ASSUME NEW a \in Int, NEW b \in Nat, a >= 0
  PROVE  a * b \in Int /\ a * b >= 0
  OBVIOUS

\* Bringing the context up to date changes its flags and its ignore field,
\* and keeps its type.
LEMMA UpdateType ==
  ASSUME NEW c, IsContext(c), NEW l \in BOOLEAN
  PROVE  LET d == update_current_ctx_status(c, l)
         IN /\ IsContext(d)
            /\ d.special_scores = c.special_scores
            /\ d.ignore <=> (c.ignore \/ l)
            /\ d.flags = Spared(c.flags \cup CheckFlags(c.special_scores),
                                c.ignore \/ l)
  <1>1. CheckFlags(c.special_scores) \subseteq Flags
    BY CheckRulesAssumption DEF CheckFlags, CheckRule
  <1>2. Spared(c.flags \cup CheckFlags(c.special_scores), c.ignore \/ l)
          \subseteq Flags
    BY <1>1 DEF Spared, IsContext
  <1>3. QED
    BY <1>2 DEF update_current_ctx_status, IsContext

\* The context after a match that gets its entry.
LEMMA MatchContext ==
  ASSUME IsContext(ctx), NEW e, IsEffect(e), NEW nb \in Nat,
         NEW m \in Memory, m.entry, NEW l \in BOOLEAN
  PROVE  LET d == apply_rulematch(ctx, e, nb, m, l)
             s == Added(ctx.special_scores, e.sscores, Times(nb), m.tags)
         IN /\ IsContext(d)
            /\ d.special_scores = s
            /\ d.ignore <=> (ctx.ignore \/ l)
            /\ d.flags = Spared(ctx.flags \cup e.flags \cup CheckFlags(s),
                                ctx.ignore \/ l)
  <1> DEFINE s == Added(ctx.special_scores, e.sscores, Times(nb), m.tags)
  <1> DEFINE c == [ctx EXCEPT !.matched = @ + 1, !.special_scores = s,
                              !.flags = @ \cup e.flags]
  <1>1. IsScores(s)
    BY AddedScores, TimesPositive DEF IsContext, IsEffect, Memory
  <1>2. ctx \in [flags : SUBSET Flags, ignore : BOOLEAN, learning : BOOLEAN,
                special_scores : {ctx.special_scores}, matched : Nat]
    BY DEF IsContext
  <1> HIDE DEF s
  <1>3. ctx.flags \cup e.flags \in SUBSET Flags /\ ctx.matched + 1 \in Nat
    BY <1>2 DEF IsEffect
  <1>4. /\ c \in [flags : SUBSET Flags, ignore : BOOLEAN, learning : BOOLEAN,
                special_scores : {s}, matched : Nat]
        /\ c.special_scores = s
        /\ c.ignore = ctx.ignore
        /\ c.flags = ctx.flags \cup e.flags
    BY <1>2, <1>3
  <1>5. IsContext(c)
    BY <1>1, <1>4 DEF IsContext
  <1>6. apply_rulematch(ctx, e, nb, m, l) = update_current_ctx_status(c, l)
    BY DEF apply_rulematch, s
  <1> HIDE DEF c
  <1> DEFINE d == update_current_ctx_status(c, l)
  <1>7. /\ IsContext(d)
        /\ d.special_scores = c.special_scores
        /\ d.ignore <=> (c.ignore \/ l)
        /\ d.flags = Spared(c.flags \cup CheckFlags(c.special_scores),
                           c.ignore \/ l)
    BY <1>5, UpdateType
  <1> HIDE DEF d
  <1>8. /\ d.special_scores = s
        /\ d.ignore <=> (ctx.ignore \/ l)
        /\ d.flags = Spared(ctx.flags \cup e.flags \cup CheckFlags(s),
                           ctx.ignore \/ l)
    BY <1>4, <1>7
  <1>9. QED
    BY <1>6, <1>7, <1>8 DEF s, d
-----------------------------------------------------------------------------
(***************************************************************************)
(* Initially                                                               *)
(***************************************************************************)

\* The inductive invariant holds initially: no score, no flag.
LEMMA InitIInv == Init => IInv
  <1> SUFFICES ASSUME Init PROVE IInv
    OBVIOUS
  <1> PICK learning \in BOOLEAN : ctx = NewContext(learning)
    BY DEF Init
  <1>1. TypeOK
    <2>1. IsContext(ctx)
      BY DEF NewContext, IsContext, IsScores
    <2>2. steps \in 0 .. MaxMatches /\ totals \in [Tags -> Int]
      BY EffectsAssumption DEF Init
    <2>3. QED
      BY <2>1, <2>2 DEF Init, TypeOK
  <1>2. ctx.flags = {} /\ ~ctx.ignore /\ DOMAIN ctx.special_scores = {}
    BY DEF NewContext
  <1>3. applied = {} /\ ~fatal /\ ~over /\ totals = [t \in Tags |-> 0]
    BY DEF Init
  <1>4. ScoresFollow
    BY <1>2, <1>3 DEF ScoresFollow, Tagged
  <1>5. Expected = {}
    BY <1>3 DEF Expected, Reached
  <1>6. QED
    BY <1>1, <1>2, <1>3, <1>4, <1>5
    DEF IInv, IgnoredNeverStopped, NeverOverblocks, OrderIndependent
-----------------------------------------------------------------------------
(***************************************************************************)
(* A match                                                                 *)
(***************************************************************************)

\* A match keeps the types.
LEMMA MatchTypeOK ==
  ASSUME IInv, NEW e \in Effects, NEW nb \in NbMatches, NEW m \in Memories,
         Match(e, nb, m)
  PROVE  /\ TypeOK'
         /\ ~m.entry => ctx' = ctx
         /\ m.entry =>
              LET s == Added(ctx.special_scores, e.sscores, Times(nb), m.tags)
              IN /\ ctx'.special_scores = s
                 /\ ctx'.ignore <=> (ctx.ignore \/ listed)
                 /\ ctx'.flags = Spared(ctx.flags \cup e.flags \cup CheckFlags(s),
                                        ctx.ignore \/ listed)
  <1>1. IsEffect(e) /\ nb \in Nat /\ m \in Memory
    BY EffectsAssumption
  <1>2. IsContext(ctx) /\ listed \in BOOLEAN
    BY DEF IInv, TypeOK
  <1>3. ~m.entry => ctx' = ctx
    BY DEF Match, apply_rulematch
  <1>4. m.entry =>
          LET s == Added(ctx.special_scores, e.sscores, Times(nb), m.tags)
          IN /\ IsContext(ctx')
             /\ ctx'.special_scores = s
             /\ ctx'.ignore <=> (ctx.ignore \/ listed)
             /\ ctx'.flags = Spared(ctx.flags \cup e.flags \cup CheckFlags(s),
                                    ctx.ignore \/ listed)
    BY <1>1, <1>2, MatchContext DEF Match
  <1>5. IsContext(ctx')
    BY <1>1, <1>2, <1>3, <1>4 DEF Memory
  <1>6. totals' \in [Tags -> Int]
    <2>1. \A t \in DOMAIN e.sscores : e.sscores[t] * Times(nb) \in Int
      BY <1>1, TimesPositive DEF IsEffect, IsScores
    <2>2. QED
      BY <2>1 DEF IInv, TypeOK, Match
  <1>7. lost' \in BOOLEAN
    BY <1>1 DEF IInv, TypeOK, Match, Memory, TagLost
  <1>8. steps' \in 0 .. MaxMatches
    BY EffectsAssumption DEF IInv, TypeOK, Match
  <1>9. IsContext(ctx)'
    BY <1>5 DEF IsContext
  <1>10. QED
    BY <1>3, <1>4, <1>6, <1>7, <1>8, <1>9 DEF IInv, TypeOK, Match

\* A match keeps the scores with the totals: what is lost is lost from the
\* scores only, and noted.
LEMMA MatchScores ==
  ASSUME IInv, NEW e \in Effects, NEW nb \in NbMatches, NEW m \in Memories,
         Match(e, nb, m)
  PROVE  ScoresFollow'
  <1> DEFINE w == Times(nb)
  <1>1. /\ IsEffect(e) /\ m \in Memory /\ w \in Nat
        /\ IsScores(ctx.special_scores) /\ totals \in [Tags -> Int]
    BY EffectsAssumption, TimesPositive DEF IInv, TypeOK, IsContext
  <1>2. \A t \in DOMAIN e.sscores : t \in Tags /\ e.sscores[t] * w \in Int
    BY <1>1 DEF IsEffect, IsScores
  <1>3. Monotone' => /\ Monotone
                     /\ \A t \in DOMAIN e.sscores : e.sscores[t] * w >= 0
    BY <1>1, ProductNonneg DEF Monotone, IsEffect, IsScores, Match
  <1>4. \A t \in Tags : Tagged(t)' <=> Tagged(t) \/ t \in DOMAIN e.sscores
    BY DEF Tagged, Match
  <1>5. \A t \in Tags :
          totals'[t] = IF t \in DOMAIN e.sscores
                       THEN totals[t] + e.sscores[t] * w ELSE totals[t]
    BY DEF Match
  <1> HIDE DEF w
  <1>6. /\ \A t \in Tags : ~Tagged(t)' => totals'[t] = 0
        /\ Monotone' => \A t \in Tags : totals'[t] >= totals[t] /\ totals'[t] >= 0
    BY <1>1, <1>2, <1>3, <1>4, <1>5 DEF IInv, ScoresFollow
  <1>7. CASE ~m.entry
    <2>1. ctx' = ctx /\ lost'
      BY <1>7, MatchTypeOK DEF Match
    <2>2. DOMAIN ctx.special_scores \subseteq Tags
      BY <1>1 DEF IsScores
    <2>3. Monotone' => \A t \in DOMAIN ctx.special_scores :
                         ctx.special_scores[t] <= totals'[t]
      <3>1. ASSUME Monotone', NEW t \in DOMAIN ctx.special_scores
            PROVE  ctx.special_scores[t] <= totals'[t]
        <4>1. t \in Tags /\ ctx.special_scores[t] \in Int
          BY <1>1, <2>2 DEF IsScores
        <4>2. ctx.special_scores[t] <= totals[t] /\ totals'[t] >= totals[t]
          BY <1>3, <1>6, <3>1, <4>1 DEF IInv, ScoresFollow
        <4>3. totals[t] \in Int /\ totals'[t] \in Int
          BY <1>1, <4>1, MatchTypeOK DEF TypeOK
        <4>4. QED
          BY <4>1, <4>2, <4>3
      <3>2. QED
        BY <3>1
    <2>4. QED
      BY <1>4, <1>6, <2>1, <2>3 DEF IInv, ScoresFollow
  <1>8. CASE m.entry
    <2> DEFINE s == ctx'.special_scores
    <2>1. /\ DOMAIN s = DOMAIN ctx.special_scores
                        \cup (DOMAIN e.sscores \cap m.tags)
          /\ \A t \in DOMAIN s :
               s[t] = (IF t \in DOMAIN ctx.special_scores
                       THEN ctx.special_scores[t] ELSE 0)
                      + (IF t \in DOMAIN e.sscores
                         THEN e.sscores[t] * w ELSE 0)
      <3>1. s = Added(ctx.special_scores, e.sscores, w, m.tags)
        BY <1>8, MatchTypeOK DEF w
      <3>2. m.tags \in SUBSET Tags /\ IsScores(e.sscores)
        BY <1>1 DEF IsEffect, Memory
      <3> DEFINE a == Added(ctx.special_scores, e.sscores, w, m.tags)
      <3>3. /\ DOMAIN a = DOMAIN ctx.special_scores
                          \cup (DOMAIN e.sscores \cap m.tags)
            /\ \A t \in DOMAIN a :
                 a[t] = (IF t \in DOMAIN ctx.special_scores
                         THEN ctx.special_scores[t] ELSE 0)
                        + (IF t \in DOMAIN e.sscores
                           THEN e.sscores[t] * w ELSE 0)
        BY <1>1, <3>2 DEF Added, IsScores
      <3> HIDE DEF a, s
      <3>4. s = a
        BY <3>1 DEF a
      <3>5. QED
        BY <3>3, <3>4
    <2>2. lost' <=> lost \/ TagLost(e, m)
      BY <1>8 DEF Match
    <2> HIDE DEF s
    <2>3. DOMAIN s \subseteq {t \in Tags : Tagged(t)'}
      BY <1>1, <1>2, <1>4, <2>1 DEF IInv, ScoresFollow
    <2>4. ASSUME ~lost'
          PROVE  /\ {t \in Tags : Tagged(t)'} \subseteq DOMAIN s
                 /\ \A t \in DOMAIN s : s[t] = totals'[t]
      <3>1. ~lost /\ DOMAIN e.sscores \subseteq DOMAIN s
        BY <2>1, <2>2, <2>4 DEF TagLost
      <3>2. {t \in Tags : Tagged(t)'} \subseteq DOMAIN s
        BY <1>4, <2>1, <3>1 DEF IInv, ScoresFollow
      <3>3. ASSUME NEW t \in DOMAIN s PROVE s[t] = totals'[t]
        <4>1. t \in Tags
          BY <2>3
        <4>2. t \in DOMAIN ctx.special_scores =>
                ctx.special_scores[t] = totals[t]
          BY <3>1 DEF IInv, ScoresFollow
        <4>3. t \notin DOMAIN ctx.special_scores => totals[t] = 0
          BY <3>1, <4>1 DEF IInv, ScoresFollow
        <4>4. QED
          BY <1>1, <1>2, <1>5, <2>1, <4>1, <4>2, <4>3
      <3>4. QED
        BY <3>2, <3>3
    <2>5. ASSUME Monotone', NEW t \in DOMAIN s PROVE s[t] <= totals'[t]
      <3>1. t \in Tags /\ totals[t] >= 0
        BY <1>3, <2>3, <2>5 DEF IInv, ScoresFollow
      <3>2. t \in DOMAIN ctx.special_scores =>
              /\ ctx.special_scores[t] \in Int
              /\ ctx.special_scores[t] <= totals[t]
        BY <1>1, <1>3, <2>5 DEF IInv, ScoresFollow, IsScores
      <3>3. QED
        BY <1>1, <1>2, <1>3, <1>5, <2>1, <2>5, <3>1, <3>2
    <2>6. QED
      BY <1>6, <2>3, <2>4, <2>5 DEF ScoresFollow, s
  <1>9. QED
    BY <1>7, <1>8

\* With scores that only grow, a CheckRule once reached stays reached.
LEMMA MatchReached ==
  ASSUME IInv, NEW e \in Effects, NEW nb \in NbMatches, NEW m \in Memories,
         Match(e, nb, m), Monotone'
  PROVE  Expected \cup e.flags \subseteq Expected'
  <1>1. \A t \in Tags : totals[t] \in Int /\ totals'[t] \in Int
    BY MatchTypeOK DEF IInv, TypeOK
  <1>2. \A t \in Tags : totals'[t] >= totals[t]
    <2>1. IsEffect(e) /\ Times(nb) \in Nat
      BY EffectsAssumption, TimesPositive
    <2>2. \A t \in DOMAIN e.sscores : /\ t \in Tags
                                      /\ e.sscores[t] * Times(nb) \in Int
                                      /\ e.sscores[t] * Times(nb) >= 0
      BY <2>1, ProductNonneg DEF Monotone, IsEffect, IsScores, Match
    <2>3. QED
      BY <1>1, <2>2 DEF Match
  <1>3. ASSUME NEW k \in CheckRules, Reached(k) PROVE Reached(k)'
    <2>1. /\ k.sc_tag \in Tags /\ k.sc_score \in Int
          /\ k.cmp \in {"SUP", "SUP_OR_EQUAL"}
      BY CheckRulesAssumption DEF CheckRule, Monotone
    <2>2. (\E d \in applied : k.sc_tag \in DOMAIN d.sscores)'
      BY <1>3 DEF Reached, Match
    <2>3. QED
      BY <1>1, <1>2, <1>3, <2>1, <2>2 DEF Reached
  <1>4. QED
    BY <1>3, FlagsKnown DEF Expected, Match

\* Where scores only grow, the flags after a match are expected ones, and
\* all of them when nothing was lost and the client is not ignored.
LEMMA MatchFlags ==
  ASSUME IInv, NEW e \in Effects, NEW nb \in NbMatches, NEW m \in Memories,
         Match(e, nb, m), Monotone'
  PROVE  /\ ctx'.flags \subseteq Expected'
         /\ ~listed /\ ~lost' => ctx'.flags = Expected'
  <1>0. Monotone
    BY DEF Monotone, Match
  <1>1. /\ ScoresFollow' /\ IsContext(ctx') /\ ctx.flags \subseteq Expected
        /\ totals' \in [Tags -> Int]
    BY <1>0, MatchScores, MatchTypeOK
    DEF IInv, NeverOverblocks, TypeOK, IsContext
  <1>2. Expected \cup e.flags \subseteq Expected'
    BY MatchReached
  <1>3. CASE ~m.entry
    BY <1>1, <1>2, <1>3, MatchTypeOK DEF Match
  <1>4. CASE m.entry
    <2> DEFINE s == ctx'.special_scores
    <2>1. ctx'.flags = Spared(ctx.flags \cup e.flags \cup CheckFlags(s),
                              ctx.ignore \/ listed)
      BY <1>4, MatchTypeOK
    <2>2. ASSUME NEW k \in CheckRules, k.sc_tag \in DOMAIN s,
                 Met(k, s[k.sc_tag])
          PROVE  Reached(k)'
      <3>1. /\ k.sc_tag \in Tags /\ k.sc_score \in Int
            /\ k.cmp \in {"SUP", "SUP_OR_EQUAL"}
        BY CheckRulesAssumption DEF CheckRule, Monotone
      <3>2. Tagged(k.sc_tag)'
        BY <1>1, <2>2, <3>1 DEF ScoresFollow
      <3>3. s[k.sc_tag] \in Int /\ s[k.sc_tag] <= totals'[k.sc_tag]
        BY <1>1, <2>2, <3>1 DEF ScoresFollow, IsContext, IsScores, Monotone
      <3>4. totals'[k.sc_tag] \in Int
        BY <1>1, <3>1
      <3> HIDE DEF s
      <3>5. QED
        BY <2>2, <3>1, <3>2, <3>3, <3>4 DEF Met, Reached, Tagged
    <2>3. CheckFlags(s) \subseteq Expected'
      <3> SUFFICES ASSUME NEW f \in CheckFlags(s) PROVE f \in Expected'
        OBVIOUS
      <3>1. PICK k \in CheckRules : /\ k.sc_tag \in DOMAIN s
                                   /\ Met(k, s[k.sc_tag])
                                   /\ f \in k.flags /\ f \in Flags
        BY DEF CheckFlags
      <3>2. Reached(k)'
        BY <2>2, <3>1
      <3>3. QED
        BY <3>1, <3>2 DEF Expected
    <2>4. ctx'.flags \subseteq Expected'
      BY <1>1, <1>2, <2>1, <2>3 DEF Spared
    <2>5. ASSUME ~listed, ~lost' PROVE Expected' \subseteq ctx'.flags
      <3>1. ~lost /\ ~ctx.ignore
        BY <2>5 DEF IInv, Match
      <3>2. ctx'.flags = ctx.flags \cup e.flags \cup CheckFlags(s)
        BY <2>1, <2>5, <3>1 DEF Spared
      <3>3. ASSUME NEW k \in CheckRules, Reached(k)'
            PROVE  k.flags \subseteq CheckFlags(s)
        <4>1. k.sc_tag \in Tags /\ k.sc_score \in Int /\ k.cmp \in Comparison
          BY CheckRulesAssumption DEF CheckRule
        <4>2. k.sc_tag \in DOMAIN s
          BY <1>1, <2>5, <3>3, <4>1 DEF ScoresFollow, Reached, Tagged
        <4>3. s[k.sc_tag] = totals'[k.sc_tag] /\ totals'[k.sc_tag] \in Int
          BY <1>1, <2>5, <4>1, <4>2 DEF ScoresFollow
        <4> HIDE DEF s
        <4>4. Met(k, s[k.sc_tag])
          BY <3>3, <4>1, <4>3 DEF Met, Reached, Comparison
        <4>5. QED
          BY <4>2, <4>4, FlagsKnown DEF CheckFlags
      <3>4. Expected \subseteq ctx.flags
        BY <1>0, <2>5, <3>1 DEF IInv, OrderIndependent
      <3>5. applied' = applied \cup {e} /\ fatal' = fatal
        BY DEF Match
      <3>6. \A d \in applied' : d.flags \subseteq ctx'.flags
        BY <3>2, <3>4, <3>5, FlagsKnown DEF Expected, IInv, TypeOK
      <3>7. fatal' => {"block", "drop"} \subseteq ctx'.flags
        BY <3>2, <3>4, <3>5, FlagsKnown DEF Expected
      <3>8. CheckFlags(s) \subseteq ctx'.flags
        BY <3>2
      <3>9. \A k \in CheckRules : Reached(k)' => k.flags \subseteq ctx'.flags
        BY <3>3, <3>8
      <3>10. QED
        BY <3>6, <3>7, <3>9 DEF Expected
    <2>6. QED
      BY <2>4, <2>5
  <1>5. QED
    BY <1>3, <1>4

\* A match preserves the invariant.
LEMMA MatchIInv ==
  ASSUME IInv, NEW e \in Effects, NEW nb \in NbMatches, NEW m \in Memories,
         Match(e, nb, m)
  PROVE  IInv'
  <1>1. TypeOK' /\ ScoresFollow'
    BY MatchTypeOK, MatchScores
  <1>2. (ctx.ignore => listed)'
    BY MatchTypeOK DEF IInv, Match
  <1>3. IgnoredNeverStopped'
    BY DEF IgnoredNeverStopped, Match
  <1>4. NeverOverblocks' /\ OrderIndependent'
    BY MatchFlags DEF NeverOverblocks, OrderIndependent, Match, Monotone
  <1>5. QED
    BY <1>1, <1>2, <1>3, <1>4 DEF IInv
-----------------------------------------------------------------------------
(***************************************************************************)
(* An internal error, and the end                                          *)
(***************************************************************************)

\* An internal error preserves the invariant: it raises the two flags, which
\* it makes expected.
LEMMA ErrorIInv == ASSUME IInv, Error PROVE IInv'
  <1>1. /\ IsContext(ctx)
        /\ ctx \in [flags : SUBSET Flags, ignore : BOOLEAN, learning : BOOLEAN,
                    special_scores : {ctx.special_scores}, matched : Nat]
    BY DEF IInv, TypeOK, IsContext
  <1>2. /\ ctx' \in [flags : SUBSET Flags, ignore : BOOLEAN, learning : BOOLEAN,
                     special_scores : {ctx.special_scores}, matched : Nat]
        /\ ctx'.flags = ctx.flags \cup {"block", "drop"}
        /\ ctx'.ignore = ctx.ignore
        /\ ctx'.special_scores = ctx.special_scores
    BY <1>1 DEF Error, error_fatal, Flags
  <1>3. TypeOK'
    <2>1. IsContext(ctx)'
      BY <1>1, <1>2 DEF IsContext
    <2>2. steps' \in 0 .. MaxMatches
      BY EffectsAssumption DEF IInv, TypeOK, Error
    <2>3. QED
      BY <2>1, <2>2 DEF IInv, TypeOK, Error
  <1>4. ScoresFollow'
    BY <1>2 DEF IInv, ScoresFollow, Tagged, Error, Monotone
  <1>5. Expected' = Expected \cup {"block", "drop"}
    BY FlagsKnown DEF Expected, Reached, Error
  <1>6. NeverOverblocks' /\ OrderIndependent'
    BY <1>2, <1>5 DEF IInv, NeverOverblocks, OrderIndependent, Error, Monotone
  <1>7. IgnoredNeverStopped' /\ (ctx.ignore => listed)'
    BY <1>2 DEF IInv, IgnoredNeverStopped, Error
  <1>8. QED
    BY <1>3, <1>4, <1>6, <1>7 DEF IInv

\* The CheckRules met by the scores are reached by the totals, where scores
\* only grow.
LEMMA MetReached ==
  ASSUME IInv, Monotone
  PROVE  CheckFlags(ctx.special_scores) \subseteq Expected
  <1> DEFINE s == ctx.special_scores
  <1>1. IsScores(s) /\ ScoresFollow /\ totals \in [Tags -> Int]
    BY DEF IInv, TypeOK, IsContext
  <1>2. ASSUME NEW k \in CheckRules, k.sc_tag \in DOMAIN s,
               Met(k, s[k.sc_tag])
        PROVE  Reached(k)
    <2>1. /\ k.sc_tag \in Tags /\ k.sc_score \in Int
          /\ k.cmp \in {"SUP", "SUP_OR_EQUAL"}
      BY CheckRulesAssumption DEF CheckRule, Monotone
    <2>2. Tagged(k.sc_tag)
      BY <1>1, <1>2, <2>1 DEF ScoresFollow
    <2>3. /\ s[k.sc_tag] \in Int /\ totals[k.sc_tag] \in Int
          /\ s[k.sc_tag] <= totals[k.sc_tag]
      BY <1>1, <1>2, <2>1 DEF ScoresFollow, IsScores, Monotone
    <2> HIDE DEF s
    <2>4. QED
      BY <1>2, <2>1, <2>2, <2>3 DEF Met, Reached, Tagged
  <1>3. SUFFICES ASSUME NEW f \in CheckFlags(s) PROVE f \in Expected
    OBVIOUS
  <1>4. PICK k \in CheckRules : /\ k.sc_tag \in DOMAIN s
                               /\ Met(k, s[k.sc_tag])
                               /\ f \in k.flags /\ f \in Flags
    BY DEF CheckFlags
  <1>5. Reached(k)
    BY <1>2, <1>4
  <1>6. QED
    BY <1>4, <1>5 DEF Expected

\* The last update preserves the invariant, and spares an ignored client.
LEMMA EndIInv == ASSUME IInv, End PROVE IInv'
  <1>1. IsContext(ctx) /\ listed \in BOOLEAN
    BY DEF IInv, TypeOK
  <1>2. /\ IsContext(ctx')
        /\ ctx'.special_scores = ctx.special_scores
        /\ ctx'.ignore <=> (ctx.ignore \/ listed)
        /\ ctx'.flags = Spared(ctx.flags \cup CheckFlags(ctx.special_scores),
                               ctx.ignore \/ listed)
    BY <1>1, UpdateType DEF End
  <1>3. TypeOK'
    <2>1. IsContext(ctx)'
      BY <1>2 DEF IsContext
    <2>2. QED
      BY <2>1 DEF IInv, TypeOK, End
  <1>4. ScoresFollow'
    BY <1>2 DEF IInv, ScoresFollow, Tagged, End, Monotone
  <1>5. Expected' = Expected
    BY DEF Expected, Reached, End
  <1>6. NeverOverblocks'
    BY <1>2, <1>5, MetReached
    DEF IInv, NeverOverblocks, Spared, Monotone, End
  <1>7. OrderIndependent'
    BY <1>2, <1>5, MetReached
    DEF IInv, OrderIndependent, Spared, Monotone, End
  <1>8. (ctx.ignore => listed)' /\ (ctx.ignore = listed)'
    <2>1. ctx'.ignore \in BOOLEAN
      BY <1>2 DEF IsContext
    <2>2. QED
      BY <1>1, <1>2, <2>1 DEF IInv, End
  <1>9. IgnoredNeverStopped'
    BY <1>2, <1>8 DEF IgnoredNeverStopped, Spared, End
  <1>10. QED
    BY <1>3, <1>4, <1>6, <1>7, <1>8, <1>9 DEF IInv
-----------------------------------------------------------------------------
(***************************************************************************)
(* The theorems                                                            *)
(***************************************************************************)

\* Every step preserves the invariant.
THEOREM NextIInv == IInv /\ [Next]_vars => IInv'
  <1> SUFFICES ASSUME IInv, [Next]_vars PROVE IInv'
    OBVIOUS
  <1>1. ASSUME NEW e \in Effects, NEW nb \in NbMatches, NEW m \in Memories,
               Match(e, nb, m)
        PROVE  IInv'
    BY <1>1, MatchIInv
  <1>2. CASE Error
    BY <1>2, ErrorIInv
  <1>3. CASE End
    BY <1>3, EndIInv
  <1>4. CASE UNCHANGED vars
    BY <1>4
    DEF vars, IInv, TypeOK, IgnoredNeverStopped, ScoresFollow, Tagged,
        NeverOverblocks, OrderIndependent, Expected, Reached, Monotone,
        IsContext
  <1>5. QED
    BY <1>1, <1>2, <1>3, <1>4 DEF Next

\* The inductive invariant holds of every context.
THEOREM SpecIInv == Spec => []IInv
  BY InitIInv, NextIInv, PTL DEF Spec

\* The context keeps its type, whatever matches and whatever is lost.
THEOREM TypeCorrect == Spec => []TypeOK
  <1>1. IInv => TypeOK
    BY DEF IInv
  <1>2. QED
    BY <1>1, SpecIInv, PTL

\* The scores CheckRules compare are what the matches add up to, and where
\* allocations fail at most that (apply_rulematch).
THEOREM ScoresKept == Spec => []ScoresAddUp
  <1>1. IInv => ScoresAddUp
    BY DEF IInv, ScoresFollow, ScoresAddUp
  <1>2. QED
    BY <1>1, SpecIInv, PTL

\* The flags raised match by match are those of the totals (apply_rulematch
\* with update_current_ctx_status), for any growing scores and lower limits.
THEOREM VerdictOrderIndependent == Spec => []OrderIndependent
  <1>1. IInv => OrderIndependent
    BY DEF IInv
  <1>2. QED
    BY <1>1, SpecIInv, PTL

\* No flag is raised that the matches do not account for, even when
\* allocations fail.
THEOREM NoUnexpectedFlag == Spec => []NeverOverblocks
  <1>1. IInv => NeverOverblocks
    BY DEF IInv
  <1>2. QED
    BY <1>1, SpecIInv, PTL

\* A client on the ignore lists ends unstopped, whatever its request holds.
THEOREM IgnoredPass == Spec => []IgnoredNeverStopped
  <1>1. IInv => IgnoredNeverStopped
    BY DEF IInv
  <1>2. QED
    BY <1>1, SpecIInv, PTL

\* The flags of a client that is not ignored are never taken back.
THEOREM StickyFlags == Spec => FlagsSticky
  <1>1. IInv /\ [Next]_vars => [~listed => ctx.flags \subseteq ctx'.flags]_vars
    <2> SUFFICES ASSUME IInv, [Next]_vars, ~listed
                 PROVE  ctx.flags \subseteq ctx'.flags
      OBVIOUS
    <2>1. ~ctx.ignore /\ IsContext(ctx) /\ listed \in BOOLEAN
      BY DEF IInv, TypeOK
    <2>2. ASSUME NEW e \in Effects, NEW nb \in NbMatches, NEW m \in Memories,
                 Match(e, nb, m)
          PROVE  ctx.flags \subseteq ctx'.flags
      <3>1. m \in Memory
        BY EffectsAssumption
      <3>2. m.entry =>
              ctx'.flags = ctx.flags \cup e.flags \cup CheckFlags(
                Added(ctx.special_scores, e.sscores, Times(nb), m.tags))
        BY <2>1, <2>2, MatchTypeOK DEF Spared
      <3>3. ~m.entry => ctx' = ctx
        BY <2>2, MatchTypeOK
      <3>4. QED
        BY <3>1, <3>2, <3>3 DEF Memory
    <2>3. ASSUME Error PROVE ctx.flags \subseteq ctx'.flags
      BY <2>1, <2>3 DEF Error, error_fatal, IsContext
    <2>4. ASSUME End PROVE ctx.flags \subseteq ctx'.flags
      <3>1. ctx'.flags = Spared(ctx.flags \cup CheckFlags(ctx.special_scores),
                                ctx.ignore \/ listed)
        BY <2>1, <2>4, UpdateType DEF End
      <3>2. QED
        BY <2>1, <3>1 DEF Spared
    <2>5. QED
      BY <2>2, <2>3, <2>4 DEF Next, vars
  <1>2. QED
    BY <1>1, SpecIInv, PTL DEF Spec, FlagsSticky
=============================================================================
