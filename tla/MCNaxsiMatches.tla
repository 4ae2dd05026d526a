--------------------------- MODULE MCNaxsiMatches ---------------------------
(***************************************************************************)
(* Instances of NaxsiMatches: two scores, CheckRules that block, drop and  *)
(* log, rules that score, share a tag, drop on their own and log only.     *)
(***************************************************************************)
EXTENDS NaxsiMatches

CONSTANTS sql, xss

Limit(tag, cmp, score, flag) ==
  [sc_tag |-> tag, cmp |-> cmp, sc_score |-> score, flags |-> {flag}]

\* CheckRule "$SQL >= 8" BLOCK; "$SQL > 12" DROP; "$XSS >= 4" LOG
LowerLimits ==
  {Limit(sql, "SUP_OR_EQUAL", 8, "block"), Limit(sql, "SUP", 12, "drop"),
   Limit(xss, "SUP_OR_EQUAL", 4, "log")}

\* CheckRule "$SQL < 8" DROP; "$XSS <= 0" BLOCK
UpperLimits ==
  {Limit(sql, "INF", 8, "drop"), Limit(xss, "INF_OR_EQUAL", 0, "block")}

Scoring(scores) == [sscores |-> scores, flags |-> {}]
Acting(flag) == [sscores |-> [t \in {} |-> 0], flags |-> {flag}]

\* One rule takes back what the others add.
AllEffects ==
  {Scoring([t \in {sql} |-> 4]), Scoring([t \in {sql, xss} |-> 2]),
   Scoring([t \in {sql} |-> -4]), Acting("drop"), Acting("log")}

SignedEffects ==
  {Scoring([t \in {sql} |-> 4]), Scoring([t \in {sql} |-> -4]),
   Scoring([t \in {sql, xss} |-> 2])}

AllMemories == Memory
FullMemory == {EnoughMemory}
=============================================================================
