--------------------------- MODULE MCNaxsiRequest ---------------------------
(***************************************************************************)
(* Instances of NaxsiRequest: a guarded location, a learning one and one   *)
(* with SecRulesDisabled, which send what they deny to a fourth location.  *)
(***************************************************************************)
EXTENDS NaxsiRequest, TLC

CONSTANTS app, learn, off, page,
          PageGuarded   \* does the denied page inherit SecRulesEnabled?

Enabled == [l \in Locations |-> l # page \/ PageGuarded]
ForceDisabled == [l \in Locations |-> l = off]
Learning == [l \in Locations |-> l = learn]
DeniedUrl == [l \in Locations |-> page]

Symmetry == Permutations(Requests)
=============================================================================
