------------------------------ MODULE NaxsiGate ------------------------------
(***************************************************************************)
(* What naxsi promises for each request, without saying how: at most one   *)
(* decision is taken, before any content handler answers at the requested  *)
(* resource; it is never revised; a denied request never gets to that      *)
(* resource, and only denied ones are sent to DeniedUrl.                   *)
(* NaxsiRequest implements it.                                             *)
(***************************************************************************)
CONSTANT Requests

VARIABLES
  decision,  \* "none", "pass" or "deny"
  origin,    \* the requested resource has begun to answer
  refused,   \* the request was sent to DeniedUrl
  gone       \* nginx has freed the request

vars == <<decision, origin, refused, gone>>

Init ==
  /\ decision = [q \in Requests |-> "none"]
  /\ origin = [q \in Requests |-> FALSE]
  /\ refused = [q \in Requests |-> FALSE]
  /\ gone = [q \in Requests |-> FALSE]

\* The one decision; a denial may take effect, and an error may end the
\* request, in the same step.
Decide(q) ==
  /\ decision[q] = "none" /\ ~origin[q] /\ ~gone[q]
  /\ \E d \in {"pass", "deny"}, r, g \in BOOLEAN :
       /\ r => d = "deny" /\ ~g
       /\ decision' = [decision EXCEPT ![q] = d]
       /\ refused' = [refused EXCEPT ![q] = r]
       /\ gone' = [gone EXCEPT ![q] = g]
  /\ UNCHANGED origin

\* Undecided requests are those naxsi is not to inspect.
Serve(q) ==
  /\ decision[q] # "deny" /\ ~gone[q]
  /\ origin' = [origin EXCEPT ![q] = TRUE]
  /\ UNCHANGED <<decision, refused, gone>>

Leave(q) ==
  /\ ~gone[q]
  /\ gone' = [gone EXCEPT ![q] = TRUE]
  /\ UNCHANGED <<decision, origin, refused>>

Next == \E q \in Requests : Decide(q) \/ Serve(q) \/ Leave(q)

Spec == Init /\ [][Next]_vars
=============================================================================
