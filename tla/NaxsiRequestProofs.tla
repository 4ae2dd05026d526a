------------------------ MODULE NaxsiRequestProofs ------------------------
(***************************************************************************)
(* Proofs about NaxsiRequest for any number of requests, any locations and *)
(* any bound on rewrites: the type invariant, the safety invariants, that  *)
(* verdicts are final, and that the handlers implement NaxsiGate.          *)
(*                                                                         *)
(* The invariants are not inductive by themselves.  IInv adds what ties a  *)
(* request's place in nginx to its context; it is proved once, one lemma   *)
(* per group of actions, and the theorems are read off it.                 *)
(***************************************************************************)
EXTENDS NaxsiRequest, FiniteSetTheorems, TLAPS

\* A request that waits for its body has its context, is not inspected yet,
\* and was not redirected; only the handler and the event loop see it.
AwaitingBody(q) ==
  /\ ctx[q].wait_for_body =>
       /\ attached[q] /\ ~ctx[q].over /\ ~ctx[q].ready /\ ~internal[q]
       /\ pc[q] \in {"rewrite", "body", "freed"}
  /\ pc[q] = "body" => ctx[q].wait_for_body

\* Until a redirect, nothing but the request's own phase run holds it.
FirstRunAlone(q) ==
  /\ pc[q] = "new" => ~internal[q]
  /\ ~internal[q] /\ pc[q] \in {"new", "rewrite", "later", "body"}
       => outer[q] = 0 /\ active[q] = 0

\* The context that carries the verdict is lost to a redirect only; one that
\* is neither inspected, nor waiting, nor ready was switched off.
ContextKept(q) ==
  ~internal[q] /\ pc[q] # "freed" =>
    /\ ctx[q].over => attached[q]
    /\ attached[q] => \/ ctx[q].over \/ ctx[q].wait_for_body
                      \/ ctx[q].ready \/ ~ctx[q].enabled

\* A denied request has been redirected, or is gone; content was reached
\* outside a redirect by others only, and they have left the phases.
DenialKept(q) ==
  /\ ctx[q].over /\ Denies(ctx[q]) => internal[q] \/ pc[q] = "freed"
  /\ at_origin[q] => internal[q] \/ pc[q] \in {"content", "freed"}

\* The history variables follow the flag over; so does what a verdict leaves:
\* the flag block, and the context in the pool's cleanups.
HistoryFollows(q) ==
  /\ inspections[q] = IF ctx[q].over THEN 1 ELSE 0
  /\ inspected_at[q] \in Locations <=> ctx[q].over
  /\ ctx[q].block => ctx[q].over
  /\ ctx[q].over => created[q]

RequestInv(q) ==
  AwaitingBody(q) /\ FirstRunAlone(q) /\ ContextKept(q) /\ DenialKept(q)
    /\ HistoryFollows(q)

IInv ==
  /\ TypeOK /\ ReferencesExact /\ NoBypass /\ VerdictHonoured
  /\ \A q \in Requests : RequestInv(q)
-----------------------------------------------------------------------------
\* IInv holds before any request has arrived.
THEOREM InitIInv == Init => IInv
  BY ConstantsAssumption
  DEF Init, IInv, TypeOK, ReferencesExact, References, NoBypass,
      VerdictHonoured, RequestInv, AwaitingBody, FirstRunAlone, ContextKept,
      DenialKept, HistoryFollows, Context, ZeroContext, Places

(***************************************************************************)
(* The steps of nginx around the handler.                                  *)
(***************************************************************************)

\* A request arrives and its phases start.
LEMMA ArriveIInv ==
  ASSUME IInv, NEW q \in Requests, Arrive(q)
  PROVE  IInv'
<1>a. TypeOK'
  BY DEF IInv, TypeOK, Places, Context, Arrive, inputVars, ctxVars,
    sharedVars, historyVars
<1>b. ASSUME NEW p \in Requests PROVE RequestInv(p)'
  BY DEF IInv, TypeOK, Places, Context, Arrive, inputVars, ctxVars,
    sharedVars, historyVars, RequestInv, AwaitingBody, FirstRunAlone,
    ContextKept, DenialKept, HistoryFollows, Denies, ReferencesExact,
    References
<1>c. ReferencesExact'
  BY DEF IInv, TypeOK, Places, Context, Arrive, inputVars, ctxVars,
    sharedVars, historyVars, RequestInv, AwaitingBody, FirstRunAlone,
    ReferencesExact, References
<1>d. NoBypass'
  BY DEF IInv, TypeOK, Places, Context, Arrive, inputVars, ctxVars,
    sharedVars, historyVars, RequestInv, AwaitingBody, FirstRunAlone,
    ContextKept, DenialKept, Denies, NoBypass, RunsHere
<1>e. VerdictHonoured'
  BY DEF IInv, TypeOK, Places, Context, Arrive, inputVars, ctxVars,
    sharedVars, historyVars, RequestInv, AwaitingBody, FirstRunAlone,
    ContextKept, DenialKept, Denies, VerdictHonoured
<1>. QED BY <1>a, <1>b, <1>c, <1>d, <1>e DEF IInv

\* A rewrite runs the phases again from the start, in another location.
LEMMA RewriteUriIInv ==
  ASSUME IInv, NEW q \in Requests, RewriteUri(q)
  PROVE  IInv'
<1>a. TypeOK'
  BY ConstantsAssumption DEF IInv, TypeOK, Places, Context, RewriteUri,
    inputVars, ctxVars, sharedVars, historyVars
<1>b. ASSUME NEW p \in Requests PROVE RequestInv(p)'
  BY DEF IInv, TypeOK, Places, Context, RewriteUri, inputVars, ctxVars,
    sharedVars, historyVars, RequestInv, AwaitingBody, FirstRunAlone,
    ContextKept, DenialKept, HistoryFollows, Denies, ReferencesExact,
    References
<1>c. ReferencesExact'
  BY DEF IInv, TypeOK, Places, Context, RewriteUri, inputVars, ctxVars,
    sharedVars, historyVars, RequestInv, AwaitingBody, FirstRunAlone,
    ReferencesExact, References
<1>d. NoBypass'
  BY DEF IInv, TypeOK, Places, Context, RewriteUri, inputVars, ctxVars,
    sharedVars, historyVars, RequestInv, AwaitingBody, FirstRunAlone,
    ContextKept, DenialKept, Denies, NoBypass, RunsHere
<1>e. VerdictHonoured'
  BY DEF IInv, TypeOK, Places, Context, RewriteUri, inputVars, ctxVars,
    sharedVars, historyVars, RequestInv, AwaitingBody, FirstRunAlone,
    ContextKept, DenialKept, Denies, VerdictHonoured
<1>. QED BY <1>a, <1>b, <1>c, <1>d, <1>e DEF IInv

\* An internal redirect of nginx's own detaches naxsi's context.
LEMMA NginxRedirectIInv ==
  ASSUME IInv, NEW q \in Requests, NginxRedirect(q)
  PROVE  IInv'
<1>a. TypeOK'
  BY ConstantsAssumption DEF IInv, TypeOK, Places, Context, NginxRedirect,
    inputVars, ctxVars, sharedVars, historyVars
<1>b. ASSUME NEW p \in Requests PROVE RequestInv(p)'
  BY DEF IInv, TypeOK, Places, Context, NginxRedirect, inputVars, ctxVars,
    sharedVars, historyVars, RequestInv, AwaitingBody, FirstRunAlone,
    ContextKept, DenialKept, HistoryFollows, Denies, ReferencesExact,
    References
<1>c. ReferencesExact'
  BY DEF IInv, TypeOK, Places, Context, NginxRedirect, inputVars, ctxVars,
    sharedVars, historyVars, RequestInv, AwaitingBody, FirstRunAlone,
    ReferencesExact, References
<1>d. NoBypass'
  BY DEF IInv, TypeOK, Places, Context, NginxRedirect, inputVars, ctxVars,
    sharedVars, historyVars, RequestInv, AwaitingBody, FirstRunAlone,
    ContextKept, DenialKept, Denies, NoBypass, RunsHere
<1>e. VerdictHonoured'
  BY DEF IInv, TypeOK, Places, Context, NginxRedirect, inputVars, ctxVars,
    sharedVars, historyVars, RequestInv, AwaitingBody, FirstRunAlone,
    ContextKept, DenialKept, Denies, VerdictHonoured
<1>. QED BY <1>a, <1>b, <1>c, <1>d, <1>e DEF IInv

\* The content phase: outside a redirect only for requests let through.
LEMMA StartContentIInv ==
  ASSUME IInv, NEW q \in Requests, StartContent(q)
  PROVE  IInv'
<1>1. pc[q] = "later" /\ ~ctx[q].wait_for_body /\ active[q] \in Nat
      /\ count[q] = References(q) /\ outer[q] \in Nat
  BY DEF StartContent, IInv, TypeOK, RequestInv, AwaitingBody, ReferencesExact
<1>a. TypeOK'
  BY <1>1 DEF IInv, TypeOK, Places, Context, StartContent, inputVars, ctxVars,
    sharedVars, historyVars
<1>b. ASSUME NEW p \in Requests PROVE RequestInv(p)'
  BY <1>1 DEF IInv, TypeOK, Places, Context, StartContent, inputVars, ctxVars,
    sharedVars, historyVars, RequestInv, AwaitingBody, FirstRunAlone,
    ContextKept, DenialKept, HistoryFollows, Denies
<1>c. ReferencesExact'
  <2>1. (count[q] = References(q))'
    BY <1>1 DEF IInv, TypeOK, Places, Context, StartContent, inputVars,
      ctxVars, sharedVars, historyVars, RequestInv, AwaitingBody,
      FirstRunAlone, ReferencesExact, References
  <2>2. ASSUME NEW p \in Requests, p # q
        PROVE  (count[p] = References(p))'
    <3>1. UNCHANGED <<pc[p], count[p], outer[p], active[p], ctx[p]>>
      BY <1>1, <2>2 DEF IInv, TypeOK, StartContent, inputVars, ctxVars,
        sharedVars, historyVars
    <3>. QED BY <3>1 DEF IInv, ReferencesExact, References
  <2>. QED BY <2>1, <2>2 DEF ReferencesExact
<1>d. NoBypass'
  BY <1>1 DEF IInv, TypeOK, Places, Context, StartContent, inputVars, ctxVars,
    sharedVars, historyVars, RequestInv, AwaitingBody, FirstRunAlone,
    ContextKept, DenialKept, Denies, NoBypass, RunsHere
<1>e. VerdictHonoured'
  BY <1>1 DEF IInv, TypeOK, Places, Context, StartContent, inputVars, ctxVars,
    sharedVars, historyVars, RequestInv, AwaitingBody, FirstRunAlone,
    ContextKept, DenialKept, Denies, VerdictHonoured
<1>. QED BY <1>a, <1>b, <1>c, <1>d, <1>e DEF IInv

\* A request that ends while its body is awaited frees its references.
LEMMA BodyAbortedIInv ==
  ASSUME IInv, NEW q \in Requests, BodyAborted(q)
  PROVE  IInv'
<1>a. TypeOK'
  BY DEF IInv, TypeOK, Places, Context, BodyAborted, inputVars, ctxVars,
    sharedVars, historyVars
<1>b. ASSUME NEW p \in Requests PROVE RequestInv(p)'
  BY DEF IInv, TypeOK, Places, Context, BodyAborted, inputVars, ctxVars,
    sharedVars, historyVars, RequestInv, AwaitingBody, FirstRunAlone,
    ContextKept, DenialKept, HistoryFollows, Denies, ReferencesExact,
    References
<1>c. ReferencesExact'
  BY DEF IInv, TypeOK, Places, Context, BodyAborted, inputVars, ctxVars,
    sharedVars, historyVars, RequestInv, AwaitingBody, FirstRunAlone,
    ReferencesExact, References
<1>d. NoBypass'
  BY DEF IInv, TypeOK, Places, Context, BodyAborted, inputVars, ctxVars,
    sharedVars, historyVars, RequestInv, AwaitingBody, FirstRunAlone,
    ContextKept, DenialKept, Denies, NoBypass, RunsHere
<1>e. VerdictHonoured'
  BY DEF IInv, TypeOK, Places, Context, BodyAborted, inputVars, ctxVars,
    sharedVars, historyVars, RequestInv, AwaitingBody, FirstRunAlone,
    ContextKept, DenialKept, Denies, VerdictHonoured
<1>. QED BY <1>a, <1>b, <1>c, <1>d, <1>e DEF IInv

\* The phases are run again while the body is awaited.
LEMMA PhasesRerunIInv ==
  ASSUME IInv, NEW q \in Requests, PhasesRerun(q)
  PROVE  IInv'
<1>a. TypeOK'
  BY ConstantsAssumption DEF IInv, TypeOK, Places, Context, PhasesRerun,
    inputVars, ctxVars, sharedVars, historyVars
<1>b. ASSUME NEW p \in Requests PROVE RequestInv(p)'
  BY DEF IInv, TypeOK, Places, Context, PhasesRerun, inputVars, ctxVars,
    sharedVars, historyVars, RequestInv, AwaitingBody, FirstRunAlone,
    ContextKept, DenialKept, HistoryFollows, Denies, ReferencesExact,
    References
<1>c. ReferencesExact'
  BY DEF IInv, TypeOK, Places, Context, PhasesRerun, inputVars, ctxVars,
    sharedVars, historyVars, RequestInv, AwaitingBody, FirstRunAlone,
    ReferencesExact, References
<1>d. NoBypass'
  BY DEF IInv, TypeOK, Places, Context, PhasesRerun, inputVars, ctxVars,
    sharedVars, historyVars, RequestInv, AwaitingBody, FirstRunAlone,
    ContextKept, DenialKept, Denies, NoBypass, RunsHere
<1>e. VerdictHonoured'
  BY DEF IInv, TypeOK, Places, Context, PhasesRerun, inputVars, ctxVars,
    sharedVars, historyVars, RequestInv, AwaitingBody, FirstRunAlone,
    ContextKept, DenialKept, Denies, VerdictHonoured
<1>. QED BY <1>a, <1>b, <1>c, <1>d, <1>e DEF IInv

\* A content handler gives back its reference, or starts the post action.
LEMMA ContentDoneIInv ==
  ASSUME IInv, NEW q \in Requests, ContentDone(q)
  PROVE  IInv'
<1>1. /\ pc[q] = "content" /\ active[q] \in Nat \ {0} /\ active[q] - 1 \in Nat
      /\ active' = [active EXCEPT ![q] = @ - 1]
      /\ UNCHANGED <<outer, inputVars, hops, created, ctx, sharedVars, historyVars>>
  BY DEF IInv, TypeOK, ContentDone
<1>2. /\ outer[q] \in Nat /\ active[q] \in Nat /\ ~ctx[q].wait_for_body
      /\ count[q] = References(q) /\ q # NoRequest
  BY <1>1, ConstantsAssumption
  DEF IInv, TypeOK, ReferencesExact, RequestInv, AwaitingBody
<1>3. /\ count[q] = outer[q] + active[q]
      /\ count[q] \in Nat \ {0} /\ count[q] - 1 \in Nat
  BY <1>1, <1>2 DEF References
<1>4. CASE PostActionDue(q)
  <2>1. /\ in_post_action' = [in_post_action EXCEPT ![q] = TRUE]
         /\ internal' = [internal EXCEPT ![q] = TRUE]
         /\ attached' = [attached EXCEPT ![q] = FALSE]
         /\ loc' = [loc EXCEPT ![q] = denied_url[loc[q]]]
         /\ denied_url[loc[q]] \in Locations
         /\ pc' = [pc EXCEPT ![q] = "rewrite"]
         /\ worker' = q /\ count' = count
    BY <1>4, ConstantsAssumption DEF ContentDone, Finalize, IInv, TypeOK
  <2>a. TypeOK'
    BY <1>1, <1>2, <1>3, <2>1 DEF IInv, TypeOK, Places, Context, inputVars,
      sharedVars, historyVars
  <2>b. ASSUME NEW p \in Requests PROVE RequestInv(p)'
    BY <1>1, <1>2, <1>3, <2>1 DEF IInv, TypeOK, Places, Context, inputVars,
      sharedVars, historyVars, RequestInv, AwaitingBody, FirstRunAlone,
      ContextKept, DenialKept, HistoryFollows, Denies
  <2>c. ReferencesExact'
    <3>1. (count[q] = References(q))'
      BY <1>1, <1>2, <1>3, <2>1 DEF IInv, TypeOK, Places, Context, inputVars,
        sharedVars, historyVars, RequestInv, AwaitingBody, FirstRunAlone,
        ReferencesExact, References
    <3>2. ASSUME NEW p \in Requests, p # q
          PROVE  (count[p] = References(p))'
      <4>1. UNCHANGED <<pc[p], count[p], outer[p], active[p], ctx[p]>>
        BY <1>1, <1>2, <1>3, <2>1, <3>2 DEF IInv, TypeOK, inputVars,
          sharedVars, historyVars
      <4>. QED BY <4>1 DEF IInv, ReferencesExact, References
    <3>. QED BY <3>1, <3>2 DEF ReferencesExact
  <2>d. NoBypass'
    BY <1>1, <1>2, <1>3, <2>1 DEF IInv, TypeOK, Places, Context, inputVars,
      sharedVars, historyVars, RequestInv, AwaitingBody, FirstRunAlone,
      ContextKept, DenialKept, Denies, NoBypass, RunsHere
  <2>e. VerdictHonoured'
    BY <1>1, <1>2, <1>3, <2>1 DEF IInv, TypeOK, Places, Context, inputVars,
      sharedVars, historyVars, RequestInv, AwaitingBody, FirstRunAlone,
      ContextKept, DenialKept, Denies, VerdictHonoured
  <2>. QED BY <2>a, <2>b, <2>c, <2>d, <2>e DEF IInv
<1>5. CASE ~PostActionDue(q)
  <2>1. /\ pc' = [pc EXCEPT ![q] = IF count[q] = 1 THEN "freed" ELSE "content"]
         /\ attached' = attached
         /\ count' = [count EXCEPT ![q] = @ - 1]
         /\ worker' \in {q, NoRequest}
         /\ in_post_action' = in_post_action /\ internal' = internal /\ loc' = loc
    BY <1>5 DEF ContentDone, Finalize, IInv, TypeOK
  <2>a. TypeOK'
    BY <1>1, <1>2, <1>3, <2>1 DEF IInv, TypeOK, Places, Context, inputVars,
      sharedVars, historyVars
  <2>b. ASSUME NEW p \in Requests PROVE RequestInv(p)'
    BY <1>1, <1>2, <1>3, <2>1 DEF IInv, TypeOK, Places, Context, inputVars,
      sharedVars, historyVars, RequestInv, AwaitingBody, FirstRunAlone,
      ContextKept, DenialKept, HistoryFollows, Denies
  <2>c. ReferencesExact'
    <3>1. (count[q] = References(q))'
      BY <1>1, <1>2, <1>3, <2>1 DEF IInv, TypeOK, Places, Context, inputVars,
        sharedVars, historyVars, RequestInv, AwaitingBody, FirstRunAlone,
        ReferencesExact, References
    <3>2. ASSUME NEW p \in Requests, p # q
          PROVE  (count[p] = References(p))'
      <4>1. UNCHANGED <<pc[p], count[p], outer[p], active[p], ctx[p]>>
        BY <1>1, <1>2, <1>3, <2>1, <3>2 DEF IInv, TypeOK, inputVars,
          sharedVars, historyVars
      <4>. QED BY <4>1 DEF IInv, ReferencesExact, References
    <3>. QED BY <3>1, <3>2 DEF ReferencesExact
  <2>d. NoBypass'
    BY <1>1, <1>2, <1>3, <2>1 DEF IInv, TypeOK, Places, Context, inputVars,
      sharedVars, historyVars, RequestInv, AwaitingBody, FirstRunAlone,
      ContextKept, DenialKept, Denies, NoBypass, RunsHere
  <2>e. VerdictHonoured'
    BY <1>1, <1>2, <1>3, <2>1 DEF IInv, TypeOK, Places, Context, inputVars,
      sharedVars, historyVars, RequestInv, AwaitingBody, FirstRunAlone,
      ContextKept, DenialKept, Denies, VerdictHonoured
  <2>. QED BY <2>a, <2>b, <2>c, <2>d, <2>e DEF IInv
<1>. QED BY <1>4, <1>5

\* The phase run below a redirect gives back its reference.
LEMMA FinishOuterIInv ==
  ASSUME IInv, NEW q \in Requests, FinishOuter(q)
  PROVE  IInv'
<1>1. /\ pc[q] = "content" /\ outer[q] \in Nat \ {0} /\ outer[q] - 1 \in Nat
      /\ outer' = [outer EXCEPT ![q] = @ - 1]
      /\ UNCHANGED <<active, inputVars, hops, created, ctx, sharedVars, historyVars>>
  BY DEF IInv, TypeOK, FinishOuter
<1>2. /\ outer[q] \in Nat /\ active[q] \in Nat /\ ~ctx[q].wait_for_body
      /\ count[q] = References(q) /\ q # NoRequest
  BY <1>1, ConstantsAssumption
  DEF IInv, TypeOK, ReferencesExact, RequestInv, AwaitingBody
<1>3. /\ count[q] = outer[q] + active[q]
      /\ count[q] \in Nat \ {0} /\ count[q] - 1 \in Nat
  BY <1>1, <1>2 DEF References
<1>4. CASE PostActionDue(q)
  <2>1. /\ in_post_action' = [in_post_action EXCEPT ![q] = TRUE]
         /\ internal' = [internal EXCEPT ![q] = TRUE]
         /\ attached' = [attached EXCEPT ![q] = FALSE]
         /\ loc' = [loc EXCEPT ![q] = denied_url[loc[q]]]
         /\ denied_url[loc[q]] \in Locations
         /\ pc' = [pc EXCEPT ![q] = "rewrite"]
         /\ worker' = q /\ count' = count
    BY <1>4, ConstantsAssumption DEF FinishOuter, Finalize, IInv, TypeOK
  <2>a. TypeOK'
    BY <1>1, <1>2, <1>3, <2>1 DEF IInv, TypeOK, Places, Context, inputVars,
      sharedVars, historyVars
  <2>b. ASSUME NEW p \in Requests PROVE RequestInv(p)'
    BY <1>1, <1>2, <1>3, <2>1 DEF IInv, TypeOK, Places, Context, inputVars,
      sharedVars, historyVars, RequestInv, AwaitingBody, FirstRunAlone,
      ContextKept, DenialKept, HistoryFollows, Denies
  <2>c. ReferencesExact'
    <3>1. (count[q] = References(q))'
      BY <1>1, <1>2, <1>3, <2>1 DEF IInv, TypeOK, Places, Context, inputVars,
        sharedVars, historyVars, RequestInv, AwaitingBody, FirstRunAlone,
        ReferencesExact, References
    <3>2. ASSUME NEW p \in Requests, p # q
          PROVE  (count[p] = References(p))'
      <4>1. UNCHANGED <<pc[p], count[p], outer[p], active[p], ctx[p]>>
        BY <1>1, <1>2, <1>3, <2>1, <3>2 DEF IInv, TypeOK, inputVars,
          sharedVars, historyVars
      <4>. QED BY <4>1 DEF IInv, ReferencesExact, References
    <3>. QED BY <3>1, <3>2 DEF ReferencesExact
  <2>d. NoBypass'
    BY <1>1, <1>2, <1>3, <2>1 DEF IInv, TypeOK, Places, Context, inputVars,
      sharedVars, historyVars, RequestInv, AwaitingBody, FirstRunAlone,
      ContextKept, DenialKept, Denies, NoBypass, RunsHere
  <2>e. VerdictHonoured'
    BY <1>1, <1>2, <1>3, <2>1 DEF IInv, TypeOK, Places, Context, inputVars,
      sharedVars, historyVars, RequestInv, AwaitingBody, FirstRunAlone,
      ContextKept, DenialKept, Denies, VerdictHonoured
  <2>. QED BY <2>a, <2>b, <2>c, <2>d, <2>e DEF IInv
<1>5. CASE ~PostActionDue(q)
  <2>1. /\ pc' = [pc EXCEPT ![q] = IF count[q] = 1 THEN "freed" ELSE "content"]
         /\ attached' = attached
         /\ count' = [count EXCEPT ![q] = @ - 1]
         /\ worker' \in {q, NoRequest}
         /\ in_post_action' = in_post_action /\ internal' = internal /\ loc' = loc
    BY <1>5 DEF FinishOuter, Finalize, IInv, TypeOK
  <2>a. TypeOK'
    BY <1>1, <1>2, <1>3, <2>1 DEF IInv, TypeOK, Places, Context, inputVars,
      sharedVars, historyVars
  <2>b. ASSUME NEW p \in Requests PROVE RequestInv(p)'
    BY <1>1, <1>2, <1>3, <2>1 DEF IInv, TypeOK, Places, Context, inputVars,
      sharedVars, historyVars, RequestInv, AwaitingBody, FirstRunAlone,
      ContextKept, DenialKept, HistoryFollows, Denies
  <2>c. ReferencesExact'
    <3>1. (count[q] = References(q))'
      BY <1>1, <1>2, <1>3, <2>1 DEF IInv, TypeOK, Places, Context, inputVars,
        sharedVars, historyVars, RequestInv, AwaitingBody, FirstRunAlone,
        ReferencesExact, References
    <3>2. ASSUME NEW p \in Requests, p # q
          PROVE  (count[p] = References(p))'
      <4>1. UNCHANGED <<pc[p], count[p], outer[p], active[p], ctx[p]>>
        BY <1>1, <1>2, <1>3, <2>1, <3>2 DEF IInv, TypeOK, inputVars,
          sharedVars, historyVars
      <4>. QED BY <4>1 DEF IInv, ReferencesExact, References
    <3>. QED BY <3>1, <3>2 DEF ReferencesExact
  <2>d. NoBypass'
    BY <1>1, <1>2, <1>3, <2>1 DEF IInv, TypeOK, Places, Context, inputVars,
      sharedVars, historyVars, RequestInv, AwaitingBody, FirstRunAlone,
      ContextKept, DenialKept, Denies, NoBypass, RunsHere
  <2>e. VerdictHonoured'
    BY <1>1, <1>2, <1>3, <2>1 DEF IInv, TypeOK, Places, Context, inputVars,
      sharedVars, historyVars, RequestInv, AwaitingBody, FirstRunAlone,
      ContextKept, DenialKept, Denies, VerdictHonoured
  <2>. QED BY <2>a, <2>b, <2>c, <2>d, <2>e DEF IInv
<1>. QED BY <1>4, <1>5

(***************************************************************************)
(* The module's handlers.                                                  *)
(***************************************************************************)

\* The handler declines: inspected, not to be inspected, switched off.
LEMMA SkipIInv ==
  ASSUME IInv, NEW q \in Requests, Skip(q)
  PROVE  IInv'
<1>a. TypeOK'
  BY DEF IInv, TypeOK, Places, Context, Skip, AtHandler, Waiting, inputVars,
    ctxVars, sharedVars, historyVars
<1>b. ASSUME NEW p \in Requests PROVE RequestInv(p)'
  BY DEF IInv, TypeOK, Places, Context, Skip, AtHandler, Waiting, inputVars,
    ctxVars, sharedVars, historyVars, RequestInv, AwaitingBody, FirstRunAlone,
    ContextKept, DenialKept, HistoryFollows, Denies, ReferencesExact,
    References
<1>c. ReferencesExact'
  BY DEF IInv, TypeOK, Places, Context, Skip, AtHandler, Waiting, inputVars,
    ctxVars, sharedVars, historyVars, RequestInv, AwaitingBody, FirstRunAlone,
    ReferencesExact, References
<1>d. NoBypass'
  BY DEF IInv, TypeOK, Places, Context, Skip, AtHandler, Waiting, inputVars,
    ctxVars, sharedVars, historyVars, RequestInv, AwaitingBody, FirstRunAlone,
    ContextKept, DenialKept, Denies, NoBypass, RunsHere
<1>e. VerdictHonoured'
  BY DEF IInv, TypeOK, Places, Context, Skip, AtHandler, Waiting, inputVars,
    ctxVars, sharedVars, historyVars, RequestInv, AwaitingBody, FirstRunAlone,
    ContextKept, DenialKept, Denies, VerdictHonoured
<1>. QED BY <1>a, <1>b, <1>c, <1>d, <1>e DEF IInv

\* The handler is called again before the body is there.
LEMMA StillWaitingIInv ==
  ASSUME IInv, NEW q \in Requests, StillWaiting(q)
  PROVE  IInv'
<1>a. TypeOK'
  BY DEF IInv, TypeOK, Places, Context, StillWaiting, AtHandler, Waiting,
    inputVars, ctxVars, sharedVars, historyVars
<1>b. ASSUME NEW p \in Requests PROVE RequestInv(p)'
  BY DEF IInv, TypeOK, Places, Context, StillWaiting, AtHandler, Waiting,
    inputVars, ctxVars, sharedVars, historyVars, RequestInv, AwaitingBody,
    FirstRunAlone, ContextKept, DenialKept, HistoryFollows, Denies,
    ReferencesExact, References
<1>c. ReferencesExact'
  BY ZenonT(60) DEF IInv, TypeOK, Places, Context, StillWaiting, AtHandler, Waiting,
    inputVars, ctxVars, sharedVars, historyVars, RequestInv, AwaitingBody,
    FirstRunAlone, ReferencesExact, References
<1>d. NoBypass'
  BY DEF IInv, TypeOK, Places, Context, StillWaiting, AtHandler, Waiting,
    inputVars, ctxVars, sharedVars, historyVars, RequestInv, AwaitingBody,
    FirstRunAlone, ContextKept, DenialKept, Denies, NoBypass, RunsHere
<1>e. VerdictHonoured'
  BY DEF IInv, TypeOK, Places, Context, StillWaiting, AtHandler, Waiting,
    inputVars, ctxVars, sharedVars, historyVars, RequestInv, AwaitingBody,
    FirstRunAlone, ContextKept, DenialKept, Denies, VerdictHonoured
<1>. QED BY <1>a, <1>b, <1>c, <1>d, <1>e DEF IInv

\* The body callback gives back the reader's reference and reruns the phases.
LEMMA payload_handlerIInv ==
  ASSUME IInv, NEW q \in Requests, payload_handler(q)
  PROVE  IInv'
<1>1. /\ pc[q] = "body" /\ ctx[q].wait_for_body /\ ctx[q] \in Context
      /\ outer[q] \in Nat /\ active[q] \in Nat /\ count[q] = References(q)
  BY DEF payload_handler, IInv, TypeOK, RequestInv, AwaitingBody, ReferencesExact
<1>2. count[q] = 2 + outer[q] + active[q]
  BY <1>1 DEF References
<1>3. count[q] - 1 \in Nat
  BY <1>1, <1>2
<1>4. [ctx[q] EXCEPT !.ready = TRUE, !.wait_for_body = FALSE] \in Context
  BY <1>1 DEF Context
<1>a. TypeOK'
  BY <1>3, <1>4 DEF IInv, TypeOK, Places, Context, payload_handler,
    ReleaseReader, inputVars, ctxVars, sharedVars, historyVars
<1>b. ASSUME NEW p \in Requests PROVE RequestInv(p)'
  BY DEF IInv, TypeOK, Places, Context, payload_handler, ReleaseReader,
    inputVars, ctxVars, sharedVars, historyVars, RequestInv, AwaitingBody,
    FirstRunAlone, ContextKept, DenialKept, HistoryFollows, Denies,
    ReferencesExact, References
<1>c. ReferencesExact'
  BY DEF IInv, TypeOK, Places, Context, payload_handler, ReleaseReader,
    inputVars, ctxVars, sharedVars, historyVars, RequestInv, AwaitingBody,
    FirstRunAlone, ReferencesExact, References
<1>d. NoBypass'
  BY DEF IInv, TypeOK, Places, Context, payload_handler, ReleaseReader,
    inputVars, ctxVars, sharedVars, historyVars, RequestInv, AwaitingBody,
    FirstRunAlone, ContextKept, DenialKept, Denies, NoBypass, RunsHere
<1>e. VerdictHonoured'
  BY DEF IInv, TypeOK, Places, Context, payload_handler, ReleaseReader,
    inputVars, ctxVars, sharedVars, historyVars, RequestInv, AwaitingBody,
    FirstRunAlone, ContextKept, DenialKept, Denies, VerdictHonoured
<1>. QED BY <1>a, <1>b, <1>c, <1>d, <1>e DEF IInv

\* The handler suspends the request until its body is read.
LEMMA AwaitBodyIInv ==
  ASSUME IInv, NEW q \in Requests, AtHandler(q), RunsHere(q), ~attached[q],
         NEW c \in Context, ~c.over, ~c.wait_for_body, ~c.ready, ~c.block,
         AwaitBody(q, c)
  PROVE  IInv'
<1>1. [c EXCEPT !.wait_for_body = TRUE] \in Context
  BY DEF Context
<1>a. TypeOK'
  BY <1>1, ConstantsAssumption DEF IInv, TypeOK, Places, Context, AwaitBody,
    AtHandler, RunsHere, SetContext, inputVars, ctxVars, sharedVars,
    historyVars
<1>b. ASSUME NEW p \in Requests PROVE RequestInv(p)'
  BY DEF IInv, TypeOK, Places, Context, AwaitBody, AtHandler, RunsHere,
    SetContext, inputVars, ctxVars, sharedVars, historyVars, RequestInv,
    AwaitingBody, FirstRunAlone, ContextKept, DenialKept, HistoryFollows,
    Denies, ReferencesExact, References
<1>c. ReferencesExact'
  BY DEF IInv, TypeOK, Places, Context, AwaitBody, AtHandler, RunsHere,
    SetContext, inputVars, ctxVars, sharedVars, historyVars, RequestInv,
    AwaitingBody, FirstRunAlone, ReferencesExact, References
<1>d. NoBypass'
  BY DEF IInv, TypeOK, Places, Context, AwaitBody, AtHandler, RunsHere,
    SetContext, inputVars, ctxVars, sharedVars, historyVars, RequestInv,
    AwaitingBody, FirstRunAlone, ContextKept, DenialKept, Denies, NoBypass,
    RunsHere
<1>e. VerdictHonoured'
  BY DEF IInv, TypeOK, Places, Context, AwaitBody, AtHandler, RunsHere,
    SetContext, inputVars, ctxVars, sharedVars, historyVars, RequestInv,
    AwaitingBody, FirstRunAlone, ContextKept, DenialKept, Denies,
    VerdictHonoured
<1>. QED BY <1>a, <1>b, <1>c, <1>d, <1>e DEF IInv

\* The handler declines for a request whose flags switch inspection off.
LEMMA SwitchedOffIInv ==
  ASSUME IInv, NEW q \in Requests, AtHandler(q), RunsHere(q), ~attached[q],
         NEW c \in Context, ~c.over, ~c.wait_for_body, ~c.block,
         ~c.enabled, SwitchedOff(q, c)
  PROVE  IInv'
<1>1. pc[q] = "rewrite" /\ ~internal[q] /\ ~ctx[q].over
  BY DEF AtHandler, RunsHere, IInv, RequestInv, ContextKept
<1>a. TypeOK'
  BY <1>1 DEF IInv, TypeOK, Places, Context, SwitchedOff, Declined, inputVars,
    ctxVars, sharedVars, historyVars
<1>b. ASSUME NEW p \in Requests PROVE RequestInv(p)'
  BY <1>1 DEF IInv, TypeOK, Places, Context, SwitchedOff, Declined, inputVars,
    ctxVars, sharedVars, historyVars, RequestInv, AwaitingBody, FirstRunAlone,
    ContextKept, DenialKept, HistoryFollows, Denies, ReferencesExact,
    References
<1>c. ReferencesExact'
  BY <1>1 DEF IInv, TypeOK, Places, Context, SwitchedOff, Declined, inputVars,
    ctxVars, sharedVars, historyVars, RequestInv, AwaitingBody, FirstRunAlone,
    ReferencesExact, References
<1>d. NoBypass'
  BY <1>1 DEF IInv, TypeOK, Places, Context, SwitchedOff, Declined, inputVars,
    ctxVars, sharedVars, historyVars, RequestInv, AwaitingBody, FirstRunAlone,
    ContextKept, DenialKept, Denies, NoBypass, RunsHere
<1>e. VerdictHonoured'
  BY <1>1 DEF IInv, TypeOK, Places, Context, SwitchedOff, Declined, inputVars,
    ctxVars, sharedVars, historyVars, RequestInv, AwaitingBody, FirstRunAlone,
    ContextKept, DenialKept, Denies, VerdictHonoured
<1>. QED BY <1>a, <1>b, <1>c, <1>d, <1>e DEF IInv

\* The context cannot be made: the request fails.
LEMMA OutOfMemoryIInv ==
  ASSUME IInv, NEW q \in Requests, OutOfMemory(q)
  PROVE  IInv'
<1>1. /\ pc[q] = "rewrite" /\ ~internal[q] /\ ~ctx[q].wait_for_body
      /\ UNCHANGED <<outer, inputVars, active, hops, sharedVars, historyVars>>
  BY DEF OutOfMemory, AtHandler, RunsHere, IInv, RequestInv, AwaitingBody
<1>2. count[q] = 1 /\ outer[q] = 0 /\ active[q] = 0 /\ q # NoRequest
  BY <1>1, ConstantsAssumption
  DEF IInv, TypeOK, RequestInv, FirstRunAlone, ReferencesExact, References
<1>3. UNCHANGED <<ctx, created>> /\ ~attached[q]
  BY <1>1 DEF OutOfMemory, IInv, TypeOK, RequestInv, ContextKept
<1>4. CASE PostActionDue(q)
  <2>1. /\ in_post_action' = [in_post_action EXCEPT ![q] = TRUE]
         /\ internal' = [internal EXCEPT ![q] = TRUE]
         /\ attached' = [attached EXCEPT ![q] = FALSE]
         /\ loc' = [loc EXCEPT ![q] = denied_url[loc[q]]]
         /\ denied_url[loc[q]] \in Locations
         /\ pc' = [pc EXCEPT ![q] = "rewrite"]
         /\ worker' = q /\ count' = count
    BY <1>4, ConstantsAssumption DEF OutOfMemory, Finalize, IInv, TypeOK
  <2>a. TypeOK'
    BY <1>1, <1>2, <1>3, <2>1 DEF IInv, TypeOK, Places, Context, inputVars,
      sharedVars, historyVars
  <2>b. ASSUME NEW p \in Requests PROVE RequestInv(p)'
    BY <1>1, <1>2, <1>3, <2>1 DEF IInv, TypeOK, Places, Context, inputVars,
      sharedVars, historyVars, RequestInv, AwaitingBody, FirstRunAlone,
      ContextKept, DenialKept, HistoryFollows, Denies
  <2>c. ReferencesExact'
    <3>1. (count[q] = References(q))'
      BY <1>1, <1>2, <1>3, <2>1 DEF IInv, TypeOK, Places, Context, inputVars,
        sharedVars, historyVars, RequestInv, AwaitingBody, FirstRunAlone,
        ReferencesExact, References
    <3>2. ASSUME NEW p \in Requests, p # q
          PROVE  (count[p] = References(p))'
      <4>1. UNCHANGED <<pc[p], count[p], outer[p], active[p], ctx[p]>>
        BY <1>1, <1>2, <1>3, <2>1, <3>2 DEF IInv, TypeOK, inputVars,
          sharedVars, historyVars
      <4>. QED BY <4>1 DEF IInv, ReferencesExact, References
    <3>. QED BY <3>1, <3>2 DEF ReferencesExact
  <2>d. NoBypass'
    BY <1>1, <1>2, <1>3, <2>1 DEF IInv, TypeOK, Places, Context, inputVars,
      sharedVars, historyVars, RequestInv, AwaitingBody, FirstRunAlone,
      ContextKept, DenialKept, Denies, NoBypass, RunsHere
  <2>e. VerdictHonoured'
    BY <1>1, <1>2, <1>3, <2>1 DEF IInv, TypeOK, Places, Context, inputVars,
      sharedVars, historyVars, RequestInv, AwaitingBody, FirstRunAlone,
      ContextKept, DenialKept, Denies, VerdictHonoured
  <2>. QED BY <2>a, <2>b, <2>c, <2>d, <2>e DEF IInv
<1>5. CASE ~PostActionDue(q)
  <2>1. /\ pc' = [pc EXCEPT ![q] = "freed"]
         /\ attached' = [attached EXCEPT ![q] = FALSE]
         /\ count' = [count EXCEPT ![q] = @ - 1]
         /\ worker' \in {q, NoRequest}
         /\ in_post_action' = in_post_action /\ internal' = internal /\ loc' = loc
    BY <1>2, <1>5 DEF OutOfMemory, Finalize, IInv, TypeOK
  <2>a. TypeOK'
    BY <1>1, <1>2, <1>3, <2>1 DEF IInv, TypeOK, Places, Context, inputVars,
      sharedVars, historyVars
  <2>b. ASSUME NEW p \in Requests PROVE RequestInv(p)'
    BY <1>1, <1>2, <1>3, <2>1 DEF IInv, TypeOK, Places, Context, inputVars,
      sharedVars, historyVars, RequestInv, AwaitingBody, FirstRunAlone,
      ContextKept, DenialKept, HistoryFollows, Denies
  <2>c. ReferencesExact'
    <3>1. (count[q] = References(q))'
      BY <1>1, <1>2, <1>3, <2>1 DEF IInv, TypeOK, Places, Context, inputVars,
        sharedVars, historyVars, RequestInv, AwaitingBody, FirstRunAlone,
        ReferencesExact, References
    <3>2. ASSUME NEW p \in Requests, p # q
          PROVE  (count[p] = References(p))'
      <4>1. UNCHANGED <<pc[p], count[p], outer[p], active[p], ctx[p]>>
        BY <1>1, <1>2, <1>3, <2>1, <3>2 DEF IInv, TypeOK, inputVars,
          sharedVars, historyVars
      <4>. QED BY <4>1 DEF IInv, ReferencesExact, References
    <3>. QED BY <3>1, <3>2 DEF ReferencesExact
  <2>d. NoBypass'
    BY <1>1, <1>2, <1>3, <2>1 DEF IInv, TypeOK, Places, Context, inputVars,
      sharedVars, historyVars, RequestInv, AwaitingBody, FirstRunAlone,
      ContextKept, DenialKept, Denies, NoBypass, RunsHere
  <2>e. VerdictHonoured'
    BY <1>1, <1>2, <1>3, <2>1 DEF IInv, TypeOK, Places, Context, inputVars,
      sharedVars, historyVars, RequestInv, AwaitingBody, FirstRunAlone,
      ContextKept, DenialKept, Denies, VerdictHonoured
  <2>. QED BY <2>a, <2>b, <2>c, <2>d, <2>e DEF IInv
<1>. QED BY <1>4, <1>5

\* Reading the body fails at once: the request fails with its status.
LEMMA BodyErrorIInv ==
  ASSUME IInv, NEW q \in Requests, AtHandler(q), RunsHere(q), ~attached[q],
         NEW c \in Context, ~c.over, ~c.wait_for_body, ~c.block,
         BodyError(q, c)
  PROVE  IInv'
<1>1. /\ pc[q] = "rewrite" /\ ~internal[q] /\ ~ctx[q].wait_for_body
      /\ UNCHANGED <<outer, inputVars, active, hops, sharedVars, historyVars>>
  BY DEF BodyError, Failed, AtHandler, RunsHere, IInv, RequestInv, AwaitingBody
<1>2. count[q] = 1 /\ outer[q] = 0 /\ active[q] = 0 /\ q # NoRequest
  BY <1>1, ConstantsAssumption
  DEF IInv, TypeOK, RequestInv, FirstRunAlone, ReferencesExact, References
<1>3. /\ ctx' = [ctx EXCEPT ![q] = c]
      /\ created' = [created EXCEPT ![q] = TRUE]
      /\ ~attached[q] /\ ~ctx[q].over
  BY <1>1 DEF BodyError, Failed, IInv, TypeOK, RequestInv, ContextKept
<1>4. CASE PostActionDue(q)
  <2>1. /\ in_post_action' = [in_post_action EXCEPT ![q] = TRUE]
         /\ internal' = [internal EXCEPT ![q] = TRUE]
         /\ attached' = [attached EXCEPT ![q] = FALSE]
         /\ loc' = [loc EXCEPT ![q] = denied_url[loc[q]]]
         /\ denied_url[loc[q]] \in Locations
         /\ pc' = [pc EXCEPT ![q] = "rewrite"]
         /\ worker' = q /\ count' = count
    BY <1>4, ConstantsAssumption DEF BodyError, Failed, Finalize, IInv, TypeOK
  <2>a. TypeOK'
    BY <1>1, <1>2, <1>3, <2>1 DEF IInv, TypeOK, Places, Context, inputVars,
      sharedVars, historyVars
  <2>b. ASSUME NEW p \in Requests PROVE RequestInv(p)'
    BY <1>1, <1>2, <1>3, <2>1 DEF IInv, TypeOK, Places, Context, inputVars,
      sharedVars, historyVars, RequestInv, AwaitingBody, FirstRunAlone,
      ContextKept, DenialKept, HistoryFollows, Denies
  <2>c. ReferencesExact'
    <3>1. (count[q] = References(q))'
      BY <1>1, <1>2, <1>3, <2>1 DEF IInv, TypeOK, Places, Context, inputVars,
        sharedVars, historyVars, RequestInv, AwaitingBody, FirstRunAlone,
        ReferencesExact, References
    <3>2. ASSUME NEW p \in Requests, p # q
          PROVE  (count[p] = References(p))'
      <4>1. UNCHANGED <<pc[p], count[p], outer[p], active[p], ctx[p]>>
        BY <1>1, <1>2, <1>3, <2>1, <3>2 DEF IInv, TypeOK, inputVars,
          sharedVars, historyVars
      <4>. QED BY <4>1 DEF IInv, ReferencesExact, References
    <3>. QED BY <3>1, <3>2 DEF ReferencesExact
  <2>d. NoBypass'
    BY <1>1, <1>2, <1>3, <2>1 DEF IInv, TypeOK, Places, Context, inputVars,
      sharedVars, historyVars, RequestInv, AwaitingBody, FirstRunAlone,
      ContextKept, DenialKept, Denies, NoBypass, RunsHere
  <2>e. VerdictHonoured'
    BY <1>1, <1>2, <1>3, <2>1 DEF IInv, TypeOK, Places, Context, inputVars,
      sharedVars, historyVars, RequestInv, AwaitingBody, FirstRunAlone,
      ContextKept, DenialKept, Denies, VerdictHonoured
  <2>. QED BY <2>a, <2>b, <2>c, <2>d, <2>e DEF IInv
<1>5. CASE ~PostActionDue(q)
  <2>1. /\ pc' = [pc EXCEPT ![q] = "freed"]
         /\ attached' = [attached EXCEPT ![q] = TRUE]
         /\ count' = [count EXCEPT ![q] = @ - 1]
         /\ worker' \in {q, NoRequest}
         /\ in_post_action' = in_post_action /\ internal' = internal /\ loc' = loc
    BY <1>2, <1>5 DEF BodyError, Failed, Finalize, IInv, TypeOK
  <2>a. TypeOK'
    BY <1>1, <1>2, <1>3, <2>1 DEF IInv, TypeOK, Places, Context, inputVars,
      sharedVars, historyVars
  <2>b. ASSUME NEW p \in Requests PROVE RequestInv(p)'
    BY <1>1, <1>2, <1>3, <2>1 DEF IInv, TypeOK, Places, Context, inputVars,
      sharedVars, historyVars, RequestInv, AwaitingBody, FirstRunAlone,
      ContextKept, DenialKept, HistoryFollows, Denies
  <2>c. ReferencesExact'
    <3>1. (count[q] = References(q))'
      BY <1>1, <1>2, <1>3, <2>1 DEF IInv, TypeOK, Places, Context, inputVars,
        sharedVars, historyVars, RequestInv, AwaitingBody, FirstRunAlone,
        ReferencesExact, References
    <3>2. ASSUME NEW p \in Requests, p # q
          PROVE  (count[p] = References(p))'
      <4>1. UNCHANGED <<pc[p], count[p], outer[p], active[p], ctx[p]>>
        BY <1>1, <1>2, <1>3, <2>1, <3>2 DEF IInv, TypeOK, inputVars,
          sharedVars, historyVars
      <4>. QED BY <4>1 DEF IInv, ReferencesExact, References
    <3>. QED BY <3>1, <3>2 DEF ReferencesExact
  <2>d. NoBypass'
    BY <1>1, <1>2, <1>3, <2>1 DEF IInv, TypeOK, Places, Context, inputVars,
      sharedVars, historyVars, RequestInv, AwaitingBody, FirstRunAlone,
      ContextKept, DenialKept, Denies, NoBypass, RunsHere
  <2>e. VerdictHonoured'
    BY <1>1, <1>2, <1>3, <2>1 DEF IInv, TypeOK, Places, Context, inputVars,
      sharedVars, historyVars, RequestInv, AwaitingBody, FirstRunAlone,
      ContextKept, DenialKept, Denies, VerdictHonoured
  <2>. QED BY <2>a, <2>b, <2>c, <2>d, <2>e DEF IInv
<1>. QED BY <1>4, <1>5


\* How Inspect leaves a request whose context is now v.
Outcome(q, v) ==
  \/ Failed(q) /\ UNCHANGED <<post_action, denied>>
  \/ /\ Declined(q) /\ ~Denies(v) /\ UNCHANGED denied
     /\ post_action' \in [Locations -> BOOLEAN]
  \/ /\ InternalRedirect(q) /\ Denies(v) /\ UNCHANGED post_action
     /\ denied' = [denied EXCEPT ![q] = TRUE]

\* Inspection sets over, counts, and leaves the request by one of three exits.
LEMMA InspectDecides ==
  ASSUME IInv, NEW q \in Requests, NEW c \in Context, Inspect(q, c)
  PROVE  \E v \in Context :
           /\ v.over /\ v.wait_for_body = c.wait_for_body
           /\ ctx' = [ctx EXCEPT ![q] = v]
           /\ request_blocked' =
                [request_blocked EXCEPT
                   ![loc[q]] = IF Stopped(v) THEN @ + 1 ELSE @]
           /\ Outcome(q, v)
<1>1. PICK block \in BOOLEAN, drop \in BOOLEAN :
        LET v == [c EXCEPT !.over = TRUE, !.block = block, !.drop = drop]
        IN /\ ctx' = [ctx EXCEPT ![q] = v]
           /\ request_blocked' =
                [request_blocked EXCEPT
                   ![loc[q]] = IF Stopped(v) THEN @ + 1 ELSE @]
           /\ \/ Stopped(v) /\ output_forbidden_page(q, v)
              \/ ~Stopped(v) /\ Declined(q) /\ UNCHANGED <<post_action, denied>>
  BY DEF Inspect
<1>. DEFINE v == [c EXCEPT !.over = TRUE, !.block = block, !.drop = drop]
<1>2. v \in Context /\ v.over /\ v.wait_for_body = c.wait_for_body
  BY DEF Context
<1>3. /\ ctx' = [ctx EXCEPT ![q] = v]
      /\ request_blocked' =
           [request_blocked EXCEPT ![loc[q]] = IF Stopped(v) THEN @ + 1 ELSE @]
      /\ \/ Stopped(v) /\ output_forbidden_page(q, v)
         \/ ~Stopped(v) /\ Declined(q) /\ UNCHANGED <<post_action, denied>>
  BY <1>1
<1>. HIDE DEF v
<1>4. Outcome(q, v)
  BY <1>2, <1>3 DEF Outcome, output_forbidden_page, KeptInLearning, Stopped,
    Denies, Context, IInv, TypeOK
<1>. QED BY <1>2, <1>3, <1>4

\* Inspection, and what follows from the verdict.
LEMMA InspectIInv ==
  ASSUME IInv, NEW q \in Requests, AtHandler(q), RunsHere(q), ~ctx[q].over,
         ~ctx[q].wait_for_body, NEW c \in Context, ~c.wait_for_body, Inspect(q, c)
  PROVE  IInv'
<1>1. count[q] = 1 /\ outer[q] = 0 /\ q # NoRequest
  BY ConstantsAssumption DEF AtHandler, RunsHere, IInv, TypeOK, RequestInv,
    FirstRunAlone, ReferencesExact, References
<1>2. PICK v \in Context :
        /\ v.over /\ ~v.wait_for_body /\ ctx' = [ctx EXCEPT ![q] = v]
        /\ created' = [created EXCEPT ![q] = TRUE]
        /\ inspections' = [inspections EXCEPT ![q] = @ + 1]
        /\ inspected_at' = [inspected_at EXCEPT ![q] = loc[q]]
        /\ UNCHANGED <<inputVars, active, hops, at_origin>>
        /\ Outcome(q, v)
  BY InspectDecides DEF Inspect
<1>3. /\ request_processed' \in [Locations -> Nat]
      /\ request_blocked' \in [Locations -> Nat]
  BY DEF Inspect, IInv, TypeOK
<1>4. /\ post_action' \in [Locations -> BOOLEAN]
      /\ denied' \in [Requests -> BOOLEAN]
  BY <1>2 DEF Outcome, IInv, TypeOK
<1>5. loc' \in [Requests -> Locations]
  BY <1>2, ConstantsAssumption DEF Outcome, Declined, Failed, Finalize,
    InternalRedirect, IInv, TypeOK
<1>6. /\ internal' \in [Requests -> BOOLEAN]
      /\ in_post_action' \in [Requests -> BOOLEAN]
  BY <1>2 DEF Outcome, Declined, Failed, Finalize, InternalRedirect, IInv,
    TypeOK
<1>7. /\ pc' \in [Requests -> Places]
      /\ attached' \in [Requests -> BOOLEAN]
  BY <1>2 DEF Outcome, Declined, Failed, Finalize, InternalRedirect, IInv,
    TypeOK, Places
<1>8. worker' \in Requests \cup {NoRequest}
  BY <1>2 DEF Outcome, Declined, Failed, Finalize, InternalRedirect, IInv,
    TypeOK
<1>9. count' \in [Requests -> Nat] /\ outer' \in [Requests -> Nat]
  BY <1>1, <1>2 DEF Outcome, Declined, Failed, Finalize, InternalRedirect, IInv,
    TypeOK
<1>10. /\ ctx'[q] = v /\ inspected_at'[q] \in Locations /\ inspections'[q] = 1
       /\ created'[q]
       /\ outer'[q] \in Nat /\ active'[q] = 0 /\ at_origin'[q] = FALSE
       /\ loc'[q] = loc[q] \/ internal'[q]
       /\ \/ /\ pc'[q] = "freed" /\ ~internal'[q] /\ denied'[q] = FALSE
             /\ count'[q] = 0 /\ outer'[q] = 0
          \/ /\ pc'[q] = "rewrite" /\ internal'[q] /\ denied'[q] = FALSE
             /\ count'[q] = 1 /\ outer'[q] = 0
          \/ /\ pc'[q] = "later" /\ ~internal'[q] /\ denied'[q] = FALSE
             /\ attached'[q] /\ ~Denies(v) /\ count'[q] = 1 /\ outer'[q] = 0
          \/ /\ pc'[q] = "rewrite" /\ internal'[q] /\ denied'[q] = TRUE
             /\ Denies(v) /\ count'[q] = 2 /\ outer'[q] = 1
  <2>1. /\ pc[q] = "rewrite" /\ ~internal[q] /\ active[q] = 0 /\ loc[q] \in Locations
        /\ inspections[q] = 0 /\ denied[q] = FALSE /\ at_origin[q] = FALSE
    BY DEF AtHandler, RunsHere, IInv, TypeOK, VerdictHonoured, RequestInv,
      FirstRunAlone, DenialKept, HistoryFollows
  <2>2. CASE Failed(q) /\ UNCHANGED denied
    BY <1>1, <1>2, <2>1, <2>2 DEF Failed, Finalize, IInv, TypeOK
  <2>3. CASE Declined(q) /\ ~Denies(v) /\ UNCHANGED denied
    BY <1>1, <1>2, <2>1, <2>3 DEF Declined, IInv, TypeOK
  <2>4. CASE InternalRedirect(q) /\ Denies(v) /\ denied' = [denied EXCEPT ![q] = TRUE]
    BY <1>1, <1>2, <2>1, <2>4 DEF InternalRedirect, IInv, TypeOK
  <2>. QED BY <1>2, <2>2, <2>3, <2>4 DEF Outcome
<1>11. ASSUME NEW p \in Requests, p # q
       PROVE  UNCHANGED <<pc[p], loc[p], enable_flag[p], internal[p], attached[p],
                          ctx[p], count[p], outer[p], active[p], inspections[p],
                          inspected_at[p], at_origin[p], denied[p], created[p]>>
  BY <1>2, <1>11 DEF Outcome, Declined, Failed, Finalize, InternalRedirect,
    inputVars, IInv, TypeOK
<1>12. /\ ctx' \in [Requests -> Context] /\ created' \in [Requests -> BOOLEAN]
       /\ inspections' \in [Requests -> Nat]
       /\ inspected_at' \in [Requests -> Locations \cup {NoLocation}]
  BY <1>2 DEF IInv, TypeOK
<1>13. v \in Context /\ v.over /\ ~v.wait_for_body
  BY <1>2
<1>a. TypeOK'
  BY <1>2, <1>3, <1>4, <1>5, <1>6, <1>7, <1>8, <1>9, <1>12
  DEF IInv, TypeOK, inputVars
<1>b. ASSUME NEW p \in Requests PROVE RequestInv(p)'
  <2>1. CASE p = q
    BY <1>13, <1>10, <2>1, ConstantsAssumption
    DEF RequestInv, AwaitingBody, FirstRunAlone, ContextKept, DenialKept,
      HistoryFollows, Denies
  <2>2. CASE p # q
    BY <1>11, <2>2 DEF IInv, RequestInv, AwaitingBody, FirstRunAlone,
      ContextKept, DenialKept, HistoryFollows, Denies
  <2>. QED BY <2>1, <2>2
<1>c. ReferencesExact'
  BY <1>13, <1>10, <1>11 DEF IInv, ReferencesExact, References
<1>d. NoBypass'
  BY <1>13, <1>10, <1>11 DEF IInv, NoBypass, RunsHere, Denies
<1>e. VerdictHonoured'
  BY <1>13, <1>10, <1>11 DEF IInv, VerdictHonoured, Denies
<1>. QED BY <1>a, <1>b, <1>c, <1>d, <1>e DEF IInv

\* What Open does, with the context it has made.
LEMMA OpenCases ==
  ASSUME IInv, NEW q \in Requests, Open(q)
  PROVE  \E c \in Context :
           /\ ~c.over /\ ~c.wait_for_body /\ ~c.ready /\ ~c.block
           /\ \/ ~c.enabled /\ SwitchedOff(q, c)
              \/ Inspect(q, [c EXCEPT !.ready = TRUE])
              \/ AwaitBody(q, c)
              \/ BodyError(q, c)
<1>1. PICK learning_flag \in LearningFlags, post_action_flag \in PostActionFlags :
        LET c == [ZeroContext EXCEPT
                    !.enabled = Override(enable_flag[q], enabled[loc[q]]),
                    !.learning = Override(learning_flag, learning[loc[q]]),
                    !.post_action = Override(post_action_flag, FALSE)]
        IN \/ ~c.enabled /\ SwitchedOff(q, c)
           \/ c.enabled /\ Inspect(q, [c EXCEPT !.ready = TRUE])
           \/ c.enabled /\ has_body[q] /\ AwaitBody(q, c)
           \/ c.enabled /\ has_body[q] /\ BodyError(q, c)
  BY DEF Open
<1>. DEFINE c == [ZeroContext EXCEPT
                    !.enabled = Override(enable_flag[q], enabled[loc[q]]),
                    !.learning = Override(learning_flag, learning[loc[q]]),
                    !.post_action = Override(post_action_flag, FALSE)]
<1>2. /\ Override(enable_flag[q], enabled[loc[q]]) \in BOOLEAN
      /\ Override(learning_flag, learning[loc[q]]) \in BOOLEAN
      /\ Override(post_action_flag, FALSE) \in BOOLEAN
  BY ConstantsAssumption DEF IInv, TypeOK, Override
<1>3. c \in Context /\ ~c.over /\ ~c.wait_for_body /\ ~c.ready /\ ~c.block
  BY <1>2 DEF Context, ZeroContext
<1>4. \/ ~c.enabled /\ SwitchedOff(q, c)
      \/ Inspect(q, [c EXCEPT !.ready = TRUE])
      \/ AwaitBody(q, c)
      \/ BodyError(q, c)
  BY <1>1
<1>. HIDE DEF c
<1>. QED BY <1>3, <1>4

\* A context is made for requests that have not been inspected.
LEMMA OpenFresh ==
  ASSUME IInv, NEW q \in Requests, AtHandler(q), ~attached[q], RunsHere(q)
  PROVE  ~ctx[q].over /\ ~ctx[q].wait_for_body
  BY DEF IInv, AtHandler, RunsHere, RequestInv, AwaitingBody, ContextKept

\* The first call for a request, whatever its flags.
LEMMA OpenIInv ==
  ASSUME IInv, NEW q \in Requests, Open(q)
  PROVE  IInv'
<1>1. AtHandler(q) /\ ~attached[q] /\ RunsHere(q)
  BY DEF Open
<1>2. PICK c \in Context :
        /\ ~c.over /\ ~c.wait_for_body /\ ~c.ready /\ ~c.block
        /\ \/ ~c.enabled /\ SwitchedOff(q, c)
           \/ Inspect(q, [c EXCEPT !.ready = TRUE])
           \/ AwaitBody(q, c)
           \/ BodyError(q, c)
  BY OpenCases
<1>3. CASE ~c.enabled /\ SwitchedOff(q, c)
  BY <1>1, <1>2, <1>3, SwitchedOffIInv
<1>4. CASE Inspect(q, [c EXCEPT !.ready = TRUE])
  <2>. DEFINE d == [c EXCEPT !.ready = TRUE]
  <2>1. d \in Context /\ ~d.wait_for_body /\ Inspect(q, d)
    BY <1>2, <1>4 DEF Context
  <2>. HIDE DEF d
  <2>. QED BY <1>1, <2>1, OpenFresh, InspectIInv
<1>5. CASE AwaitBody(q, c)
  BY <1>1, <1>2, <1>5, AwaitBodyIInv
<1>6. CASE BodyError(q, c)
  BY <1>1, <1>2, <1>6, BodyErrorIInv
<1>. QED BY <1>2, <1>3, <1>4, <1>5, <1>6

\* The call made when the awaited body is there.
LEMMA ResumeIInv ==
  ASSUME IInv, NEW q \in Requests, Resume(q)
  PROVE  IInv'
<1>1. /\ AtHandler(q) /\ RunsHere(q) /\ ~ctx[q].over /\ ~ctx[q].wait_for_body
      /\ ctx[q] \in Context /\ Inspect(q, ctx[q])
  BY DEF Resume, Due, IInv, TypeOK, RequestInv, AwaitingBody
<1>. QED BY <1>1, InspectIInv

\* IInv is inductive: every step of nginx and of naxsi preserves it.
THEOREM NextIInv == IInv /\ [Next]_vars => IInv'
<1>. SUFFICES ASSUME IInv, [Next]_vars
              PROVE  IInv'
  OBVIOUS
<1>1. CASE UNCHANGED vars
  BY <1>1 DEF vars, inputVars, ctxVars, sharedVars, historyVars, IInv, TypeOK,
    ReferencesExact, References, NoBypass, RunsHere, VerdictHonoured, Denies,
    RequestInv, AwaitingBody, FirstRunAlone, ContextKept, DenialKept,
    HistoryFollows
<1>2. ASSUME NEW q \in Requests, Nginx(q)
      PROVE  IInv'
  BY <1>2, ArriveIInv, RewriteUriIInv, NginxRedirectIInv, StartContentIInv,
    ContentDoneIInv, FinishOuterIInv, BodyAbortedIInv, PhasesRerunIInv
  DEF Nginx
<1>3. ASSUME NEW q \in Requests, Naxsi(q)
      PROVE  IInv'
  BY <1>3, SkipIInv, StillWaitingIInv, OpenIInv, OutOfMemoryIInv, ResumeIInv,
    payload_handlerIInv
  DEF Naxsi, access_handler
<1>. QED BY <1>1, <1>2, <1>3 DEF Next

\* IInv holds throughout every behaviour of the module in nginx.
THEOREM SpecIInv == Spec => []IInv
  BY InitIInv, NextIInv, PTL DEF Spec

-----------------------------------------------------------------------------
(***************************************************************************)
(* What the module guarantees.                                             *)
(***************************************************************************)

\* Every variable keeps its type: in particular no count, and no number of
\* suspended phase runs or content handlers, goes below zero.
THEOREM TypeCorrect == Spec => []TypeOK
  BY SpecIInv, PTL DEF IInv

\* No request passes a guarded location uninspected or against its verdict.
THEOREM NeverBypassed == Spec => []NoBypass
  BY SpecIInv, PTL DEF IInv

\* Denied requests, and only they, are kept from the resource.
THEOREM VerdictsHonoured == Spec => []VerdictHonoured
  BY SpecIInv, PTL DEF IInv

\* A request is freed when its last user is done, not before.
THEOREM CountsExact == Spec => []ReferencesExact
  BY SpecIInv, PTL DEF IInv

\* However its phases are run again, a request is inspected at most once.
THEOREM AtMostOneInspection == Spec => []InspectedOnce
<1>1. IInv => InspectedOnce
  BY DEF IInv, TypeOK, RequestInv, HistoryFollows, InspectedOnce
<1>. QED BY <1>1, SpecIInv, PTL

\* The body callback finds the context it dereferences.
THEOREM BodyFindsContext == Spec => []BodyHasContext
<1>1. IInv => BodyHasContext
  BY DEF IInv, RequestInv, AwaitingBody, BodyHasContext
<1>. QED BY <1>1, SpecIInv, PTL

\* $naxsi_attack_action tells every inspected request's verdict, on the denied
\* page and after post actions too, and no other request's.
THEOREM ActionExported == Spec => []ActionIsExported
<1>1. ASSUME IInv, NEW q \in Requests, pc[q] # "freed"
      PROVE  /\ ctx[q].over => attack_action(q) # "not_found"
             /\ denied[q] /\ ~ctx[q].drop => attack_action(q) = "$BLOCK"
             /\ attack_action(q) = "$BLOCK" => ctx[q].over /\ Denies(ctx[q])
  <2>1. /\ ctx[q].over => recover_request_ctx(q)
        /\ ctx[q].block => ctx[q].over
    BY <1>1 DEF IInv, RequestInv, ContextKept, HistoryFollows, recover_request_ctx
  <2>2. denied[q] => ctx[q].over /\ Denies(ctx[q])
    BY <1>1 DEF IInv, VerdictHonoured
  <2>. QED BY <2>1, <2>2 DEF attack_action, Denies
<1>2. IInv => ActionIsExported
  BY <1>1 DEF ActionIsExported
<1>. QED BY <1>2, SpecIInv, PTL

\* Every step either inspects its request, not inspected before, or leaves
\* contexts undecided, counters and histories of inspection as they are.
Undecided(q) ==
  /\ \/ ctx' = ctx
     \/ \E c \in Context : /\ ~ctx[q].over /\ ~c.over
                           /\ ctx' = [ctx EXCEPT ![q] = c]
  /\ UNCHANGED <<inspected_at, request_processed, request_blocked, denied>>

InspectedNow(q) ==
  /\ AtHandler(q) /\ RunsHere(q) /\ ~ctx[q].over
  /\ \E c \in Context : Inspect(q, c)

\* Every step of a request is of one of these two kinds.
LEMMA StepKinds ==
  ASSUME IInv, NEW q \in Requests, Nginx(q) \/ Naxsi(q)
  PROVE  Undecided(q) \/ InspectedNow(q)
<1>1. CASE Nginx(q)
  BY <1>1 DEF Nginx, Arrive, RewriteUri, NginxRedirect, StartContent,
    ContentDone, FinishOuter, BodyAborted, PhasesRerun, Undecided, ctxVars,
    sharedVars, historyVars
<1>2. CASE Skip(q) \/ StillWaiting(q) \/ OutOfMemory(q)
  BY <1>2 DEF Skip, StillWaiting, OutOfMemory, Undecided, ctxVars, sharedVars,
    historyVars
<1>3. CASE payload_handler(q)
  <2>. ctx[q] \in Context
    BY DEF IInv, TypeOK
  <2>1. [ctx[q] EXCEPT !.ready = TRUE, !.wait_for_body = FALSE] \in Context
    BY DEF Context
  <2>2. ~ctx[q].over
    BY <1>3 DEF payload_handler, IInv, RequestInv, AwaitingBody
  <2>3. ~([ctx[q] EXCEPT !.ready = TRUE, !.wait_for_body = FALSE]).over
    BY <2>2 DEF IInv, TypeOK, Context
  <2>. QED BY <1>3, <2>1, <2>2, <2>3 DEF payload_handler, Undecided, sharedVars,
         historyVars
<1>4. CASE Resume(q)
  BY <1>4 DEF Resume, Due, InspectedNow, IInv, TypeOK
<1>5. CASE Open(q)
  <2>1. AtHandler(q) /\ RunsHere(q) /\ ~ctx[q].over
    BY <1>5, OpenFresh DEF Open
  <2>2. PICK c \in Context :
          /\ ~c.over
          /\ \/ SwitchedOff(q, c)
             \/ Inspect(q, [c EXCEPT !.ready = TRUE])
             \/ AwaitBody(q, c)
             \/ BodyError(q, c)
    BY <1>5, OpenCases
  <2>3. [c EXCEPT !.ready = TRUE] \in Context
    BY DEF Context
  <2>4. /\ [c EXCEPT !.wait_for_body = TRUE] \in Context
        /\ ~([c EXCEPT !.wait_for_body = TRUE]).over
    BY <2>2 DEF Context
  <2>5. CASE Inspect(q, [c EXCEPT !.ready = TRUE])
    BY <2>1, <2>3, <2>5 DEF InspectedNow
  <2>6. CASE AwaitBody(q, c)
    BY <2>1, <2>4, <2>6 DEF AwaitBody, Undecided, sharedVars, historyVars
  <2>7. CASE SwitchedOff(q, c) \/ BodyError(q, c)
    BY <2>1, <2>2, <2>7 DEF SwitchedOff, BodyError, Undecided, sharedVars,
      historyVars
  <2>. QED BY <2>2, <2>5, <2>6, <2>7
<1>. QED BY <1>1, <1>2, <1>3, <1>4, <1>5 DEF Naxsi, access_handler

\* A verdict is never revised: no step changes an inspected context.
THEOREM VerdictsFinal == Spec => VerdictFinal
<1>1. ASSUME IInv, [Next]_vars
      PROVE  [\A q \in Requests : ctx[q].over => ctx'[q] = ctx[q]]_vars
  <2>1. CASE UNCHANGED vars
    BY <2>1 DEF vars
  <2>2. ASSUME NEW q \in Requests, Nginx(q) \/ Naxsi(q)
        PROVE  \A p \in Requests : ctx[p].over => ctx'[p] = ctx[p]
    <3>1. CASE Undecided(q)
      BY <1>1, <3>1 DEF Undecided, IInv, TypeOK
    <3>2. CASE InspectedNow(q)
      BY <1>1, <3>2 DEF InspectedNow, Inspect, IInv, TypeOK
    <3>. QED BY <1>1, <2>2, <3>1, <3>2, StepKinds
  <2>. QED BY <1>1, <2>1, <2>2 DEF Next
<1>. QED BY <1>1, SpecIInv, PTL DEF Spec, VerdictFinal

(***************************************************************************)
(* The counters.                                                           *)
(***************************************************************************)
InspectedIn(l) == {q \in Requests : inspected_at[q] = l}
StoppedIn(l) == {q \in InspectedIn(l) : ctx[q].block \/ ctx[q].drop}

\* What is counted is finite.
LEMMA CountingFinite ==
  ASSUME NEW l \in Locations
  PROVE  IsFiniteSet(InspectedIn(l)) /\ IsFiniteSet(StoppedIn(l))
  BY ConstantsAssumption, FS_Subset DEF InspectedIn, StoppedIn

\* Only inspected requests are counted.
LEMMA CountedBefore ==
  ASSUME IInv, NEW q \in Requests, NEW l \in Locations, inspected_at[q] = l
  PROVE  ctx[q].over
  BY DEF IInv, RequestInv, HistoryFollows

\* A step moves a counter exactly when it moves what is counted.
LEMMA CountersStep == IInv /\ CountersAgree /\ [Next]_vars => CountersAgree'
<1>. SUFFICES ASSUME IInv, CountersAgree, [Next]_vars, NEW l \in Locations
              PROVE  /\ request_processed'[l] = Cardinality(InspectedIn(l)')
                     /\ request_blocked'[l] = Cardinality(StoppedIn(l)')
  BY DEF CountersAgree, InspectedIn, StoppedIn
<1>1. /\ request_processed[l] = Cardinality(InspectedIn(l))
      /\ request_blocked[l] = Cardinality(StoppedIn(l))
  BY DEF CountersAgree, InspectedIn, StoppedIn
<1>2. CASE UNCHANGED vars
  BY <1>1, <1>2 DEF vars, sharedVars, ctxVars, historyVars, InspectedIn,
    StoppedIn
<1>3. ASSUME NEW q \in Requests, Undecided(q)
      PROVE  /\ request_processed'[l] = Cardinality(InspectedIn(l)')
             /\ request_blocked'[l] = Cardinality(StoppedIn(l)')
  <2>1. InspectedIn(l)' = InspectedIn(l)
    BY <1>3 DEF Undecided, InspectedIn
  <2>2. StoppedIn(l)' = StoppedIn(l)
    <3>1. ASSUME NEW p \in InspectedIn(l) PROVE ctx'[p] = ctx[p]
      BY <1>3, CountedBefore DEF Undecided, InspectedIn, IInv, TypeOK
    <3>. QED BY <2>1, <3>1 DEF StoppedIn
  <2>. QED BY <1>1, <1>3, <2>1, <2>2 DEF Undecided
<1>4. ASSUME NEW q \in Requests, InspectedNow(q)
      PROVE  /\ request_processed'[l] = Cardinality(InspectedIn(l)')
             /\ request_blocked'[l] = Cardinality(StoppedIn(l)')
  <2>1. PICK v \in Context :
          /\ v.over /\ ctx' = [ctx EXCEPT ![q] = v]
          /\ inspected_at' = [inspected_at EXCEPT ![q] = loc[q]]
          /\ request_processed' = [request_processed EXCEPT ![loc[q]] = @ + 1]
          /\ request_blocked' =
               [request_blocked EXCEPT ![loc[q]] = IF Stopped(v) THEN @ + 1 ELSE @]
    BY <1>4, InspectDecides DEF InspectedNow, Inspect
  <2>2. q \notin InspectedIn(l) /\ loc[q] \in Locations
    BY <1>4, CountedBefore DEF InspectedNow, InspectedIn, IInv, TypeOK
  <2>3. CASE l # loc[q]
    <3>1. InspectedIn(l)' = InspectedIn(l) /\ StoppedIn(l)' = StoppedIn(l)
      BY <2>1, <2>2, <2>3 DEF InspectedIn, StoppedIn, IInv, TypeOK
    <3>. QED BY <1>1, <2>1, <2>2, <2>3, <3>1 DEF IInv, TypeOK
  <2>4. CASE l = loc[q]
    <3>1. InspectedIn(l)' = InspectedIn(l) \cup {q}
      BY <2>1, <2>4 DEF InspectedIn, IInv, TypeOK
    <3>2. StoppedIn(l)' = IF Stopped(v) THEN StoppedIn(l) \cup {q} ELSE StoppedIn(l)
      BY <2>1, <2>2, <3>1 DEF StoppedIn, InspectedIn, Stopped, IInv, TypeOK
    <3>3. /\ Cardinality(InspectedIn(l) \cup {q}) = Cardinality(InspectedIn(l)) + 1
          /\ Cardinality(StoppedIn(l) \cup {q}) = Cardinality(StoppedIn(l)) + 1
      BY <2>2, CountingFinite, FS_AddElement DEF StoppedIn
    <3>. QED BY <1>1, <2>1, <2>4, <3>1, <3>2, <3>3 DEF IInv, TypeOK
  <2>. QED BY <2>3, <2>4
<1>. QED BY <1>2, <1>3, <1>4, StepKinds DEF Next

\* The exported counters are exact, for any number of requests.
THEOREM CountersExact == Spec => []CountersAgree
<1>1. Init => CountersAgree
  <2>. SUFFICES ASSUME Init, NEW l \in Locations
                PROVE  /\ request_processed[l] = Cardinality(InspectedIn(l))
                       /\ request_blocked[l] = Cardinality(StoppedIn(l))
    BY DEF CountersAgree, InspectedIn, StoppedIn
  <2>1. request_processed[l] = 0 /\ request_blocked[l] = 0
    BY DEF Init
  <2>2. inspected_at = [q \in Requests |-> NoLocation]
    BY DEF Init
  <2>3. InspectedIn(l) = {} /\ StoppedIn(l) = {}
    BY <2>2, ConstantsAssumption DEF InspectedIn, StoppedIn
  <2>. QED BY <2>1, <2>3, FS_EmptySet
<1>. QED BY <1>1, CountersStep, SpecIInv, PTL DEF Spec

(***************************************************************************)
(* The handlers implement the gate.                                        *)
(***************************************************************************)
\* The ways out of the two calls that may inspect.
LEMMA OpenOrResume ==
  ASSUME IInv, NEW q \in Requests, Open(q) \/ Resume(q)
  PROVE  \E c : \/ SwitchedOff(q, c) \/ Inspect(q, c)
                \/ AwaitBody(q, c) \/ BodyError(q, c)
<1>1. CASE Open(q)
  BY <1>1, OpenCases
<1>2. CASE Resume(q)
  BY <1>2 DEF Resume
<1>. QED BY <1>1, <1>2

\* Before any request the gate is in its initial state.
LEMMA GateInit == Init => Gate!Init
<1>. SUFFICES ASSUME Init PROVE Gate!Init
  OBVIOUS
<1>1. /\ ctx = [q \in Requests |-> ZeroContext]
      /\ pc = [q \in Requests |-> "new"]
      /\ at_origin = [q \in Requests |-> FALSE]
      /\ denied = [q \in Requests |-> FALSE]
  BY DEF Init
<1>2. Decision(ZeroContext) = "none"
  BY DEF Decision, ZeroContext
<1>3. [q \in Requests |-> Decision(ctx[q])] = [q \in Requests |-> "none"]
  BY <1>1, <1>2
<1>4. [q \in Requests |-> pc[q] = "freed"] = [q \in Requests |-> FALSE]
  BY <1>1
<1>. QED BY <1>1, <1>3, <1>4 DEF Gate!Init

\* Every step is a step of the gate, or leaves it alone.
LEMMA GateStep == IInv /\ [Next]_vars => [Gate!Next]_Gate!vars
<1>. SUFFICES ASSUME IInv, [Next]_vars
              PROVE  [Gate!Next]_Gate!vars
  OBVIOUS
<1>. DEFINE decision == [q \in Requests |-> Decision(ctx[q])]
            gone == [q \in Requests |-> pc[q] = "freed"]
<1>1. CASE UNCHANGED vars
  BY <1>1 DEF vars, ctxVars, historyVars, Gate!vars
<1>2. ASSUME NEW q \in Requests, Undecided(q), Nginx(q) \/ Naxsi(q)
      PROVE  [Gate!Next]_Gate!vars
  <2>1. UNCHANGED decision
    BY <1>2 DEF Undecided, Decision, IInv, TypeOK
  <2>2. CASE StartContent(q) /\ ~internal[q]
    <3>1. decision[q] # "deny" /\ ~gone[q]
      BY <2>2 DEF StartContent, Decision, IInv, RequestInv, DenialKept
    <3>2. /\ at_origin' = [at_origin EXCEPT ![q] = TRUE]
          /\ UNCHANGED <<gone, denied>>
      BY <2>2 DEF StartContent, IInv, TypeOK
    <3>. QED BY <2>1, <3>1, <3>2 DEF Gate!Next, Gate!Serve, Gate!vars
  <2>3. CASE ~(StartContent(q) /\ ~internal[q])
    <3>1. UNCHANGED <<at_origin, denied>>
      <4>1. UNCHANGED denied
        BY <1>2 DEF Undecided
      <4>2. CASE Nginx(q)
        BY <2>3, <4>2 DEF Nginx, Arrive, RewriteUri, NginxRedirect, StartContent,
          ContentDone, FinishOuter, BodyAborted, PhasesRerun, historyVars, IInv,
          TypeOK
      <4>3. CASE Naxsi(q)
        <5>1. CASE Skip(q) \/ StillWaiting(q) \/ OutOfMemory(q) \/ payload_handler(q)
          BY <5>1 DEF Skip, StillWaiting, OutOfMemory, payload_handler, historyVars
        <5>2. CASE Open(q) \/ Resume(q)
          <6>1. PICK c : \/ SwitchedOff(q, c) \/ Inspect(q, c)
                         \/ AwaitBody(q, c) \/ BodyError(q, c)
            BY <5>2, OpenOrResume
          <6>2. CASE SwitchedOff(q, c) \/ AwaitBody(q, c) \/ BodyError(q, c)
            BY <6>2 DEF SwitchedOff, AwaitBody, BodyError, historyVars
          <6>3. CASE Inspect(q, c)
            BY <4>1, <6>3 DEF Inspect
          <6>. QED BY <6>1, <6>2, <6>3
        <5>. QED BY <4>3, <5>1, <5>2 DEF Naxsi, access_handler
      <4>. QED BY <1>2, <4>1, <4>2, <4>3
    <3>2. /\ pc[q] # "freed"
          /\ \E place \in Places : pc' = [pc EXCEPT ![q] = place]
      <4>1. CASE Nginx(q)
        BY <4>1 DEF Nginx, Arrive, RewriteUri, NginxRedirect, StartContent,
          ContentDone, FinishOuter, BodyAborted, PhasesRerun, Finalize, Places
      <4>2. CASE Skip(q) \/ StillWaiting(q) \/ OutOfMemory(q) \/ payload_handler(q)
        BY <4>2 DEF Skip, StillWaiting, OutOfMemory, payload_handler, AtHandler,
          Finalize, Places
      <4>3. CASE Open(q) \/ Resume(q)
        <5>1. PICK c : \/ SwitchedOff(q, c) \/ Inspect(q, c)
                       \/ AwaitBody(q, c) \/ BodyError(q, c)
          BY <4>3, OpenOrResume
        <5>2. pc[q] = "rewrite"
          BY <4>3 DEF Open, Resume, AtHandler
        <5>3. CASE AwaitBody(q, c) \/ SwitchedOff(q, c)
          BY <5>2, <5>3 DEF AwaitBody, SwitchedOff, Declined, Places
        <5>4. CASE BodyError(q, c)
          BY <5>2, <5>4 DEF BodyError, Failed, Finalize, Places
        <5>5. CASE Inspect(q, c)
          <6>1. Declined(q) \/ Failed(q) \/ InternalRedirect(q)
            BY <5>5 DEF Inspect, output_forbidden_page
          <6>. QED BY <5>2, <6>1 DEF Declined, Failed, InternalRedirect,
                 Finalize, Places
        <5>. QED BY <5>1, <5>3, <5>4, <5>5
      <4>. QED BY <1>2, <4>1, <4>2, <4>3 DEF Naxsi, access_handler
    <3>3. UNCHANGED gone \/ (~gone[q] /\ gone' = [gone EXCEPT ![q] = TRUE])
      <4>1. PICK place \in Places : pc' = [pc EXCEPT ![q] = place]
        BY <3>2
      <4>2. pc \in [Requests -> Places] /\ ~gone[q]
        BY <3>2 DEF IInv, TypeOK
      <4>3. CASE place = "freed"
        BY <4>1, <4>2, <4>3
      <4>4. CASE place # "freed"
        <5>1. ASSUME NEW p \in Requests
              PROVE  pc'[p] = "freed" <=> pc[p] = "freed"
          <6>1. CASE p = q
            BY <3>2, <4>1, <4>2, <4>4, <6>1
          <6>2. CASE p # q
            BY <4>1, <4>2, <6>2
          <6>. QED BY <6>1, <6>2
        <5>. QED BY <5>1
      <4>. QED BY <4>3, <4>4
    <3>. QED BY <2>1, <3>1, <3>3 DEF Gate!Next, Gate!Leave, Gate!vars
  <2>. QED BY <2>2, <2>3
<1>3. ASSUME NEW q \in Requests, InspectedNow(q)
      PROVE  [Gate!Next]_Gate!vars
  <2>1. PICK v \in Context :
          /\ v.over /\ ctx' = [ctx EXCEPT ![q] = v]
          /\ at_origin' = at_origin /\ Outcome(q, v)
    BY <1>3, InspectDecides DEF InspectedNow, Inspect
  <2>2. /\ decision[q] = "none" /\ ~at_origin[q] /\ ~gone[q] /\ denied[q] = FALSE
        /\ pc[q] = "rewrite"
    BY <1>3 DEF InspectedNow, AtHandler, RunsHere, Decision, IInv, TypeOK,
      RequestInv, DenialKept, VerdictHonoured
  <2>3. /\ Decision(v) \in {"pass", "deny"} /\ (Decision(v) = "deny" <=> Denies(v))
        /\ decision' = [decision EXCEPT ![q] = Decision(v)]
    BY <2>1 DEF Decision, IInv, TypeOK
  <2>4. PICK g \in BOOLEAN, r \in BOOLEAN :
          /\ r => Denies(v) /\ ~g
          /\ denied' = [denied EXCEPT ![q] = r]
          /\ gone' = [gone EXCEPT ![q] = g]
    <3>1. CASE Failed(q) /\ UNCHANGED denied
      <4>. DEFINE g == pc'[q] = "freed"
      <4>1. gone' = [gone EXCEPT ![q] = g]
        BY <2>2, <3>1 DEF Failed, Finalize, IInv, TypeOK
      <4>2. denied' = [denied EXCEPT ![q] = FALSE]
        BY <2>2, <3>1 DEF IInv, TypeOK
      <4>. QED BY <4>1, <4>2
    <3>2. CASE Declined(q) /\ UNCHANGED denied
      <4>1. /\ gone' = [gone EXCEPT ![q] = FALSE]
            /\ denied' = [denied EXCEPT ![q] = FALSE]
        BY <2>2, <3>2 DEF Declined, IInv, TypeOK
      <4>. QED BY <4>1
    <3>3. CASE /\ InternalRedirect(q) /\ Denies(v)
               /\ denied' = [denied EXCEPT ![q] = TRUE]
      <4>1. gone' = [gone EXCEPT ![q] = FALSE]
        BY <2>2, <3>3 DEF InternalRedirect, IInv, TypeOK
      <4>. QED BY <3>3, <4>1
    <3>. QED BY <2>1, <3>1, <3>2, <3>3 DEF Outcome
  <2>5. Gate!Decide(q)
    BY <2>1, <2>2, <2>3, <2>4 DEF Gate!Decide
  <2>. QED BY <2>5 DEF Gate!Next
<1>. QED BY <1>1, <1>2, <1>3, StepKinds DEF Next

\* The two handlers, their body callback and their redirects implement the
\* gate: one decision, taken before the resource answers, and honoured.
THEOREM GateImplemented == Spec => ImplementsGate
  BY GateInit, GateStep, SpecIInv, PTL DEF Spec, ImplementsGate, Gate!Spec
=============================================================================
