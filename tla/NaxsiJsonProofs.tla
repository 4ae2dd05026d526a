-------------------------- MODULE NaxsiJsonProofs --------------------------
(***************************************************************************)
(* Proofs about NaxsiJson, for bodies of any length, any texts and any     *)
(* limit of the nesting: the calls that are open are counted, nothing is   *)
(* hidden from the rules, and what is accepted is JSON.                    *)
(***************************************************************************)
EXTENDS NaxsiJson, FiniteSetTheorems, SequenceTheorems, TLAPS

\* js->depth is the number of open calls as long as they return NGX_OK, rule
\* 15 is applied by json_parse alone, and a function that looks behind an
\* opening bracket has been called.
Calls ==
  /\ pc \notin {"finish", "done"} => depth = Len(stack) /\ errors = 0
  /\ pc = "finish" => errors <= 1
  /\ pc \in {"opened", "key", "colon", "after"} => stack # << >>
  /\ Len(stack) <= JSON_MAX_DEPTH

IInv == TypeOK /\ Calls
-----------------------------------------------------------------------------
\* A sequence without its last element, by its length and as it stands.
LEMMA Butlast ==
  ASSUME NEW S, NEW s \in Seq(S), NEW n \in Nat, n = Len(s), n >= 1
  PROVE  /\ SubSeq(s, 1, n - 1) \in Seq(S)
         /\ Len(SubSeq(s, 1, n - 1)) = n - 1
         /\ s[n] \in S
  <1>1. \A i \in 1 .. n : s[i] \in S
    BY ElementOfSeq
  <1>2. \A i \in 1 .. n - 1 : s[i] \in S
    BY <1>1
  <1>3. n - 1 \in Int /\ 1 \in Int
    OBVIOUS
  <1>4. /\ SubSeq(s, 1, n - 1) \in Seq(S)
        /\ Len(SubSeq(s, 1, n - 1)) = IF 1 <= n - 1 THEN n - 1 - 1 + 1 ELSE 0
    BY <1>3, <1>2, SubSeqProperties
  <1>5. QED
    BY <1>1, <1>4

LEMMA Popped ==
  ASSUME NEW S, NEW s \in Seq(S), s # << >>
  PROVE  /\ SubSeq(s, 1, Len(s) - 1) \in Seq(S)
         /\ Len(SubSeq(s, 1, Len(s) - 1)) = Len(s) - 1
         /\ s[Len(s)] \in S
  <1>1. Len(s) \in Nat /\ Len(s) >= 1
    BY EmptySeq
  <1>2. QED
    BY <1>1, Butlast

\* Every character is a token, or the null byte behind the last.
LEMMA CharKnown ==
  ASSUME body \in Seq(Tokens), off \in Nat
  PROVE  Char \in Tokens \cup {"end"}
  BY DEF Char

\* What is inspected has its type.
LEMMA SightingKnown ==
  ASSUME ckey \in Texts \cup {NoKey}, off \in Nat
  PROVE  [key |-> ckey, at |-> off + 1] \in Sighting
  BY DEF Sighting

\* The types of all variables but the Boolean one.
Types ==
  /\ body \in Seq(Tokens)
  /\ off \in Nat
  /\ stack \in Seq(Brackets) /\ depth \in Nat
  /\ ckey \in Texts \cup {NoKey}
  /\ seen \in Seq(Sighting)
  /\ errors \in 0 .. 2
  /\ pc \in Places

LEMMA Empty == \A S : << >> \in Seq(S) /\ Len(<< >>) = 0
  BY EmptySeq

LEMMA TypesInit == Init => Types /\ Calls
  BY Empty, JsonAssumption DEF Init, Types, Calls, Places

\* Every step keeps the types and the discipline of the calls.
LEMMA TypesNext == Types /\ Calls /\ [Next]_vars => Types' /\ Calls'
  <1> SUFFICES ASSUME Types, Calls, [Next]_vars PROVE Types' /\ Calls'
    OBVIOUS
  <1> DEFINE Kept == /\ body' = body
                     /\ off' \in Nat /\ depth' \in Nat
                     /\ ckey' \in Texts \cup {NoKey}
                     /\ seen' \in Seq(Sighting)
  <1>a. /\ off \in Nat /\ depth \in Nat /\ ckey \in Texts \cup {NoKey}
        /\ seen \in Seq(Sighting) /\ body \in Seq(Tokens)
        /\ stack \in Seq(Brackets) /\ errors \in 0 .. 2 /\ pc \in Places
    BY DEF Types
  <1>b. \A n \in Nat : Advance(n) => off' \in Nat
    BY <1>a DEF Advance
  <1>c. QuotedStops \in Nat
    BY DEF QuotedStops
  <1>d. Inspect => seen' \in Seq(Sighting)
    BY <1>a, SightingKnown, AppendProperties DEF Inspect
  <1>e. ASSUME pc \in {"val", "opened", "key", "colon", "after"}
        PROVE  depth = Len(stack) /\ errors = 0 /\ Len(stack) <= JSON_MAX_DEPTH
    BY <1>e DEF Calls
  <1>f. ASSUME pc \in {"val", "opened", "key", "colon", "after"}, Error, Kept
        PROVE  Types' /\ Calls'
    <2>1. errors' = 1 /\ stack' = << >> /\ pc' = "finish"
      BY <1>e, <1>f DEF Error, Goto
    <2>2. stack' \in Seq(Brackets) /\ Len(stack') = 0
      BY <2>1, Empty
    <2>3. Types'
      BY <1>a, <1>f, <2>1, <2>2 DEF Types, Places
    <2>4. QED
      BY <2>1, <2>2, <2>3, JsonAssumption DEF Calls
  <1>g. ASSUME pc \in {"opened", "after"}, Pop, errors' = errors, body' = body,
               off' \in Nat, ckey' = ckey, seen' = seen
        PROVE  Types' /\ Calls'
    <2>1. stack # << >>
      BY <1>g DEF Calls
    <2>2. /\ stack' \in Seq(Brackets) /\ Len(stack') = Len(stack) - 1
          /\ depth' = depth - 1 /\ errors' = 0
          /\ pc' = IF stack' = << >> THEN "finish" ELSE "after"
      BY <1>a, <1>e, <1>g, <2>1, Popped DEF Pop, Returned, Goto
    <2>3. Len(stack) \in Nat /\ Len(stack') \in Nat
      BY <1>a, <2>2, LenProperties
    <2>4. depth' \in Nat /\ depth' = Len(stack') /\ Len(stack') <= JSON_MAX_DEPTH
      BY <1>e, <1>g, <2>2, <2>3, JsonAssumption
    <2>5. Types'
      BY <1>a, <1>g, <2>2, <2>4 DEF Types, Places
    <2>6. QED
      BY <2>2, <2>4, <2>5 DEF Calls
  <1>1. ASSUME Start PROVE Types' /\ Calls'
    BY <1>1 DEF Start, input, Types, Calls, Places
  <1>2. ASSUME Forward PROVE Types' /\ Calls'
    BY <1>2 DEF Forward, input, Advance, Types, Calls, Places
  <1>3. ASSUME Scalar PROVE Types' /\ Calls'
    <2>1. pc = "val" /\ body' = body /\ depth' = depth /\ ckey' = ckey
      BY <1>3 DEF Scalar, At, input
    <2>2. CASE Inspect /\ Advance(1) /\ Returned(stack) /\ UNCHANGED <<stack, errors>>
      <3>1. pc' = IF stack = << >> THEN "finish" ELSE "after"
        BY <2>2 DEF Returned, Goto
      <3>2. Types'
        BY <1>a, <1>b, <1>d, <2>1, <2>2, <3>1 DEF Types, Places
      <3>3. QED
        BY <1>e, <2>1, <2>2, <3>1, <3>2 DEF Calls
    <2>3. CASE Error /\ Advance(QuotedStops) /\ UNCHANGED seen
      BY <1>a, <1>b, <1>c, <1>f, <2>1, <2>3
    <2>4. QED
      BY <1>3, <2>2, <2>3 DEF Scalar
  <1>4. ASSUME NoValue PROVE Types' /\ Calls'
    BY <1>4, <1>a, <1>f DEF NoValue, At, input
  <1>5. ASSUME Container PROVE Types' /\ Calls'
    <2>1. /\ pc = "val" /\ body' = body /\ depth' = depth + 1 /\ ckey' = ckey
          /\ Char \in Brackets
      BY <1>5 DEF Container, At, input, Brackets
    <2>2. seen' \in Seq(Sighting)
      BY <1>5, <1>a, <1>d DEF Container
    <2>3. CASE TooDeep /\ Error /\ UNCHANGED off
      BY <1>a, <1>f, <2>1, <2>2, <2>3
    <2>4. CASE /\ ~TooDeep /\ stack' = Append(stack, Char) /\ Advance(1)
               /\ Goto("opened") /\ UNCHANGED errors
      <3>1. /\ stack' \in Seq(Brackets) /\ Len(stack') = Len(stack) + 1
            /\ stack' # << >>
        BY <1>a, <2>1, <2>4, AppendProperties
      <3>2. depth' \in Nat /\ depth' = Len(stack') /\ Len(stack') <= JSON_MAX_DEPTH
        BY <1>a, <1>e, <2>1, <2>4, <3>1, JsonAssumption DEF TooDeep
      <3>3. pc' = "opened" /\ errors' = 0
        BY <1>e, <2>1, <2>4 DEF Goto
      <3>4. Types'
        BY <1>a, <1>b, <2>1, <2>2, <2>4, <3>1, <3>2, <3>3 DEF Types, Places
      <3>5. QED
        BY <3>1, <3>2, <3>3, <3>4 DEF Calls
    <2>5. QED
      BY <1>5, <2>3, <2>4 DEF Container
  <1>6. ASSUME Opened PROVE Types' /\ Calls'
    <2>1. /\ pc = "opened" /\ body' = body /\ ckey' = ckey /\ seen' = seen
          /\ errors' = errors
      BY <1>6 DEF Opened, At, input
    <2>2. CASE Pop /\ Advance(1)
      BY <1>a, <1>b, <1>g, <2>1, <2>2
    <2>3. CASE Goto(IF Top = "[" THEN "val" ELSE "key") /\ UNCHANGED <<off, stack, depth>>
      <3>1. pc' \in {"val", "key"} /\ stack # << >>
        BY <2>1, <2>3 DEF Goto, Calls
      <3>2. Types'
        BY <1>a, <2>1, <2>3, <3>1 DEF Types, Places
      <3>3. QED
        BY <1>e, <2>1, <2>3, <3>1, <3>2 DEF Calls
    <2>4. QED
      BY <1>6, <2>2, <2>3 DEF Opened
  <1>7. ASSUME Key PROVE Types' /\ Calls'
    <2>1. pc = "key" /\ body' = body /\ depth' = depth /\ seen' = seen
      BY <1>7 DEF Key, At, input
    <2>2. CASE /\ Char \in Texts /\ ckey' = Char /\ Advance(1)
               /\ Goto("colon") /\ UNCHANGED <<stack, errors>>
      <3>1. pc' = "colon" /\ stack # << >>
        BY <2>1, <2>2 DEF Goto, Calls
      <3>2. Types'
        BY <1>a, <1>b, <2>1, <2>2, <3>1 DEF Types, Places
      <3>3. QED
        BY <1>e, <2>1, <2>2, <3>1, <3>2 DEF Calls
    <2>3. CASE Error /\ (Advance(QuotedStops) \/ UNCHANGED off) /\ UNCHANGED ckey
      BY <1>a, <1>b, <1>c, <1>f, <2>1, <2>3
    <2>4. QED
      BY <1>7, <2>2, <2>3 DEF Key
  <1>8. ASSUME Colon PROVE Types' /\ Calls'
    <2>1. /\ pc = "colon" /\ body' = body /\ depth' = depth /\ ckey' = ckey
          /\ seen' = seen
      BY <1>8 DEF Colon, At, input
    <2>2. CASE Advance(1) /\ Goto("val") /\ UNCHANGED <<stack, errors>>
      <3>1. Types'
        BY <1>a, <1>b, <2>1, <2>2 DEF Types, Places, Goto
      <3>2. QED
        BY <1>e, <2>1, <2>2, <3>1 DEF Calls, Goto
    <2>3. CASE Error /\ UNCHANGED off
      BY <1>a, <1>f, <2>1, <2>3
    <2>4. QED
      BY <1>8, <2>2, <2>3 DEF Colon
  <1>9. ASSUME After PROVE Types' /\ Calls'
    <2>1. pc = "after" /\ body' = body /\ ckey' = ckey /\ seen' = seen
      BY <1>9 DEF After, At, input
    <2>2. CASE Element
      <3>1. pc' \in {"val", "key"} /\ stack # << >> /\ Advance(1)
            /\ stack' = stack /\ depth' = depth /\ errors' = errors
        BY <2>1, <2>2 DEF Element, Goto, Calls
      <3>2. Types'
        BY <1>a, <1>b, <2>1, <3>1 DEF Types, Places
      <3>3. QED
        BY <1>e, <2>1, <3>1, <3>2 DEF Calls
    <2>3. CASE Pop /\ Advance(1) /\ UNCHANGED errors
      BY <1>a, <1>b, <1>g, <2>1, <2>3
    <2>4. CASE Error /\ UNCHANGED <<off, depth>>
      BY <1>a, <1>f, <2>1, <2>4
    <2>5. QED
      BY <1>9, <2>2, <2>3, <2>4 DEF After
  <1>10. ASSUME Finish PROVE Types' /\ Calls'
    <2>1. /\ pc = "finish" /\ pc' = "done" /\ errors' \in {errors, errors + 1}
          /\ UNCHANGED <<body, off, stack, depth, ckey, seen>>
      BY <1>10 DEF Finish, At, Goto, input
    <2>2. errors' \in 0 .. 2
      BY <1>a, <2>1 DEF Calls
    <2>3. QED
      BY <1>a, <2>1, <2>2 DEF Types, Calls, Places
  <1>11. ASSUME NEW t \in Tokens, More(t) PROVE Types' /\ Calls'
    <2>1. body' \in Seq(Tokens) /\ UNCHANGED <<off, stack, depth, ckey, seen, errors, pc>>
      BY <1>a, <1>11, AppendProperties DEF More
    <2>2. QED
      BY <2>1 DEF Types, Calls
  <1>12. ASSUME End \/ UNCHANGED vars PROVE Types' /\ Calls'
    BY <1>12 DEF End, vars, Types, Calls
  <1>13. QED
    BY <1>1, <1>2, <1>3, <1>4, <1>5, <1>6, <1>7, <1>8, <1>9, <1>10, <1>11,
       <1>12 DEF Next, Parse

\* Every step keeps the end of the body a Boolean.
LEMMA EndedNext == ended \in BOOLEAN /\ [Next]_vars => ended' \in BOOLEAN
  <1> SUFFICES ASSUME ended \in BOOLEAN, [Next]_vars PROVE ended' \in BOOLEAN
    OBVIOUS
  <1>1. Parse => ended' = ended
    BY DEF Parse, input, Start, Forward, Scalar, NoValue, Container, Opened,
       Key, Colon, After, Finish
  <1>2. ASSUME NEW t \in Tokens, More(t) PROVE ended' \in BOOLEAN
    <2>1. ended' = (t \in Unclosed)
      BY <1>2 DEF More
    <2>2. (t \in Unclosed) \in BOOLEAN
      OBVIOUS
    <2>3. QED
      BY <2>1, <2>2, Zenon
  <1>3. End => ended' \in BOOLEAN
    BY Zenon DEF End
  <1>4. UNCHANGED vars => ended' = ended
    BY DEF vars
  <1>5. QED
    BY <1>1, <1>2, <1>3, <1>4, Zenon DEF Next

LEMMA InitIInv == Init => IInv
  <1>1. Init => ended \in BOOLEAN
    BY Zenon DEF Init
  <1>2. QED
    BY <1>1, TypesInit DEF IInv, TypeOK, Types

LEMMA NextIInv == IInv /\ [Next]_vars => IInv'
  BY TypesNext, EndedNext DEF IInv, TypeOK, Types

\* The strengthened invariant holds of every reachable state.
THEOREM SpecIInv == Spec => []IInv
  BY InitIInv, NextIInv, PTL DEF Spec

\* The state of the parser keeps its type, and rule 15 is applied no more than
\* twice (naxsi_json.c).
THEOREM TypeCorrect == Spec => []TypeOK
  <1>1. IInv => TypeOK
    BY DEF IInv
  <1>2. QED
    BY <1>1, SpecIInv, PTL

\* However long and however nested the body, the calls that are open are as
\* many as js->depth says and never more than JSON_MAX_DEPTH.
THEOREM DepthBounded == Spec => []NestingBounded
  <1>1. IInv => NestingBounded
    BY DEF IInv, Calls, NestingBounded
  <1>2. QED
    BY <1>1, SpecIInv, PTL
-----------------------------------------------------------------------------
(***************************************************************************)
(* What is inspected                                                       *)
(***************************************************************************)

\* The keys among the tokens read so far; the colon of the last one may be the
\* next token.
KeyRead(i) ==
  /\ body[i] \in Texts
  /\ \/ \E j \in i + 1 .. off : body[j] = ":" /\ Spaces(i, j - 1)
     \/ pc = "colon" /\ Spaces(i, off)
ReadKeys == {i \in 1 .. off : KeyRead(i)}

\* Nothing but arrays was opened behind the key: a value may still come.
Waiting(i) == /\ pc \in {"colon", "val", "opened"}
              /\ \A k \in i + 1 .. off : body[k] \in {"space", ":", "["}

\* Where the parser is, as long as nothing is wrong with the body.
Place ==
  /\ off <= Len(body)
  /\ pc \in {"start", "done"} => off = Len(body)
  /\ pc = "opened" => \E j \in 1 .. off : body[j] = Top /\ Spaces(j, off)

\* The values read are those inspected.
ValuesSeen ==
  /\ \A n \in DOMAIN seen : /\ seen[n].at \in 1 .. off
                            /\ body[seen[n].at] \in ValueTokens
                            /\ seen[n].at \notin ReadKeys
  /\ \A i \in 1 .. off : body[i] \in ValueTokens /\ i \notin ReadKeys =>
       \E n \in DOMAIN seen : seen[n].at = i

InOrder ==
  \A n \in DOMAIN seen : \A m \in 1 .. n - 1 : seen[m].at < seen[n].at

\* js->ckey is, and was for each value, the last key.
UnderLastKey ==
  /\ \A n \in DOMAIN seen : Under(ReadKeys, seen[n].at, seen[n].key)
  /\ Under(ReadKeys, off + 1, ckey)

KeysServed ==
  \A i \in ReadKeys : Served(ReadKeys, i) \/ EmptyArrays(i) \/ Waiting(i)

\* The invariant of a parse without errors.
Reading ==
  errors = 0 => Place /\ ValuesSeen /\ InOrder /\ UnderLastKey /\ KeysServed

\* The kinds of steps: the parser stays where it is, or eats a token, which is
\* a mark, a value or the name of a member.
Stay ==
  /\ UNCHANGED <<off, seen, ckey>>
  /\ Len(body) <= Len(body') /\ \A i \in 1 .. Len(body) : body'[i] = body[i]
  /\ \/ pc' = pc /\ stack' = stack /\ (pc \in {"start", "done"} => body' = body)
     \/ pc = "opened" /\ pc' = IF Top = "[" THEN "val" ELSE "key"
     \/ pc = "start" /\ pc' \in {"val", "done"} /\ body' = body
     \/ pc = "finish" /\ pc' = "done" /\ body' = body /\ off = Len(body)

Eats(t) == /\ off < Len(body) /\ body[off + 1] = t
           /\ off' = off + 1 /\ body' = body

EatsMark(t) ==
  /\ Eats(t) /\ UNCHANGED <<seen, ckey>>
  /\ \/ t = "space" /\ pc' = pc /\ stack' = stack /\ pc # "done"
     \/ t = ":" /\ pc = "colon" /\ pc' = "val"
     \/ t = "[" /\ pc = "val" /\ pc' = "opened" /\ stack' = Append(stack, t)
     \/ t = "," /\ pc = "after" /\ pc' \in {"val", "key"}
     \/ t = Closing /\ pc \in {"opened", "after"} /\ pc' \in {"after", "finish"}

EatsValue(t) ==
  /\ Eats(t) /\ t \in ValueTokens /\ pc = "val"
  /\ seen' = Append(seen, [key |-> ckey, at |-> off + 1]) /\ ckey' = ckey
  /\ \/ pc' \in {"after", "finish"}
     \/ t = "{" /\ pc' = "opened" /\ stack' = Append(stack, t)

EatsName(t) ==
  /\ Eats(t) /\ t \in Texts /\ pc = "key" /\ pc' = "colon"
  /\ seen' = seen /\ ckey' = t

\* No text is a mark.
LEMMA TextsAreNoMarks == \A t \in Texts : t \notin Marks /\ t # "end"
  BY JsonAssumption

\* A character that is not the end is the next token.
LEMMA CharRead ==
  ASSUME NEW t, Char = t, t # "end"
  PROVE  off < Len(body) /\ body[off + 1] = t
  BY DEF Char

\* An action that raises no error is of one of these kinds.
LEMMA StepKinds ==
  ASSUME Types, Calls, errors = 0, errors' = 0, [Next]_vars
  PROVE  Stay \/ \E t \in Tokens : EatsMark(t) \/ EatsValue(t) \/ EatsName(t)
  <1> DEFINE Kinds == Stay \/ \E t \in Tokens : EatsMark(t) \/ EatsValue(t) \/ EatsName(t)
  <1>0. /\ body \in Seq(Tokens) /\ off \in Nat /\ stack \in Seq(Brackets)
        /\ Len(body) \in Nat /\ Texts \subseteq Tokens /\ Marks \subseteq Tokens
    BY LenProperties DEF Types, Tokens
  <1>e. ~Error
    BY DEF Error
  <1>1. ASSUME Start PROVE Kinds
    BY <1>0, <1>1 DEF Start, input, Stay
  <1>2. ASSUME Forward PROVE Kinds
    <2>1. Char = "space" /\ "space" # "end" /\ "space" \in Tokens
      BY <1>0, <1>2 DEF Forward, Marks
    <2>2. Eats("space")
      BY <1>2, <2>1, CharRead DEF Forward, Advance, Eats, input
    <2>3. EatsMark("space")
      BY <1>2, <2>2 DEF EatsMark, Forward
    <2>4. QED
      BY <2>1, <2>3
  <1>3. ASSUME Scalar PROVE Kinds
    <2>1. /\ Char \in Texts \cup {"number", "literal"} /\ Inspect /\ Advance(1)
          /\ Returned(stack) /\ pc = "val" /\ body' = body /\ ckey' = ckey
      BY <1>3, <1>e DEF Scalar, At, input
    <2>2. Char # "end" /\ Char \in Tokens /\ Char \in ValueTokens
      BY <1>0, <2>1, TextsAreNoMarks DEF ValueTokens, Marks
    <2>3. Eats(Char)
      BY <2>1, <2>2, CharRead DEF Advance, Eats
    <2>4. EatsValue(Char)
      BY <2>1, <2>2, <2>3 DEF EatsValue, Inspect, Returned, Goto
    <2>5. QED
      BY <2>2, <2>4
  <1>4. ASSUME NoValue PROVE Kinds
    BY <1>4, <1>e DEF NoValue
  <1>5. ASSUME Container PROVE Kinds
    <2>1. /\ pc = "val" /\ body' = body /\ ckey' = ckey /\ Char \in {"[", "{"}
          /\ IF Char = "{" THEN Inspect ELSE seen' = seen
          /\ stack' = Append(stack, Char) /\ Advance(1) /\ pc' = "opened"
      BY <1>5, <1>e DEF Container, At, input, Goto
    <2>2. Char # "end" /\ Char \in Tokens
      BY <1>0, <2>1 DEF Marks
    <2>3. Eats(Char)
      BY <2>1, <2>2, CharRead DEF Advance, Eats
    <2>4. CASE Char = "{"
      <3>1. EatsValue(Char)
        BY <2>1, <2>3, <2>4 DEF EatsValue, Inspect, ValueTokens
      <3>2. QED
        BY <2>2, <3>1
    <2>5. CASE Char # "{"
      <3>1. EatsMark(Char)
        BY <2>1, <2>3, <2>5 DEF EatsMark
      <3>2. QED
        BY <2>2, <3>1
    <2>6. QED
      BY <2>4, <2>5
  <1>6. ASSUME pc \in {"opened", "after"}, Char = Closing, Pop, Advance(1),
               body' = body, ckey' = ckey, seen' = seen
        PROVE  Kinds
    <2>1. Char \in {"]", "}"} /\ Char # "end" /\ Char \in Tokens
      BY <1>0, <1>6 DEF Closing, Marks
    <2>2. Eats(Char)
      BY <1>6, <2>1, CharRead DEF Advance, Eats
    <2>3. pc' \in {"after", "finish"}
      BY <1>6 DEF Pop, Returned, Goto
    <2>4. EatsMark(Char)
      BY <1>6, <2>2, <2>3 DEF EatsMark
    <2>5. QED
      BY <2>1, <2>4
  <1>7. ASSUME Opened PROVE Kinds
    <2>1. /\ pc = "opened" /\ body' = body /\ ckey' = ckey /\ seen' = seen
      BY <1>7 DEF Opened, At, input
    <2>2. CASE Char = Closing /\ Pop /\ Advance(1)
      BY <1>6, <2>1, <2>2
    <2>3. CASE /\ Goto(IF Top = "[" THEN "val" ELSE "key")
               /\ UNCHANGED <<off, stack, depth>>
      BY <1>0, <2>1, <2>3 DEF Goto, Stay
    <2>4. QED
      BY <1>7, <2>2, <2>3 DEF Opened
  <1>8. ASSUME Key PROVE Kinds
    <2>1. /\ pc = "key" /\ body' = body /\ seen' = seen /\ Char \in Texts
          /\ ckey' = Char /\ Advance(1) /\ pc' = "colon"
      BY <1>8, <1>e DEF Key, At, input, Goto
    <2>2. Char # "end" /\ Char \in Tokens
      BY <1>0, <2>1, TextsAreNoMarks
    <2>3. EatsName(Char)
      BY <2>1, <2>2, CharRead DEF Advance, Eats, EatsName
    <2>4. QED
      BY <2>2, <2>3
  <1>9. ASSUME Colon PROVE Kinds
    <2>1. /\ pc = "colon" /\ body' = body /\ seen' = seen /\ Char = ":"
          /\ ckey' = ckey /\ Advance(1) /\ pc' = "val"
      BY <1>9, <1>e DEF Colon, At, input, Goto
    <2>2. ":" # "end" /\ ":" \in Tokens
      BY <1>0 DEF Marks
    <2>3. EatsMark(":")
      BY <2>1, <2>2, CharRead DEF Advance, Eats, EatsMark
    <2>4. QED
      BY <2>2, <2>3
  <1>10. ASSUME After PROVE Kinds
    <2>1. pc = "after" /\ body' = body /\ ckey' = ckey /\ seen' = seen
      BY <1>10 DEF After, At, input
    <2>2. CASE Element
      <3>1. Char = "," /\ Advance(1) /\ pc' \in {"val", "key"}
        BY <2>2 DEF Element, Goto
      <3>2. "," # "end" /\ "," \in Tokens
        BY <1>0 DEF Marks
      <3>3. EatsMark(",")
        BY <2>1, <3>1, <3>2, CharRead DEF Advance, Eats, EatsMark
      <3>4. QED
        BY <3>2, <3>3
    <2>3. CASE Char = Closing /\ Pop /\ Advance(1)
      BY <1>6, <2>1, <2>3
    <2>4. QED
      BY <1>10, <1>e, <2>2, <2>3 DEF After
  <1>11. ASSUME Finish PROVE Kinds
    <2>1. /\ pc = "finish" /\ pc' = "done" /\ off = Len(body)
          /\ UNCHANGED <<body, off, ckey, seen>>
      BY <1>11 DEF Finish, At, Goto, input
    <2>2. QED
      BY <1>0, <2>1 DEF Stay
  <1>12. ASSUME NEW t \in Tokens, More(t) PROVE Kinds
    <2>1. /\ Len(body') = Len(body) + 1 /\ \A i \in 1 .. Len(body) : body'[i] = body[i]
          /\ UNCHANGED <<off, seen, ckey, pc, stack>>
          /\ pc \notin {"start", "done"}
      BY <1>0, <1>12, AppendProperties DEF More
    <2>2. QED
      BY <1>0, <2>1 DEF Stay
  <1>13. ASSUME End \/ UNCHANGED vars PROVE Kinds
    BY <1>0, <1>13 DEF End, vars, Stay
  <1>14. QED
    BY <1>1, <1>2, <1>3, <1>4, <1>5, <1>7, <1>8, <1>9, <1>10, <1>11, <1>12,
       <1>13 DEF Next, Parse

\* The keys do not change while the parser stays where it is.
LEMMA KeysStay ==
  ASSUME Stay, off \in Nat, Len(body) \in Nat, off <= Len(body)
  PROVE  /\ ReadKeys' = ReadKeys
         /\ \A i \in 1 .. off : body'[i] = body[i]
  <1>1. \A i \in 1 .. off : body'[i] = body[i]
    BY DEF Stay
  <1>2. pc' = "colon" <=> pc = "colon"
    BY DEF Stay
  <1>3. off' = off
    BY DEF Stay
  <1>4. ASSUME NEW i \in 1 .. off PROVE KeyRead(i)' <=> KeyRead(i)
    <2>1. ASSUME NEW j \in i .. off PROVE Spaces(i, j)' <=> Spaces(i, j)
      BY <1>1 DEF Spaces
    <2>2. \A j \in i + 1 .. off : Spaces(i, j - 1)' <=> Spaces(i, j - 1)
      BY <2>1
    <2>3. Spaces(i, off)' <=> Spaces(i, off)
      BY <1>3, <2>1 DEF Spaces
    <2>4. QED
      BY <1>1, <1>2, <1>3, <2>2, <2>3 DEF KeyRead
  <1>5. QED
    BY <1>1, <1>3, <1>4 DEF ReadKeys

\* Where a token is eaten that is not the colon of a key, what was a key is one
\* and nothing else is.
LEMMA OldKeys ==
  ASSUME NEW t, Eats(t), off \in Nat,
         \/ t # ":" /\ pc # "colon" /\ (pc' = "colon" => t # "space")
         \/ pc = "colon" /\ t = "space" /\ pc' = "colon"
         \/ pc = "colon" /\ t = ":" /\ pc' # "colon",
         NEW i \in 1 .. off
  PROVE  KeyRead(i)' <=> KeyRead(i)
  <1>1. /\ off' = off + 1 /\ body' = body /\ body[off + 1] = t
        /\ off + 1 \in i + 1 .. off + 1
    BY DEF Eats
  <1>2. \A j \in Int : Spaces(i, j)' <=> Spaces(i, j)
    BY <1>1 DEF Spaces
  <1>3. Spaces(i, off + 1) <=> Spaces(i, off) /\ t = "space"
    BY <1>1 DEF Spaces
  <1>4. \A j \in i + 1 .. off + 1 : j \in i + 1 .. off \/ j = off + 1
    OBVIOUS
  <1>5. (\E j \in i + 1 .. off + 1 : body[j] = ":" /\ Spaces(i, j - 1))
        <=> \/ \E j \in i + 1 .. off : body[j] = ":" /\ Spaces(i, j - 1)
            \/ t = ":" /\ Spaces(i, off)
    BY <1>1, <1>4
  <1>6. KeyRead(i)' <=> /\ body[i] \in Texts
                        /\ \/ \E j \in i + 1 .. off + 1 : body[j] = ":" /\ Spaces(i, j - 1)
                           \/ pc' = "colon" /\ Spaces(i, off + 1)
    BY <1>1, <1>2 DEF KeyRead
  <1>7. QED
    BY <1>3, <1>5, <1>6 DEF KeyRead

\* A token that was just eaten is a key if it is a name.
LEMMA NewKey ==
  ASSUME NEW t, Eats(t), off \in Nat, NEW n, n = off + 1
  PROVE  n \in ReadKeys' <=> (t \in Texts /\ pc' = "colon")
  <1>1. off' = n /\ body' = body /\ body[n] = t /\ n \in Nat /\ n \in 1 .. n
    BY DEF Eats
  <1>2. Spaces(n, n)' /\ \A j \in n + 1 .. n : FALSE
    BY <1>1 DEF Spaces
  <1>3. KeyRead(n)' <=> (t \in Texts /\ pc' = "colon")
    BY <1>1, <1>2 DEF KeyRead
  <1>4. QED
    BY <1>1, <1>3 DEF ReadKeys

\* The keys after each kind of step.
LEMMA KeysEaten ==
  ASSUME NEW t, off \in Nat
  PROVE  /\ EatsMark(t) \/ EatsValue(t) => ReadKeys' = ReadKeys
         /\ EatsName(t) => ReadKeys' = ReadKeys \cup {off + 1}
  <1>1. "space" \notin Texts /\ ":" \notin Texts /\ "[" \notin Texts
        /\ "," \notin Texts /\ "]" \notin Texts /\ "}" \notin Texts
    BY TextsAreNoMarks DEF Marks
  <1>2. ASSUME EatsMark(t) \/ EatsValue(t) \/ EatsName(t)
        PROVE  /\ Eats(t)
               /\ \/ t # ":" /\ pc # "colon" /\ (pc' = "colon" => t # "space")
                  \/ pc = "colon" /\ t = "space" /\ pc' = "colon"
                  \/ pc = "colon" /\ t = ":" /\ pc' # "colon"
    <2>1. CASE EatsMark(t)
      BY <1>1, <2>1 DEF EatsMark, Closing
    <2>2. CASE EatsValue(t)
      BY <1>1, <2>2 DEF EatsValue, ValueTokens
    <2>3. CASE EatsName(t)
      BY <1>1, <2>3 DEF EatsName
    <2>4. QED
      BY <1>2, <2>1, <2>2, <2>3
  <1>3. ASSUME EatsMark(t) \/ EatsValue(t) \/ EatsName(t)
        PROVE  ReadKeys' = ReadKeys \cup {i \in {off + 1} : off + 1 \in ReadKeys'}
    <2>1. off' = off + 1 /\ 1 .. off' = 1 .. off \cup {off + 1}
      BY <1>2, <1>3 DEF Eats
    <2>2. \A i \in 1 .. off : KeyRead(i)' <=> KeyRead(i)
      BY <1>2, <1>3, OldKeys
    <2>3. QED
      BY <2>1, <2>2 DEF ReadKeys
  <1>4. ASSUME EatsMark(t) \/ EatsValue(t) PROVE off + 1 \notin ReadKeys'
    <2>1. CASE EatsMark(t)
      <3>1. t \notin Texts
        BY <1>1, <2>1 DEF EatsMark, Closing
      <3>2. QED
        BY <1>2, <2>1, <3>1, NewKey
    <2>2. CASE EatsValue(t)
      <3>1. pc' # "colon"
        BY <2>2 DEF EatsValue
      <3>2. QED
        BY <1>2, <2>2, <3>1, NewKey
    <2>3. QED
      BY <1>4, <2>1, <2>2
  <1>5. ASSUME EatsName(t) PROVE off + 1 \in ReadKeys'
    BY <1>2, <1>5, NewKey DEF EatsName
  <1>6. QED
    BY <1>3, <1>4, <1>5

\* The parser's place is kept.
LEMMA PlaceNext ==
  ASSUME Types, Place,
         Stay \/ \E t \in Tokens : EatsMark(t) \/ EatsValue(t) \/ EatsName(t)
  PROVE  Place'
  <1>0. off \in Nat /\ Len(body) \in Nat /\ stack \in Seq(Brackets)
    BY LenProperties DEF Types
  <1>1. CASE Stay
    <2>1. off' <= Len(body')
      BY <1>0, <1>1 DEF Stay, Place
    <2>2. pc' \in {"start", "done"} => off' = Len(body')
      BY <1>1 DEF Stay, Place
    <2>3. ASSUME pc' = "opened" PROVE \E j \in 1 .. off' : (body[j] = Top /\ Spaces(j, off))'
      <3>1. pc = "opened" /\ stack' = stack /\ off' = off
        BY <1>1, <2>3 DEF Stay
      <3>2. PICK j \in 1 .. off : body[j] = Top /\ Spaces(j, off)
        BY <3>1 DEF Place
      <3>3. \A i \in 1 .. off : body'[i] = body[i]
        BY <1>0, <1>1, KeysStay DEF Place
      <3>4. (body[j] = Top /\ Spaces(j, off))'
        BY <1>0, <3>1, <3>2, <3>3 DEF Top, Spaces
      <3>5. QED
        BY <3>1, <3>4
    <2>4. QED
      BY <2>1, <2>2, <2>3 DEF Place
  <1>2. ASSUME NEW t \in Tokens, EatsMark(t) \/ EatsValue(t) \/ EatsName(t)
        PROVE  Place'
    <2>1. /\ off < Len(body) /\ off' = off + 1 /\ body' = body /\ body[off + 1] = t
      BY <1>2 DEF EatsMark, EatsValue, EatsName, Eats
    <2>2. pc' \notin {"start", "done"} \/ pc' = pc
      BY <1>2 DEF EatsMark, EatsValue, EatsName
    <2>3. pc' \in {"start", "done"} => off' = Len(body')
      BY <1>0, <2>1, <2>2 DEF Place
    <2>4. ASSUME pc' = "opened" PROVE \E j \in 1 .. off' : (body[j] = Top /\ Spaces(j, off))'
      <3>1. \/ t = "space" /\ pc = "opened" /\ stack' = stack
            \/ t \in Brackets /\ stack' = Append(stack, t)
        BY <1>2, <2>4 DEF EatsMark, EatsValue, EatsName, Brackets
      <3>2. CASE t = "space" /\ pc = "opened" /\ stack' = stack
        <4>1. PICK j \in 1 .. off : body[j] = Top /\ Spaces(j, off)
          BY <3>2 DEF Place
        <4>2. (body[j] = Top /\ Spaces(j, off))'
          BY <1>0, <2>1, <3>2, <4>1 DEF Top, Spaces
        <4>3. QED
          BY <1>0, <2>1, <4>2
      <3>3. CASE t \in Brackets /\ stack' = Append(stack, t)
        <4>1. Len(stack') = Len(stack) + 1 /\ stack'[Len(stack) + 1] = t
          BY <1>0, <3>3, AppendProperties
        <4>2. Top' = t
          BY <4>1 DEF Top
        <4>3. PICK j \in 1 .. off + 1 : j = off + 1
          BY <1>0
        <4>4. (body[j] = Top /\ Spaces(j, off))'
          BY <1>0, <2>1, <4>2, <4>3 DEF Spaces
        <4>5. QED
          BY <2>1, <4>4
      <3>4. QED
        BY <3>1, <3>2, <3>3
    <2>5. QED
      BY <1>0, <2>1, <2>3, <2>4 DEF Place
  <1>3. QED
    BY <1>1, <1>2

\* What EatsValue does to the values seen.
LEMMA SeenGrows ==
  ASSUME Types, NEW t, EatsValue(t)
  PROVE  /\ DOMAIN seen' = DOMAIN seen \cup {Len(seen) + 1}
         /\ Len(seen) \in Nat /\ DOMAIN seen = 1 .. Len(seen)
         /\ \A n \in DOMAIN seen : seen'[n] = seen[n]
         /\ seen'[Len(seen) + 1].key = ckey
         /\ seen'[Len(seen) + 1].at = off + 1
  <1>1. seen \in Seq(Sighting) /\ ckey \in Texts \cup {NoKey} /\ off \in Nat
    BY DEF Types
  <1>2. Len(seen) \in Nat /\ DOMAIN seen = 1 .. Len(seen)
    BY <1>1, LenProperties
  <1> DEFINE e == [key |-> ckey, at |-> off + 1]
  <1>3. e \in Sighting /\ e.key = ckey /\ e.at = off + 1
    BY <1>1, SightingKnown
  <1> HIDE DEF e
  <1>4. seen' = Append(seen, e)
    BY DEF EatsValue, e
  <1>5. /\ seen' \in Seq(Sighting) /\ Len(seen') = Len(seen) + 1
        /\ \A n \in 1 .. Len(seen) : seen'[n] = seen[n]
        /\ seen'[Len(seen) + 1] = e
    BY <1>1, <1>3, <1>4, AppendProperties
  <1>6. DOMAIN seen' = 1 .. Len(seen) + 1
    BY <1>5, LenProperties
  <1>7. 1 .. Len(seen) + 1 = 1 .. Len(seen) \cup {Len(seen) + 1}
    BY <1>2
  <1>8. QED
    BY <1>2, <1>3, <1>5, <1>6, <1>7

\* The values read so far stay those inspected.
LEMMA ValuesNext ==
  ASSUME Types, Place, ValuesSeen,
         Stay \/ \E t \in Tokens : EatsMark(t) \/ EatsValue(t) \/ EatsName(t)
  PROVE  ValuesSeen'
  <1>0. off \in Nat /\ Len(body) \in Nat /\ off <= Len(body)
    BY LenProperties DEF Types, Place
  <1>1. CASE Stay
    <2>1. /\ seen' = seen /\ off' = off /\ ReadKeys' = ReadKeys
          /\ \A i \in 1 .. off : body'[i] = body[i]
      BY <1>0, <1>1, KeysStay DEF Stay
    <2>2. QED
      BY <2>1 DEF ValuesSeen
  <1>2. ASSUME NEW t \in Tokens, EatsMark(t) PROVE ValuesSeen'
    <2>1. /\ seen' = seen /\ off' = off + 1 /\ body' = body /\ body[off + 1] = t
          /\ ReadKeys' = ReadKeys
      BY <1>0, <1>2, KeysEaten DEF EatsMark, Eats
    <2>2. t \notin ValueTokens
      BY <1>2, TextsAreNoMarks DEF EatsMark, Closing, ValueTokens, Marks
    <2>3. 1 .. off' = 1 .. off \cup {off + 1}
      BY <1>0, <2>1
    <2>4. QED
      BY <2>1, <2>2, <2>3 DEF ValuesSeen
  <1>3. ASSUME NEW t \in Tokens, EatsName(t) PROVE ValuesSeen'
    <2>1. /\ seen' = seen /\ off' = off + 1 /\ body' = body
          /\ ReadKeys' = ReadKeys \cup {off + 1}
      BY <1>0, <1>3, KeysEaten DEF EatsName, Eats
    <2>2. 1 .. off' = 1 .. off \cup {off + 1} /\ off + 1 \notin 1 .. off
      BY <1>0, <2>1
    <2>3. QED
      BY <2>1, <2>2 DEF ValuesSeen
  <1>4. ASSUME NEW t \in Tokens, EatsValue(t) PROVE ValuesSeen'
    <2>1. /\ off' = off + 1 /\ body' = body /\ body[off + 1] = t
          /\ t \in ValueTokens /\ ReadKeys' = ReadKeys
      BY <1>0, <1>4, KeysEaten DEF EatsValue, Eats
    <2>2. /\ 1 .. off' = 1 .. off \cup {off + 1} /\ off + 1 \notin ReadKeys
      BY <1>0, <2>1 DEF ReadKeys
    <2>3. ASSUME NEW n \in DOMAIN seen'
          PROVE  /\ seen'[n].at \in 1 .. off' /\ body'[seen'[n].at] \in ValueTokens
                 /\ seen'[n].at \notin ReadKeys'
      BY <1>4, <2>1, <2>2, SeenGrows DEF ValuesSeen
    <2>4. ASSUME NEW i \in 1 .. off', body'[i] \in ValueTokens, i \notin ReadKeys'
          PROVE  \E n \in DOMAIN seen' : seen'[n].at = i
      <3>1. CASE i = off + 1
        BY <1>4, <3>1, SeenGrows
      <3>2. CASE i \in 1 .. off
        <4>1. PICK n \in DOMAIN seen : seen[n].at = i
          BY <2>1, <2>4, <3>2 DEF ValuesSeen
        <4>2. QED
          BY <1>4, <4>1, SeenGrows
      <3>3. QED
        BY <2>2, <2>4, <3>1, <3>2
    <2>5. QED
      BY <2>3, <2>4 DEF ValuesSeen
  <1>5. QED
    BY <1>1, <1>2, <1>3, <1>4

\* They are inspected in their order.
LEMMA OrderNext ==
  ASSUME Types, Place, ValuesSeen, InOrder,
         Stay \/ \E t \in Tokens : EatsMark(t) \/ EatsValue(t) \/ EatsName(t)
  PROVE  InOrder'
  <1>0. off \in Nat
    BY DEF Types
  <1>1. CASE seen' = seen
    BY <1>1 DEF InOrder
  <1>2. ASSUME NEW t \in Tokens, EatsValue(t) PROVE InOrder'
    <2>1. /\ DOMAIN seen' = DOMAIN seen \cup {Len(seen) + 1}
          /\ Len(seen) \in Nat /\ DOMAIN seen = 1 .. Len(seen)
          /\ \A n \in DOMAIN seen : seen'[n] = seen[n]
          /\ seen'[Len(seen) + 1].at = off + 1
      BY <1>2, SeenGrows
    <2>2. \A n \in DOMAIN seen : seen[n].at \in 1 .. off
      BY DEF ValuesSeen
    <2>3. ASSUME NEW n \in DOMAIN seen', NEW m \in 1 .. n - 1
          PROVE  seen'[m].at < seen'[n].at
      <3>1. CASE n \in DOMAIN seen
        <4>1. m \in DOMAIN seen
          BY <2>1, <3>1
        <4>2. QED
          BY <2>1, <2>3, <3>1, <4>1 DEF InOrder
      <3>2. CASE n = Len(seen) + 1
        <4>1. m \in DOMAIN seen
          BY <2>1, <3>2
        <4>2. QED
          BY <1>0, <2>1, <2>2, <3>2, <4>1
      <3>3. QED
        BY <2>1, <3>1, <3>2
    <2>4. QED
      BY <2>3 DEF InOrder
  <1>3. QED
    BY <1>1, <1>2 DEF Stay, EatsMark, EatsName

\* Values, and the next one, are under the last key before them.
LEMMA UnderNext ==
  ASSUME Types, Place, ValuesSeen, UnderLastKey,
         Stay \/ \E t \in Tokens : EatsMark(t) \/ EatsValue(t) \/ EatsName(t)
  PROVE  UnderLastKey'
  <1>0. /\ off \in Nat /\ Len(body) \in Nat /\ off <= Len(body)
        /\ ReadKeys \subseteq 1 .. off
        /\ \A n \in DOMAIN seen : seen[n].at \in 1 .. off
    BY LenProperties DEF Types, Place, ReadKeys, ValuesSeen
  <1>1. CASE Stay
    <2>1. /\ seen' = seen /\ off' = off /\ ckey' = ckey /\ ReadKeys' = ReadKeys
          /\ \A i \in 1 .. off : body'[i] = body[i]
      BY <1>0, <1>1, KeysStay DEF Stay
    <2>2. \A n \in DOMAIN seen : Under(ReadKeys, seen[n].at, seen[n].key)'
      BY <1>0, <2>1 DEF UnderLastKey, Under
    <2>3. Under(ReadKeys, off + 1, ckey)'
      BY <1>0, <2>1 DEF UnderLastKey, Under
    <2>4. QED
      BY <2>1, <2>2, <2>3 DEF UnderLastKey
  <1>2. ASSUME NEW t \in Tokens, EatsMark(t) PROVE UnderLastKey'
    <2>1. /\ seen' = seen /\ off' = off + 1 /\ body' = body /\ ckey' = ckey
          /\ ReadKeys' = ReadKeys
      BY <1>0, <1>2, KeysEaten DEF EatsMark, Eats
    <2>2. QED
      BY <1>0, <2>1 DEF UnderLastKey, Under
  <1>3. ASSUME NEW t \in Tokens, EatsName(t) PROVE UnderLastKey'
    <2>1. /\ seen' = seen /\ off' = off + 1 /\ body' = body /\ ckey' = t
          /\ body[off + 1] = t /\ ReadKeys' = ReadKeys \cup {off + 1}
      BY <1>0, <1>3, KeysEaten DEF EatsName, Eats
    <2>2. Under(ReadKeys, off + 1, ckey)'
      BY <1>0, <2>1 DEF Under
    <2>3. \A n \in DOMAIN seen : Under(ReadKeys, seen[n].at, seen[n].key)'
      BY <1>0, <2>1 DEF UnderLastKey, Under
    <2>4. QED
      BY <2>1, <2>2, <2>3 DEF UnderLastKey
  <1>4. ASSUME NEW t \in Tokens, EatsValue(t) PROVE UnderLastKey'
    <2>1. /\ off' = off + 1 /\ body' = body /\ ckey' = ckey /\ ReadKeys' = ReadKeys
      BY <1>0, <1>4, KeysEaten DEF EatsValue, Eats
    <2>2. Under(ReadKeys, off + 1, ckey)'
      BY <1>0, <2>1 DEF UnderLastKey, Under
    <2>3. ASSUME NEW n \in DOMAIN seen' PROVE Under(ReadKeys, seen[n].at, seen[n].key)'
      <3>1. CASE n \in DOMAIN seen
        <4>1. seen'[n] = seen[n]
          BY <1>4, <3>1, SeenGrows
        <4>2. QED
          BY <2>1, <3>1, <4>1 DEF UnderLastKey, Under
      <3>2. CASE n = Len(seen) + 1
        <4>1. seen'[n].key = ckey /\ seen'[n].at = off + 1
          BY <1>4, <3>2, SeenGrows
        <4>2. QED
          BY <2>1, <4>1 DEF UnderLastKey, Under
      <3>3. QED
        BY <1>4, <2>3, <3>1, <3>2, SeenGrows
    <2>4. QED
      BY <2>2, <2>3 DEF UnderLastKey
  <1>5. QED
    BY <1>1, <1>2, <1>3, <1>4

\* Behind the bracket of a key's arrays, an array was opened.
LEMMA OpensArray ==
  ASSUME Types, Calls, Place, pc = "opened", NEW i \in ReadKeys, Waiting(i)
  PROVE  Top = "["
  <1>1. i \in 1 .. off /\ body[i] \in Texts /\ off \in Nat
    BY DEF ReadKeys, KeyRead, Types
  <1>2. PICK j \in 1 .. off : body[j] = Top /\ Spaces(j, off)
    BY DEF Place
  <1>3. Top \in Brackets
    BY Popped DEF Types, Calls, Top
  <1>4. "{" \notin Texts /\ "[" \notin Texts /\ "space" \notin Texts
    BY TextsAreNoMarks DEF Marks
  <1>5. j # i
    BY <1>1, <1>2, <1>3, <1>4 DEF Brackets
  <1>6. ASSUME j < i PROVE FALSE
    <2>1. i \in j + 1 .. off
      BY <1>1, <1>2, <1>6
    <2>2. body[i] = "space"
      BY <1>2, <2>1 DEF Spaces
    <2>3. QED
      BY <1>1, <1>4, <2>2
  <1>7. j \in i + 1 .. off
    BY <1>1, <1>2, <1>5, <1>6
  <1>8. QED
    BY <1>2, <1>3, <1>7 DEF Waiting, Brackets

\* The key of which a value is awaited is js->ckey.
LEMMA AwaitedKey ==
  ASSUME Types, UnderLastKey, NEW i \in ReadKeys, Waiting(i)
  PROVE  body[i] = ckey /\ \A k \in ReadKeys : k <= i
  <1>1. /\ ReadKeys \subseteq 1 .. off /\ off \in Nat
        /\ \A k \in ReadKeys : body[k] \in Texts
    BY DEF ReadKeys, KeyRead, Types
  <1>2. \A k \in i + 1 .. off : body[k] \notin Texts
    BY TextsAreNoMarks DEF Waiting, Marks
  <1>3. \A k \in ReadKeys : k <= i
    BY <1>1, <1>2
  <1>4. i < off + 1
    BY <1>1
  <1>5. PICK k \in ReadKeys : body[k] = ckey /\ \A j \in ReadKeys : j <= k \/ j >= off + 1
    BY <1>1, <1>4 DEF UnderLastKey, Under
  <1>6. k = i
    BY <1>1, <1>3, <1>5
  <1>7. QED
    BY <1>3, <1>5, <1>6

\* No key is left behind.
LEMMA ServedNext ==
  ASSUME Types, Calls, Place, ValuesSeen, UnderLastKey, KeysServed,
         Stay \/ \E t \in Tokens : EatsMark(t) \/ EatsValue(t) \/ EatsName(t)
  PROVE  KeysServed'
  <1>0. /\ off \in Nat /\ Len(body) \in Nat /\ off <= Len(body)
        /\ ReadKeys \subseteq 1 .. off
        /\ \A n \in DOMAIN seen : seen[n].at \in 1 .. off
    BY LenProperties DEF Types, Place, ReadKeys, ValuesSeen
  <1>1. CASE Stay
    <2>1. /\ seen' = seen /\ off' = off /\ ReadKeys' = ReadKeys
          /\ \A i \in 1 .. Len(body) : body'[i] = body[i]
          /\ Len(body) <= Len(body') /\ Len(body') \in Int
      BY <1>0, <1>1, KeysStay DEF Stay
    <2>2. SUFFICES ASSUME NEW i \in ReadKeys
                   PROVE  (Served(ReadKeys, i) \/ EmptyArrays(i) \/ Waiting(i))'
      BY <2>1 DEF KeysServed
    <2>3. CASE Served(ReadKeys, i)
      BY <1>0, <2>1, <2>3 DEF Served
    <2>4. CASE EmptyArrays(i)
      <3>1. PICK j \in i + 1 .. Len(body) :
              body[j] = "]" /\ \A k \in i + 1 .. j - 1 : body[k] \in {"space", ":", "["}
        BY <2>4 DEF EmptyArrays
      <3>2. j \in i + 1 .. Len(body') /\ i \in 1 .. Len(body)
        BY <1>0, <2>1
      <3>3. body'[j] = "]" /\ \A k \in i + 1 .. j - 1 : body'[k] \in {"space", ":", "["}
        BY <1>0, <2>1, <3>1, <3>2
      <3>4. QED
        BY <3>2, <3>3 DEF EmptyArrays
    <2>5. CASE Waiting(i)
      <3>1. pc' \in {"colon", "val", "opened"}
        BY <1>1, <2>5, OpensArray DEF Stay, Waiting
      <3>2. \A k \in i + 1 .. off : body'[k] = body[k]
        BY <1>0, <2>1
      <3>3. QED
        BY <2>1, <2>5, <3>1, <3>2 DEF Waiting
    <2>6. QED
      BY <2>3, <2>4, <2>5 DEF KeysServed
  <1>2. ASSUME NEW t \in Tokens, EatsMark(t) PROVE KeysServed'
    <2>1. /\ seen' = seen /\ off' = off + 1 /\ body' = body /\ body[off + 1] = t
          /\ ReadKeys' = ReadKeys /\ off < Len(body)
      BY <1>0, <1>2, KeysEaten DEF EatsMark, Eats
    <2>2. SUFFICES ASSUME NEW i \in ReadKeys
                   PROVE  (Served(ReadKeys, i) \/ EmptyArrays(i) \/ Waiting(i))'
      BY <2>1 DEF KeysServed
    <2>3. CASE Served(ReadKeys, i)
      BY <1>0, <2>1, <2>3 DEF Served
    <2>4. CASE EmptyArrays(i)
      BY <2>1, <2>4 DEF EmptyArrays
    <2>5. CASE Waiting(i)
      <3>0. i + 1 .. off + 1 = i + 1 .. off \cup {off + 1}
        BY <1>0
      <3>1. CASE t \in {"space", ":", "["} /\ pc' \in {"colon", "val", "opened"}
        BY <2>1, <2>5, <3>0, <3>1 DEF Waiting
      <3>2. CASE t = Closing /\ pc \in {"opened", "after"}
        <4>1. t = "]"
          BY <2>5, <3>2, OpensArray DEF Waiting, Closing
        <4>2. PICK j \in i + 1 .. Len(body) : j = off + 1
          BY <1>0, <2>1
        <4>3. body[j] = "]" /\ \A k \in i + 1 .. j - 1 : k \in i + 1 .. off
          BY <1>0, <2>1, <4>1, <4>2
        <4>4. EmptyArrays(i)
          BY <2>5, <4>3 DEF EmptyArrays, Waiting
        <4>5. QED
          BY <2>1, <4>4 DEF EmptyArrays
      <3>3. QED
        BY <1>2, <2>5, <3>1, <3>2 DEF EatsMark, Waiting
    <2>6. QED
      BY <2>3, <2>4, <2>5 DEF KeysServed
  <1>3. ASSUME NEW t \in Tokens, EatsName(t) PROVE KeysServed'
    <2>1. /\ seen' = seen /\ off' = off + 1 /\ body' = body /\ pc' = "colon"
          /\ pc = "key" /\ ReadKeys' = ReadKeys \cup {off + 1}
      BY <1>0, <1>3, KeysEaten DEF EatsName, Eats
    <2>2. ASSUME NEW i \in ReadKeys PROVE (Served(ReadKeys, i) \/ EmptyArrays(i))'
      <3>1. CASE Served(ReadKeys, i)
        BY <1>0, <2>1, <3>1 DEF Served
      <3>2. CASE EmptyArrays(i)
        BY <2>1, <3>2 DEF EmptyArrays
      <3>3. QED
        BY <2>1, <3>1, <3>2 DEF KeysServed, Waiting
    <2>3. ASSUME NEW i, i = off + 1 PROVE Waiting(i)'
      BY <1>0, <2>1, <2>3 DEF Waiting
    <2>4. QED
      BY <2>1, <2>2, <2>3 DEF KeysServed
  <1>4. ASSUME NEW t \in Tokens, EatsValue(t) PROVE KeysServed'
    <2>1. /\ off' = off + 1 /\ body' = body /\ pc = "val" /\ ReadKeys' = ReadKeys
      BY <1>0, <1>4, KeysEaten DEF EatsValue, Eats
    <2>2. SUFFICES ASSUME NEW i \in ReadKeys
                   PROVE  (Served(ReadKeys, i) \/ EmptyArrays(i))'
      BY <2>1 DEF KeysServed
    <2>3. CASE Served(ReadKeys, i)
      <3>1. PICK n \in DOMAIN seen :
              /\ seen[n].key = body[i] /\ seen[n].at > i
              /\ \A k \in ReadKeys : k <= i \/ k > seen[n].at
        BY <2>3 DEF Served
      <3>2. n \in DOMAIN seen' /\ seen'[n] = seen[n]
        BY <1>4, SeenGrows
      <3>3. QED
        BY <2>1, <3>1, <3>2 DEF Served
    <2>4. CASE EmptyArrays(i)
      BY <2>1, <2>4 DEF EmptyArrays
    <2>5. CASE Waiting(i)
      <3>1. body[i] = ckey /\ \A k \in ReadKeys : k <= i
        BY <2>5, AwaitedKey
      <3>2. /\ Len(seen) + 1 \in DOMAIN seen'
            /\ seen'[Len(seen) + 1].key = ckey /\ seen'[Len(seen) + 1].at = off + 1
        BY <1>4, SeenGrows
      <3>3. off + 1 > i
        BY <1>0
      <3>4. Served(ReadKeys, i)'
        BY <2>1, <3>1, <3>2, <3>3 DEF Served
      <3>5. QED
        BY <3>4
    <2>6. QED
      BY <2>1, <2>3, <2>4, <2>5 DEF KeysServed, Waiting
  <1>5. QED
    BY <1>1, <1>2, <1>3, <1>4

LEMMA InitReading == Init => Reading
  BY Empty DEF Init, Reading, Place, ValuesSeen, InOrder, UnderLastKey, Under,
     KeysServed, ReadKeys

\* Rule 15 is never taken back.
LEMMA ErrorsGrow ==
  ASSUME Types, [Next]_vars, errors' = 0
  PROVE  errors = 0
  <1>1. errors \in 0 .. 2
    BY DEF Types
  <1>2. Error => errors' = errors + 1
    BY DEF Error
  <1>3. Parse => errors' = errors \/ errors' = errors + 1
    BY <1>2 DEF Parse, Start, Forward, Scalar, NoValue, Container, Opened, Key,
       Colon, After, Element, Finish
  <1>4. (\E t \in Tokens : More(t)) \/ End \/ UNCHANGED vars => errors' = errors
    BY DEF More, End, vars
  <1>5. errors' = errors \/ errors' = errors + 1
    BY <1>3, <1>4 DEF Next
  <1>6. QED
    BY <1>1, <1>5

LEMMA NextReading == IInv /\ Reading /\ [Next]_vars => Reading'
  <1> SUFFICES ASSUME IInv, Reading, [Next]_vars, errors' = 0
               PROVE  (Place /\ ValuesSeen /\ InOrder /\ UnderLastKey /\ KeysServed)'
    BY DEF Reading
  <1>1. Types /\ Calls
    BY DEF IInv, TypeOK, Types
  <1>2. errors = 0
    BY <1>1, ErrorsGrow
  <1>3. Stay \/ \E t \in Tokens : EatsMark(t) \/ EatsValue(t) \/ EatsName(t)
    BY <1>1, <1>2, StepKinds
  <1>4. Place /\ ValuesSeen /\ InOrder /\ UnderLastKey /\ KeysServed
    BY <1>2 DEF Reading
  <1>5. QED
    BY <1>1, <1>3, <1>4, PlaceNext, ValuesNext, OrderNext, UnderNext, ServedNext

\* The invariant of a parse holds of every reachable state.
THEOREM SpecReading == Spec => [](IInv /\ Reading)
  <1>1. Init => IInv /\ Reading
    BY InitIInv, InitReading
  <1>2. IInv /\ Reading /\ [Next]_vars => (IInv /\ Reading)'
    BY NextIInv, NextReading
  <1>3. QED
    BY <1>1, <1>2, PTL DEF Spec

\* In a body of any length and nesting that is accepted, the rules see every
\* value once, in its order and under the last key before it, and every key but
\* those of arrays that begin with nothing but empty arrays (naxsi_json.c).
THEOREM NothingHidden == Spec => []EverythingInspected
  <1>1. IInv /\ Reading => EverythingInspected
    <2> SUFFICES ASSUME IInv, Reading, pc = "done", errors = 0
                 PROVE  ValuesInspected /\ KeysInspected
      BY DEF EverythingInspected, Parsed
    <2>1. Types
      BY DEF IInv, TypeOK, Types
    <2>2. Place /\ ValuesSeen /\ InOrder /\ UnderLastKey /\ KeysServed
      BY DEF Reading
    <2>3. off = Len(body) /\ Len(body) \in Nat /\ DOMAIN body = 1 .. Len(body)
      BY <2>1, <2>2, LenProperties DEF Types, Place
    <2>4. \A i \in 1 .. off : KeyRead(i) <=> IsKey(i)
      BY <2>3 DEF KeyRead, IsKey
    <2>5. ReadKeys = {i \in DOMAIN body : IsKey(i)}
      BY <2>3, <2>4 DEF ReadKeys
    <2>6. \A i \in 1 .. off : i \in ReadKeys <=> IsKey(i)
      BY <2>4 DEF ReadKeys
    <2>7. {seen[n].at : n \in DOMAIN seen} = {i \in DOMAIN body : IsValue(i)}
      BY <2>2, <2>3, <2>6 DEF ValuesSeen, IsValue
    <2>8. ValuesInspected
      BY <2>2, <2>5, <2>7 DEF ValuesInspected, InOrder, UnderLastKey
    <2>9. KeysInspected
      BY <2>2, <2>3, <2>5, <2>6 DEF KeysInspected, KeysServed, Waiting
    <2>10. QED
      BY <2>8, <2>9
  <1>2. QED
    BY <1>1, SpecReading, PTL

-----------------------------------------------------------------------------
(*****************************************************************************)
(* Recursions over the places of a text                                      *)
(*****************************************************************************)

\* What holds of 0, and of every i up to n if it holds of i - 1, holds of all.
LEMMA UpTo ==
  ASSUME NEW n \in Nat, NEW S, 0 \in S,
         \A i \in 1 .. n : i - 1 \in S => i \in S
  PROVE  \A i \in 0 .. n : i \in S
<1>. DEFINE T == {i \in 0 .. n : i \notin S}
            F == {0 .. i : i \in T}
<1>1. SUFFICES ASSUME T # {} PROVE FALSE
  OBVIOUS
<1>2. \A i \in T : i \in Nat /\ 0 .. i \in SUBSET (0 .. n)
  OBVIOUS
<1>3. F \subseteq SUBSET (0 .. n) /\ F # {}
  BY <1>1, <1>2, Zenon
<1>4. F \subseteq FiniteSubsetsOf(0 .. n)
  BY <1>3, FS_Interval, FS_Subset DEF FiniteSubsetsOf
<1>5. \E x \in F : \A y \in F : ~ (<<y, x>> \in StrictSubsetOrdering(0 .. n))
  BY <1>3, <1>4, FS_StrictSubsetOrderingWellFounded, WFMin
<1>6. PICK m \in T :
        \A i \in T : ~ (<<0 .. i, 0 .. m>> \in StrictSubsetOrdering(0 .. n))
  BY <1>5, Zenon
<1>7. m \in 1 .. n /\ m - 1 \in 0 .. n
  BY <1>6
<1>8. m - 1 \in T
  BY <1>6, <1>7
<1>9. 0 .. (m - 1) \subseteq 0 .. m /\ m \in 0 .. m /\ m \notin 0 .. (m - 1)
  BY <1>7
<1>10. <<0 .. (m - 1), 0 .. m>> \in StrictSubsetOrdering(0 .. n)
  BY <1>2, <1>6, <1>8, <1>9, Zenon DEF StrictSubsetOrdering
<1>. QED BY <1>6, <1>8, <1>10

\* F is the course of a loop of n turns from c: turn i takes F[i - 1] to F[i].
Course(F, G, c, n) ==
  F[0] = c /\ \A i \in 1 .. n : F[i] = G[<<F[i - 1], i>>]

\* A loop of n turns, each of which takes C to C, has a course.
LEMMA LoopExists ==
  ASSUME NEW C, NEW c \in C, NEW n \in Nat, NEW G \in [C \X (1 .. n) -> C]
  PROVE  \E F \in [0 .. n -> C] : Course(F, G, c, n)
<1>. DEFINE S == {m \in 0 .. n : \E F \in [0 .. m -> C] : Course(F, G, c, m)}
<1>1. 0 \in S
  <2>. DEFINE E == [i \in 0 .. 0 |-> c]
  <2>1. E \in [0 .. 0 -> C] /\ E[0] = c /\ \A i \in 1 .. 0 : FALSE
    OBVIOUS
  <2>2. Course(E, G, c, 0)
    BY <2>1 DEF Course
  <2>. QED BY <2>1, <2>2
<1>2. ASSUME NEW m \in 1 .. n, m - 1 \in S
      PROVE  m \in S
  <2>1. PICK F \in [0 .. (m - 1) -> C] :
          F[0] = c /\ \A i \in 1 .. (m - 1) : F[i] = G[<<F[i - 1], i>>]
    BY <1>2 DEF Course
  <2>. DEFINE E == [i \in 0 .. m |->
                      IF i = m THEN G[<<F[m - 1], m>>] ELSE F[i]]
  <2>2. G[<<F[m - 1], m>>] \in C
    OBVIOUS
  <2>3. E \in [0 .. m -> C]
    BY <2>2
  <2>4. E[0] = c
    BY <2>1
  <2>5. ASSUME NEW i \in 1 .. m
        PROVE  E[i] = G[<<E[i - 1], i>>]
    <3>1. i - 1 \in 0 .. m /\ i - 1 # m
      OBVIOUS
    <3>2. E[i - 1] = F[i - 1]
      BY <3>1
    <3>3. CASE i = m
      <4>1. E[m] = G[<<F[m - 1], m>>]
        OBVIOUS
      <4>. HIDE DEF E
      <4>. QED BY <3>2, <3>3, <4>1
    <3>4. CASE i # m
      <4>1. i \in 1 .. (m - 1)
        BY <3>4
      <4>. QED BY <2>1, <3>2, <3>4, <4>1
    <3>. QED BY <3>3, <3>4
  <2>. HIDE DEF E
  <2>6. Course(E, G, c, m)
    BY <2>4, <2>5 DEF Course
  <2>. QED BY <2>3, <2>6
<1>3. n \in S
  <2>. HIDE DEF S
  <2>. QED BY <1>1, <1>2, UpTo
<1>. QED BY <1>3

\* What holds of each i from which on it holds, down from the last, holds of all.
LEMMA DownFrom ==
  ASSUME NEW lo \in Nat, NEW hi \in Nat, NEW S,
         \A i \in lo .. hi : (\A j \in (i + 1) .. hi : j \in S) => i \in S
  PROVE  \A i \in lo .. hi : i \in S
<1>1. CASE hi < lo
  BY <1>1
<1>2. CASE lo <= hi
  <2>. DEFINE n == hi - lo + 1
              T == {k \in 0 .. n : \A j \in (hi + 1 - k) .. hi : j \in S}
  <2>1. n \in Nat
    BY <1>2
  <2>2. 0 \in T
    BY <2>1
  <2>3. ASSUME NEW k \in 1 .. n, k - 1 \in T
        PROVE  k \in T
    <3>. DEFINE i == hi + 1 - k
    <3>1. i \in lo .. hi
      BY <1>2
    <3>2. \A j \in (i + 1) .. hi : j \in S
      BY <2>3
    <3>3. i \in S
      BY <3>1, <3>2
    <3>. QED BY <3>2, <3>3
  <2>4. \A k \in 0 .. n : k \in T
    <3>. HIDE DEF T, n
    <3>. QED BY <2>1, <2>2, <2>3, UpTo
  <2>5. n \in T
    BY <2>1, <2>4
  <2>. QED BY <2>5
<1>. QED BY <1>1, <1>2

\* G[<<i, f>>] depends on the values of f behind i only.
Backward(lo, hi, C, G) ==
  /\ lo \in Nat /\ hi \in Nat /\ C # {}
  /\ G \in [(lo .. hi) \X [lo .. hi -> C] -> C]
  /\ \A i \in lo .. hi : \A f, g \in [lo .. hi -> C] :
       (\A j \in (i + 1) .. hi : f[j] = g[j]) => G[<<i, f>>] = G[<<i, g>>]

\* A recursion in which each value depends on later ones only has a solution.
LEMMA BackwardExists ==
  ASSUME NEW lo, NEW hi, NEW C, NEW G, Backward(lo, hi, C, G)
  PROVE  \E f \in [lo .. hi -> C] : \A i \in lo .. hi : f[i] = G[<<i, f>>]
<1>. DEFINE D == lo .. hi
            FS == [D -> C]
            Solved(f, k) == \A i \in D : i >= k => f[i] = G[<<i, f>>]
            S == {k \in D : \E f \in FS : Solved(f, k)}
<1>0. /\ lo \in Nat /\ hi \in Nat
      /\ G \in [(lo .. hi) \X [lo .. hi -> C] -> C]
      /\ \A i \in lo .. hi : \A f, g \in [lo .. hi -> C] :
           (\A j \in (i + 1) .. hi : f[j] = g[j]) => G[<<i, f>>] = G[<<i, g>>]
  BY DEF Backward
<1>. PICK c \in C : TRUE
  BY DEF Backward
<1>1. /\ \A i \in D : i \in Nat /\ lo <= i /\ i <= hi
      /\ \A i \in D : \A j \in (i + 1) .. hi : j \in D /\ j > i
      /\ \A i, j \in D : j > i => j \in (i + 1) .. hi
      /\ \A i, j \in D : ~(j > i) /\ j >= i => j = i
      /\ \A i, j \in D : j > i => j >= i /\ j >= i + 1 /\ j # i
      /\ \A i \in D : i # hi => i + 1 \in D
      /\ \A i \in D : i >= lo
  BY <1>0
<1>2. /\ \A i \in D, f \in FS : G[<<i, f>>] \in C
      /\ \A i \in D, f, g \in FS :
           (\A j \in D : j > i => f[j] = g[j]) => G[<<i, f>>] = G[<<i, g>>]
      /\ \A f \in FS, m \in D, x \in C :
           \E g \in FS : g[m] = x /\ \A i \in D : i # m => g[i] = f[i]
      /\ [i \in D |-> c] \in FS
  <2>1. ASSUME NEW i \in D, NEW f \in FS, NEW g \in FS, \A j \in D : j > i => f[j] = g[j]
        PROVE  G[<<i, f>>] = G[<<i, g>>]
    <3>1. \A j \in (i + 1) .. hi : f[j] = g[j]
      BY <1>1, <2>1
    <3>. QED BY <1>0, <3>1
  <2>2. ASSUME NEW f \in FS, NEW m \in D, NEW x \in C
        PROVE  \E g \in FS : g[m] = x /\ \A i \in D : i # m => g[i] = f[i]
    <3>. DEFINE g == [f EXCEPT ![m] = x]
    <3>1. g \in FS /\ g[m] = x /\ \A i \in D : i # m => g[i] = f[i]
      OBVIOUS
    <3>. QED BY <3>1
  <2>. QED BY <1>0, <2>1, <2>2
<1>. HIDE DEF D, FS
<1>3. ASSUME NEW m \in D, \A j \in (m + 1) .. hi : j \in S
      PROVE  m \in S
  <2>1. PICK f \in FS : \A i \in D : i > m => f[i] = G[<<i, f>>]
    <3>1. CASE m = hi
      <4>1. \A i \in D : ~(i > m)
        BY <1>1, <3>1
      <4>. QED BY <1>2, <4>1, Zenon
    <3>2. CASE m # hi
      <4>1. m + 1 \in S
        <5>1. m + 1 \in (m + 1) .. hi
          BY <1>1, <3>2 DEF D
        <5>. QED BY <1>3, <5>1
      <4>2. PICK f \in FS : Solved(f, m + 1)
        BY <4>1
      <4>3. \A i \in D : i > m => i >= m + 1
        BY <1>1
      <4>. QED BY <4>2, <4>3, Zenon
    <3>. QED BY <3>1, <3>2
  <2>. DEFINE x == G[<<m, f>>]
  <2>2. x \in C
    BY <1>2
  <2>. HIDE DEF x
  <2>3. PICK g \in FS : g[m] = x /\ \A i \in D : i # m => g[i] = f[i]
    BY <1>2, <2>2
  <2>4. ASSUME NEW i \in D, i >= m
        PROVE  g[i] = G[<<i, g>>]
    <3>0. \A j \in D : j > i => j # m
      BY <1>1, <2>4
    <3>1. \A j \in D : j > i => g[j] = f[j]
      BY <2>3, <3>0, Zenon
    <3>2. G[<<i, g>>] = G[<<i, f>>]
      BY <1>2, <2>3, <3>1, ZenonT(60)
    <3>3. i = m \/ (i > m /\ i # m)
      BY <1>1, <2>4
    <3>4. CASE i = m
      BY <2>3, <3>2, <3>4, Zenon DEF x
    <3>5. CASE i > m /\ i # m
      BY <2>1, <2>3, <3>2, <3>5, Zenon
    <3>. QED BY <3>3, <3>4, <3>5
  <2>. QED BY <2>3, <2>4
<1>4. \A m \in D : m \in S
  <2>. HIDE DEF S
  <2>1. \A m \in lo .. hi : (\A j \in (m + 1) .. hi : j \in S) => m \in S
    BY <1>3 DEF D
  <2>. QED BY <1>0, <2>1, DownFrom DEF D
<1>5. CASE lo \in D
  <2>1. PICK f \in FS : Solved(f, lo)
    BY <1>4, <1>5
  <2>. QED BY <1>1, <2>1, Zenon DEF D, FS
<1>6. CASE lo \notin D
  <2>1. \A i \in D : FALSE
    BY <1>0, <1>6 DEF D
  <2>. QED BY <1>2, <2>1, Zenon DEF D, FS
<1>. QED BY <1>5, <1>6

-----------------------------------------------------------------------------
(*****************************************************************************)
(* The grammar                                                               *)
(*****************************************************************************)

\* The values with one container more around those of inner.
Level(text, inner) ==
  Scalars(text) \cup Closed(text, "[", Lists(text, inner))
                \cup Closed(text, "{", Lists(text, Members(text, inner)))
\* V is the recursion of Values.
ValuesFrom(text, d, V) ==
  /\ V \in [0 .. d -> SUBSET Spans(text)]
  /\ V[0] = Scalars(text)
  /\ \A n \in 1 .. d : V[n] = Level(text, V[n - 1])

\* What there is of each kind are spans.
LEMMA SpansAre ==
  ASSUME NEW text, NEW inner, NEW bracket
  PROVE  /\ Scalars(text) \subseteq Spans(text)
         /\ Lists(text, inner) \subseteq Spans(text)
         /\ Members(text, inner) \subseteq Spans(text)
         /\ Closed(text, bracket, inner) \subseteq Spans(text)
<1>1. Scalars(text) \subseteq Spans(text)
  BY Zenon DEF Scalars
<1>2. Lists(text, inner) \subseteq Spans(text)
  BY Zenon DEF Lists
<1>3. Members(text, inner) \subseteq Spans(text)
  BY Zenon DEF Members
<1>4. Closed(text, bracket, inner) \subseteq Spans(text)
  BY Zenon DEF Closed
<1>. QED BY <1>1, <1>2, <1>3, <1>4

\* The recursion of Values has a solution.
LEMMA ValuesIs ==
  ASSUME NEW text, NEW d \in Nat
  PROVE  \E V : ValuesFrom(text, d, V) /\ Values(text, d) = V[d]
<1>. DEFINE C == SUBSET Spans(text)
            G == [x \in C \X (1 .. d) |-> Level(text, x[1])]
            Rule(V) == V = [n \in 0 .. d |-> IF n = 0 THEN Scalars(text)
                                             ELSE Level(text, V[n - 1])]
            W == CHOOSE V : Rule(V)
<1>1. Scalars(text) \in C
  BY SpansAre, Zenon
<1>2. \A v \in C : Level(text, v) \in C
  BY SpansAre DEF Level
<1>3. G \in [C \X (1 .. d) -> C]
  <2>. HIDE DEF C
  <2>. QED BY <1>2
<1>4. PICK F \in [0 .. d -> C] : Course(F, G, Scalars(text), d)
  <2>. HIDE DEF C, G
  <2>. QED BY <1>1, <1>3, LoopExists
<1>5. F[0] = Scalars(text) /\ \A n \in 1 .. d : F[n] = Level(text, F[n - 1])
  <2>1. F[0] = Scalars(text) /\ \A n \in 1 .. d : F[n] = G[<<F[n - 1], n>>]
    BY <1>4, Zenon DEF Course
  <2>2. \A n \in 1 .. d : F[n - 1] \in C
    <3>. HIDE DEF C
    <3>1. \A n \in 1 .. d : n - 1 \in 0 .. d
      OBVIOUS
    <3>. QED BY <1>4, <3>1, Zenon
  <2>3. \A n \in 1 .. d : G[<<F[n - 1], n>>] = Level(text, F[n - 1])
    <3>. HIDE DEF C
    <3>. QED BY <2>2
  <2>. QED BY <2>1, <2>3, Zenon
<1>6. \A n \in 0 .. d : n = 0 \/ n \in 1 .. d
  OBVIOUS
<1>7. \A n \in 1 .. d : n # 0 /\ n \in 0 .. d
  OBVIOUS
<1>8. Rule(F)
  <2>1. \A n \in 0 .. d : F[n] = IF n = 0 THEN Scalars(text) ELSE Level(text, F[n - 1])
    BY <1>5, <1>6, <1>7, Zenon
  <2>2. F = [n \in 0 .. d |-> F[n]]
    BY <1>4, Zenon
  <2>. QED BY <2>1, <2>2, Zenon
<1>9. Rule(W)
  BY <1>8, Zenon
<1>10. W[0] = Scalars(text) /\ \A n \in 1 .. d : W[n] = Level(text, W[n - 1])
  <2>. HIDE DEF W
  <2>1. 0 \in 0 .. d
    OBVIOUS
  <2>. QED BY <1>7, <1>9, <2>1, Zenon
<1>11. \A n \in 0 .. d : W[n] \in C
  <2>. HIDE DEF W
  <2>. DEFINE S == {n \in 0 .. d : W[n] \in C}
  <2>1. 0 \in S
    BY <1>1, <1>10
  <2>2. \A n \in 1 .. d : n - 1 \in S => n \in S
    BY <1>2, <1>7, <1>10, Zenon
  <2>3. \A n \in 0 .. d : n \in S
    <3>. HIDE DEF S
    <3>. QED BY <2>1, <2>2, UpTo
  <2>. QED BY <2>3
<1>12. W \in [0 .. d -> C]
  <2>. HIDE DEF W, C
  <2>. QED BY <1>9, <1>11, Zenon
<1>13. ValuesFrom(text, d, W)
  BY <1>10, <1>12, Zenon DEF ValuesFrom
<1>14. Values(text, d) = W[d]
  BY SMT DEF Values, Level
<1>. QED BY <1>13, <1>14

\* There is one.
LEMMA ValuesOne ==
  ASSUME NEW text, NEW d \in Nat, NEW V, NEW e \in Nat, d <= e, NEW W,
         ValuesFrom(text, d, V), ValuesFrom(text, e, W)
  PROVE  V[d] = W[d]
<1>. DEFINE S == {n \in 0 .. d : V[n] = W[n]}
<1>1. 0 \in S
  BY DEF ValuesFrom
<1>2. ASSUME NEW n \in 1 .. d, n - 1 \in S
      PROVE  n \in S
  <2>1. n \in 1 .. e /\ n \in 0 .. d
    OBVIOUS
  <2>2. V[n] = Level(text, V[n - 1]) /\ W[n] = Level(text, W[n - 1])
    BY <2>1, Zenon DEF ValuesFrom
  <2>. QED BY <1>2, <2>1, <2>2
<1>3. \A n \in 0 .. d : n \in S
  <2>. HIDE DEF S
  <2>. QED BY <1>1, <1>2, UpTo
<1>. QED BY <1>3

\* The values, by how many containers they may have in one another.
LEMMA ValuesAre ==
  ASSUME NEW text
  PROVE  /\ Values(text, 0) = Scalars(text)
         /\ \A d \in Nat \ {0} : Values(text, d) = Level(text, Values(text, d - 1))
<1>1. Values(text, 0) = Scalars(text)
  <2>1. PICK V : ValuesFrom(text, 0, V) /\ Values(text, 0) = V[0]
    BY ValuesIs
  <2>. QED BY <2>1, Zenon DEF ValuesFrom
<1>2. ASSUME NEW d \in Nat \ {0}
      PROVE  Values(text, d) = Level(text, Values(text, d - 1))
  <2>0. d - 1 \in Nat /\ d \in Nat /\ d - 1 <= d /\ d \in 1 .. d
    OBVIOUS
  <2>1. PICK W : ValuesFrom(text, d, W) /\ Values(text, d) = W[d]
    BY <2>0, ValuesIs, Zenon
  <2>2. PICK V : ValuesFrom(text, d - 1, V) /\ Values(text, d - 1) = V[d - 1]
    BY <2>0, ValuesIs, Zenon
  <2>3. V[d - 1] = W[d - 1]
    BY <2>0, <2>1, <2>2, ValuesOne
  <2>4. W[d] = Level(text, W[d - 1])
    BY <2>0, <2>1, Zenon DEF ValuesFrom
  <2>. QED BY <2>1, <2>2, <2>3, <2>4
<1>. QED BY <1>1, <1>2

\* Where the first of a list that begins at place i may end.
FirstEnds(text, one, i) == {k \in i .. Len(text) : <<i, k>> \in one}
\* Where a comma is behind it.
Commas(text, one, i) ==
  {k \in FirstEnds(text, one, i) : k < Len(text) /\ text[k + 1] = ","}
\* Where a list may end, if that is known for the places behind.
EndsAt(text, one, i, g) ==
  FirstEnds(text, one, i) \cup UNION {g[k + 2] : k \in Commas(text, one, i)}
\* g is the recursion of Lists.
EndsFrom(text, one, g) ==
  \A i \in 1 .. Len(text) + 1 : g[i] = EndsAt(text, one, i, g)

\* The recursion of Lists has a solution.
LEMMA ListsIs ==
  ASSUME NEW text, Len(text) \in Nat, NEW one
  PROVE  \E g : /\ EndsFrom(text, one, g)
                /\ Lists(text, one) = {s \in Spans(text) : s[2] \in g[s[1]]}
<1>. DEFINE n == Len(text)
            hi == n + 1
            I == 1 .. hi
            C == SUBSET (1 .. n)
            E(i, f) == EndsAt(text, one, i, f)
            G == [x \in I \X [I -> C] |-> E(x[1], x[2])]
<1>1. n \in Nat /\ hi \in Nat /\ 1 \in Nat /\ 1 \in I /\ C # {}
  OBVIOUS
<1>2. ASSUME NEW i \in I, NEW k \in Commas(text, one, i)
      PROVE  k + 2 \in (i + 1) .. hi
  <2>1. k \in i .. n /\ k < n
    BY <1>2, Zenon DEF Commas, FirstEnds
  <2>2. i \in Nat
    BY <1>1
  <2>. HIDE DEF n
  <2>. QED BY <1>1, <2>1, <2>2
<1>3. ASSUME NEW i \in I, NEW f, \A j \in (i + 1) .. hi : f[j] \in C
      PROVE  E(i, f) \in C
  <2>1. FirstEnds(text, one, i) \in C
    BY <1>1 DEF FirstEnds
  <2>2. \A k \in Commas(text, one, i) : f[k + 2] \in C
    <3>. HIDE DEF C, hi
    <3>. QED BY <1>2, <1>3
  <2>. QED BY <2>1, <2>2 DEF EndsAt
<1>4. ASSUME NEW i \in I, NEW f, NEW g, \A j \in (i + 1) .. hi : f[j] = g[j]
      PROVE  E(i, f) = E(i, g)
  <2>. HIDE DEF hi
  <2>1. \A k \in Commas(text, one, i) : f[k + 2] = g[k + 2]
    BY <1>2, <1>4, Zenon
  <2>2. {f[k + 2] : k \in Commas(text, one, i)} = {g[k + 2] : k \in Commas(text, one, i)}
    BY <2>1, Zenon
  <2>. QED BY <2>2, Zenon DEF EndsAt
<1>5. \A i \in I : \A j \in (i + 1) .. hi : j \in I
  BY <1>1
<1>. HIDE DEF n, hi
<1>6. G \in [I \X [I -> C] -> C] /\ \A i \in I : \A f \in [I -> C] : G[<<i, f>>] = E(i, f)
  <2>1. \A i \in I : \A f \in [I -> C] : E(i, f) \in C
    <3>. HIDE DEF I, E, C
    <3>1. ASSUME NEW i \in I, NEW f \in [I -> C]
          PROVE  E(i, f) \in C
      <4>1. \A j \in (i + 1) .. hi : f[j] \in C
        BY <1>5
      <4>. QED BY <1>3, <4>1, Zenon
    <3>. QED BY <3>1
  <2>. HIDE DEF I, E, C
  <2>. QED BY <2>1
<1>. HIDE DEF E, G, C
<1>7. \A i \in I : \A f, g \in [I -> C] :
        (\A j \in (i + 1) .. hi : f[j] = g[j]) => G[<<i, f>>] = G[<<i, g>>]
  <2>. HIDE DEF I
  <2>1. ASSUME NEW i \in I, NEW f \in [I -> C], NEW g \in [I -> C],
               \A j \in (i + 1) .. hi : f[j] = g[j]
        PROVE  G[<<i, f>>] = G[<<i, g>>]
    <3>1. E(i, f) = E(i, g)
      BY <1>4, <2>1, Zenon
    <3>2. G[<<i, f>>] = E(i, f) /\ G[<<i, g>>] = E(i, g)
      BY <1>6, Zenon
    <3>. QED BY <3>1, <3>2, Zenon
  <2>. QED BY <2>1
<1>8. Backward(1, hi, C, G)
  BY <1>1, <1>6, <1>7, Zenon DEF Backward
<1>9. \E f \in [I -> C] : \A i \in I : f[i] = G[<<i, f>>]
  BY <1>8, BackwardExists
<1>10. PICK f \in [I -> C] : \A i \in I : f[i] = E(i, f)
  <2>. HIDE DEF I
  <2>. QED BY <1>6, <1>9, Zenon
<1>11. f = [i \in I |-> E(i, f)]
  <2>. HIDE DEF I
  <2>. QED BY <1>10
<1>12. PICK g : /\ g = [i \in I |-> E(i, g)]
                /\ Lists(text, one) = {s \in Spans(text) : s[2] \in g[s[1]]}
  <2>. DEFINE Rule(h) == h = [i \in I |-> E(i, h)]
              g == CHOOSE h : Rule(h)
  <2>1. Rule(g)
    BY <1>11, Zenon
  <2>2. Lists(text, one) = {s \in Spans(text) : s[2] \in g[s[1]]}
    BY SMT DEF Lists, E, EndsAt, Commas, FirstEnds, I, hi, n
  <2>. QED BY <2>1, <2>2
<1>13. \A i \in I : g[i] = E(i, g)
  <2>. HIDE DEF I
  <2>. QED BY <1>12
<1>14. EndsFrom(text, one, g)
  BY <1>13, Zenon DEF EndsFrom, E, I, hi, n
<1>. QED BY <1>12, <1>14

\* A list is one, or one with a comma and a list behind it.
LEMMA ListsRead ==
  ASSUME NEW text, Len(text) \in Nat, NEW one,
         NEW i \in 1 .. Len(text), NEW j \in 1 .. Len(text)
  PROVE  <<i, j>> \in Lists(text, one) <=>
           \E k \in i .. Len(text) :
             /\ <<i, k>> \in one
             /\ \/ k = j
                \/ k < Len(text) /\ text[k + 1] = "," /\ <<k + 2, j>> \in Lists(text, one)
<1>. DEFINE n == Len(text)
<1>1. PICK g : /\ EndsFrom(text, one, g)
               /\ Lists(text, one) = {s \in Spans(text) : s[2] \in g[s[1]]}
  BY ListsIs
<1>2. \A a, b : <<a, b>> \in Lists(text, one) <=> a \in 1 .. n /\ b \in 1 .. n /\ b \in g[a]
  BY <1>1 DEF Spans
<1>3. <<i, j>> \in Lists(text, one) <=> j \in g[i]
  <2>. HIDE DEF n
  <2>. QED BY <1>2, Zenon DEF n
<1>4. i \in 1 .. n + 1 /\ n + 1 \in 1 .. n + 1
  OBVIOUS
<1>5. g[i] = EndsAt(text, one, i, g) /\ g[n + 1] = EndsAt(text, one, n + 1, g)
  BY <1>1, <1>4, Zenon DEF EndsFrom
<1>6. g[n + 1] = {}
  <2>1. FirstEnds(text, one, n + 1) = {}
    BY DEF FirstEnds
  <2>2. Commas(text, one, n + 1) = {}
    BY <2>1 DEF Commas
  <2>. QED BY <1>5, <2>1, <2>2 DEF EndsAt
<1>7. ASSUME NEW k \in i .. n, k < n
      PROVE  j \in g[k + 2] <=> <<k + 2, j>> \in Lists(text, one)
  <2>1. CASE k + 2 = n + 1
    <3>1. k + 2 \notin 1 .. n
      BY <2>1
    <3>. QED BY <1>2, <1>6, <2>1, <3>1, Zenon
  <2>2. CASE k + 2 # n + 1
    <3>1. k + 2 \in 1 .. n
      BY <1>7, <2>2
    <3>. HIDE DEF n
    <3>. QED BY <1>2, <3>1, Zenon DEF n
  <2>. QED BY <2>1, <2>2
<1>8. j \in g[i] <=> \/ j \in FirstEnds(text, one, i)
                     \/ \E k \in Commas(text, one, i) : j \in g[k + 2]
  BY <1>5, Zenon DEF EndsAt
<1>9. j \in FirstEnds(text, one, i) <=> \E k \in i .. n : <<i, k>> \in one /\ k = j
  BY Zenon DEF FirstEnds
<1>10. (\E k \in Commas(text, one, i) : j \in g[k + 2])
       <=> \E k \in i .. n : /\ <<i, k>> \in one /\ k < n /\ text[k + 1] = ","
                             /\ <<k + 2, j>> \in Lists(text, one)
  BY <1>7, Zenon DEF Commas, FirstEnds
<1>. QED BY <1>3, <1>8, <1>9, <1>10, Zenon

-----------------------------------------------------------------------------
(*****************************************************************************)
(* A body without its white space                                            *)
(*****************************************************************************)

\* A token is kept unless it is white space.
Kept(b, i) == IF b[i] = "space" THEN << >> ELSE <<b[i]>>
\* r is the recursion of Stripped: what is left of the tokens from each place on.
StrippedFrom(b, r) ==
  /\ r \in [1 .. Len(b) + 1 -> Seq(Tokens)]
  /\ \A i \in 1 .. Len(b) + 1 :
       r[i] = IF i > Len(b) THEN << >> ELSE Kept(b, i) \o r[i + 1]

\* The recursion of Stripped has a solution.
LEMMA StrippedIs ==
  ASSUME NEW b \in Seq(Tokens)
  PROVE  \E r : StrippedFrom(b, r) /\ Stripped(b) = r[1]
<1>. DEFINE n == Len(b)
            hi == n + 1
            I == 1 .. hi
            C == Seq(Tokens)
            E(i, f) == IF i > n THEN << >> ELSE Kept(b, i) \o f[i + 1]
            G == [x \in I \X [I -> C] |-> E(x[1], x[2])]
<1>1. n \in Nat /\ hi \in Nat /\ 1 \in Nat /\ 1 \in I /\ C # {} /\ << >> \in C
  OBVIOUS
<1>2. ASSUME NEW i \in I, ~(i > n)
      PROVE  Kept(b, i) \in C /\ i + 1 \in (i + 1) .. hi
  <2>1. i \in 1 .. n
    BY <1>1, <1>2
  <2>2. b[i] \in Tokens
    BY <2>1
  <2>3. <<b[i]>> \in C
    BY <2>2
  <2>. HIDE DEF C
  <2>. QED BY <1>1, <2>1, <2>3 DEF Kept
<1>. HIDE DEF n, hi
<1>3. ASSUME NEW i \in I, NEW f, \A j \in (i + 1) .. hi : f[j] \in C
      PROVE  E(i, f) \in C
  <2>. HIDE DEF I, C
  <2>1. CASE i > n
    BY <1>1, <2>1
  <2>2. CASE ~(i > n)
    <3>1. Kept(b, i) \in C /\ f[i + 1] \in C
      BY <1>2, <1>3, <2>2
    <3>2. E(i, f) = Kept(b, i) \o f[i + 1]
      BY <2>2, Zenon
    <3>. HIDE DEF E
    <3>. QED BY <3>1, <3>2, ConcatProperties DEF C
  <2>. QED BY <2>1, <2>2
<1>4. ASSUME NEW i \in I, NEW f, NEW g, \A j \in (i + 1) .. hi : f[j] = g[j]
      PROVE  E(i, f) = E(i, g)
  <2>. HIDE DEF I, C
  <2>1. ~(i > n) => f[i + 1] = g[i + 1]
    BY <1>2, <1>4, Zenon
  <2>. QED BY <2>1, Zenon
<1>5. \A i \in I : \A j \in (i + 1) .. hi : j \in I
  BY <1>1
<1>6. G \in [I \X [I -> C] -> C] /\ \A i \in I : \A f \in [I -> C] : G[<<i, f>>] = E(i, f)
  <2>1. \A i \in I : \A f \in [I -> C] : E(i, f) \in C
    <3>. HIDE DEF I, E, C
    <3>1. ASSUME NEW i \in I, NEW f \in [I -> C]
          PROVE  E(i, f) \in C
      <4>1. \A j \in (i + 1) .. hi : f[j] \in C
        BY <1>5
      <4>. QED BY <1>3, <4>1, Zenon
    <3>. QED BY <3>1
  <2>. HIDE DEF I, E, C
  <2>. QED BY <2>1
<1>. HIDE DEF E, G, C
<1>7. \A i \in I : \A f, g \in [I -> C] :
        (\A j \in (i + 1) .. hi : f[j] = g[j]) => G[<<i, f>>] = G[<<i, g>>]
  <2>. HIDE DEF I
  <2>1. ASSUME NEW i \in I, NEW f \in [I -> C], NEW g \in [I -> C],
               \A j \in (i + 1) .. hi : f[j] = g[j]
        PROVE  G[<<i, f>>] = G[<<i, g>>]
    <3>1. E(i, f) = E(i, g)
      BY <1>4, <2>1, Zenon
    <3>2. G[<<i, f>>] = E(i, f) /\ G[<<i, g>>] = E(i, g)
      BY <1>6, Zenon
    <3>. QED BY <3>1, <3>2, Zenon
  <2>. QED BY <2>1
<1>8. Backward(1, hi, C, G)
  BY <1>1, <1>6, <1>7, Zenon DEF Backward
<1>9. \E f \in [I -> C] : \A i \in I : f[i] = G[<<i, f>>]
  BY <1>8, BackwardExists
<1>10. PICK f \in [I -> C] : \A i \in I : f[i] = E(i, f)
  <2>. HIDE DEF I
  <2>. QED BY <1>6, <1>9, Zenon
<1>11. f = [i \in I |-> E(i, f)]
  <2>. HIDE DEF I
  <2>. QED BY <1>10
<1>12. \E g : g = [i \in I |-> E(i, g)]
  BY <1>11, Zenon
<1>13. PICK g : g = [i \in I |-> E(i, g)] /\ Stripped(b) = g[1]
  BY <1>12, Zenon DEF Stripped, Kept, E, I, hi, n
<1>14. \A i \in I : g[i] = E(i, g)
  <2>. HIDE DEF I
  <2>. QED BY <1>13
<1>15. \A i \in I : g[i] \in C
  <2>. DEFINE S == {i \in I : g[i] \in C}
  <2>1. ASSUME NEW i \in 1 .. hi, \A j \in (i + 1) .. hi : j \in S
        PROVE  i \in S
    <3>1. E(i, g) \in C
      <4>1. \A j \in (i + 1) .. hi : g[j] \in C
        BY <2>1
      <4>. QED BY <1>3, <4>1, Zenon
    <3>. QED BY <1>14, <3>1
  <2>2. \A i \in 1 .. hi : i \in S
    <3>. HIDE DEF S
    <3>. QED BY <1>1, <2>1, DownFrom
  <2>. QED BY <2>2
<1>16. g \in [I -> C]
  <2>. HIDE DEF I
  <2>. QED BY <1>13, <1>15
<1>17. StrippedFrom(b, g)
  BY <1>14, <1>16, Zenon DEF StrippedFrom, E, I, C, hi, n
<1>. QED BY <1>13, <1>17

\* Tokens with one more in front.
LEMMA InFront ==
  ASSUME NEW r \in Seq(Tokens), NEW u \in Seq(Tokens), NEW t \in Tokens
  PROVE  /\ u \o (<<t>> \o r) = (u \o <<t>>) \o r
         /\ u \o <<t>> \in Seq(Tokens)
         /\ Len(<<t>> \o r) = Len(r) + 1
         /\ (u \o (<<t>> \o r))[Len(u) + 1] = t
         /\ Len(u \o (<<t>> \o r)) = Len(u) + 1 + Len(r)
<1>1. <<t>> \in Seq(Tokens) /\ Len(<<t>>) = 1 /\ <<t>>[1] = t
  OBVIOUS
<1>. DEFINE o == <<t>>
<1>. HIDE DEF o
<1>2. o \in Seq(Tokens) /\ Len(o) = 1 /\ o[1] = t
  BY <1>1 DEF o
<1>0. Len(u) \in Nat /\ Len(r) \in Nat
  BY LenProperties
<1>3. o \o r \in Seq(Tokens) /\ Len(o \o r) = 1 + Len(r) /\ (o \o r)[1] = t
  <2>1. /\ o \o r \in Seq(Tokens) /\ Len(o \o r) = Len(o) + Len(r)
        /\ \A i \in 1 .. Len(o) + Len(r) :
             (o \o r)[i] = IF i <= Len(o) THEN o[i] ELSE r[i - Len(o)]
    BY <1>2, ConcatProperties, Zenon
  <2>2. 1 \in 1 .. Len(o) + Len(r) /\ 1 <= Len(o)
    BY <1>0, <1>2
  <2>. QED BY <1>2, <2>1, <2>2
<1>4. /\ Len(u \o (o \o r)) = Len(u) + Len(o \o r)
      /\ (u \o (o \o r))[Len(u) + 1] = t
  <2>. DEFINE w == o \o r
  <2>a. w \in Seq(Tokens)
    BY <1>3
  <2>0. w \in Seq(Tokens) /\ Len(w) = 1 + Len(r) /\ w[1] = t
    BY <1>3
  <2>. HIDE DEF w
  <2>1. /\ u \o w \in Seq(Tokens) /\ Len(u \o w) = Len(u) + Len(w)
        /\ \A i \in 1 .. Len(u) + Len(w) :
             (u \o w)[i] = IF i <= Len(u) THEN u[i] ELSE w[i - Len(u)]
    BY <2>a, ConcatProperties, Zenon
  <2>2. /\ Len(u) + 1 \in 1 .. Len(u) + Len(w) /\ ~(Len(u) + 1 <= Len(u))
        /\ Len(u) + 1 - Len(u) = 1
    BY <1>0, <2>0
  <2>3. (u \o w)[Len(u) + 1] = w[Len(u) + 1 - Len(u)]
    BY <2>1, <2>2
  <2>. QED BY <2>0, <2>1, <2>2, <2>3 DEF w
<1>5. u \o (o \o r) = (u \o o) \o r
  BY <1>2, ConcatAssociative
<1>6. u \o o \in Seq(Tokens)
  BY <1>2, ConcatProperties
<1>. QED BY <1>0, <1>3, <1>4, <1>5, <1>6 DEF o

\* Where the token at place k of b is in the stripped text, or the next one.
Rests(b) == CHOOSE r : StrippedFrom(b, r) /\ Stripped(b) = r[1]
Spot(b, k) == Len(Rests(b)[1]) - Len(Rests(b)[k]) + 1

\* What is left at the first place is all.
LEMMA RestsAre ==
  ASSUME NEW b \in Seq(Tokens)
  PROVE  StrippedFrom(b, Rests(b)) /\ Stripped(b) = Rests(b)[1]
BY StrippedIs, Zenon DEF Rests

\* What is left is the end of all.
LEMMA RestEnds ==
  ASSUME NEW b \in Seq(Tokens), NEW r, StrippedFrom(b, r)
  PROVE  \A k \in 0 .. Len(b) : \E u \in Seq(Tokens) : r[1] = u \o r[k + 1]
<1>. DEFINE n == Len(b)
            S == {k \in 0 .. n : \E u \in Seq(Tokens) : r[1] = u \o r[k + 1]}
<1>1. n \in Nat /\ \A i \in 1 .. n : b[i] \in Tokens
  OBVIOUS
<1>2. \A i \in 1 .. n + 1 : r[i] \in Seq(Tokens)
  BY DEF StrippedFrom
<1>3. 0 \in S
  <2>1. r[1] \in Seq(Tokens)
    BY <1>1, <1>2
  <2>2. << >> \in Seq(Tokens)
    BY EmptySeq
  <2>3. r[1] = << >> \o r[1]
    BY <2>1, ConcatEmptySeq
  <2>4. \E u \in Seq(Tokens) : r[1] = u \o r[1]
    BY <2>2, <2>3, Zenon
  <2>5. 0 \in 0 .. n /\ 0 + 1 = 1
    BY <1>1
  <2>. QED BY <2>4, <2>5
<1>4. ASSUME NEW k \in 1 .. n, k - 1 \in S
      PROVE  k \in S
  <2>1. k + 1 \in 1 .. n + 1 /\ k \in 1 .. n + 1 /\ ~(k > n) /\ (k - 1) + 1 = k /\ k \in 0 .. n
    BY <1>1
  <2>2. PICK u \in Seq(Tokens) : r[1] = u \o r[k]
    BY <1>4, <2>1
  <2>3. r[k] = Kept(b, k) \o r[k + 1]
    BY <2>1, Zenon DEF StrippedFrom
  <2>4. r[k + 1] \in Seq(Tokens) /\ b[k] \in Tokens
    BY <1>1, <1>2, <2>1
  <2>5. CASE b[k] = "space"
    <3>1. r[k] = r[k + 1]
      <4>1. r[k] = << >> \o r[k + 1]
        BY <2>3, <2>5, Zenon DEF Kept
      <4>. QED BY <2>4, <4>1, ConcatEmptySeq
    <3>. QED BY <2>1, <2>2, <3>1
  <2>6. CASE b[k] # "space"
    <3>1. r[1] = u \o (<<b[k]>> \o r[k + 1])
      BY <2>2, <2>3, <2>6, Zenon DEF Kept
    <3>2. r[1] = (u \o <<b[k]>>) \o r[k + 1] /\ u \o <<b[k]>> \in Seq(Tokens)
      BY <2>4, <3>1, InFront
    <3>. QED BY <2>1, <3>2
  <2>. QED BY <2>5, <2>6
<1>5. \A k \in 0 .. n : k \in S
  <2>. HIDE DEF S
  <2>. QED BY <1>1, <1>3, <1>4, UpTo
<1>. QED BY <1>5

\* White space has no spot of its own, and any other token is at its spot.
LEMMA Spots ==
  ASSUME NEW b \in Seq(Tokens)
  PROVE  /\ Stripped(b) \in Seq(Tokens)
         /\ Spot(b, 1) = 1
         /\ Spot(b, Len(b) + 1) = Len(Stripped(b)) + 1
         /\ \A k \in 1 .. Len(b) :
              /\ b[k] = "space" => Spot(b, k + 1) = Spot(b, k)
              /\ b[k] # "space" => /\ Spot(b, k) \in 1 .. Len(Stripped(b))
                                   /\ Stripped(b)[Spot(b, k)] = b[k]
                                   /\ Spot(b, k + 1) = Spot(b, k) + 1
<1>. DEFINE n == Len(b)
            r == Rests(b)
            t == Stripped(b)
<1>1. n \in Nat /\ \A i \in 1 .. n : b[i] \in Tokens
  OBVIOUS
<1>2. StrippedFrom(b, r) /\ t = r[1]
  BY RestsAre
<1>3. \A i \in 1 .. n + 1 : r[i] \in Seq(Tokens)
  BY <1>2 DEF StrippedFrom
<1>4. \A k : Spot(b, k) = Len(t) - Len(r[k]) + 1
  BY <1>2 DEF Spot
<1>. HIDE DEF r, t
<1>5. t \in Seq(Tokens) /\ Len(t) \in Nat
  <2>1. r[1] \in Seq(Tokens)
    BY <1>1, <1>3
  <2>. QED BY <1>2, <2>1, LenProperties
<1>6. Spot(b, 1) = 1
  <2>1. Spot(b, 1) = Len(t) - Len(t) + 1
    BY <1>2, <1>4
  <2>. QED BY <1>5, <2>1
<1>7. Spot(b, n + 1) = Len(t) + 1
  <2>1. n + 1 \in 1 .. n + 1 /\ n + 1 > n
    BY <1>1
  <2>2. r[n + 1] = << >>
    BY <1>2, <2>1, Zenon DEF StrippedFrom
  <2>3. Len(r[n + 1]) = 0
    BY <2>2, EmptySeq
  <2>4. Spot(b, n + 1) = Len(t) - Len(r[n + 1]) + 1
    BY <1>4, Zenon
  <2>. QED BY <1>5, <2>3, <2>4
<1>8. ASSUME NEW k \in 1 .. n
      PROVE  /\ b[k] = "space" => Spot(b, k + 1) = Spot(b, k)
             /\ b[k] # "space" => /\ Spot(b, k) \in 1 .. Len(t)
                                  /\ t[Spot(b, k)] = b[k]
                                  /\ Spot(b, k + 1) = Spot(b, k) + 1
  <2>1. k + 1 \in 1 .. n + 1 /\ k \in 1 .. n + 1 /\ ~(k > n) /\ k - 1 \in 0 .. n
        /\ (k - 1) + 1 = k
    BY <1>1
  <2>2. r[k] = Kept(b, k) \o r[k + 1]
    BY <1>2, <2>1, Zenon DEF StrippedFrom
  <2>3. r[k + 1] \in Seq(Tokens) /\ b[k] \in Tokens /\ Len(r[k + 1]) \in Nat
    <3>1. r[k + 1] \in Seq(Tokens) /\ b[k] \in Tokens
      BY <1>1, <1>3, <2>1
    <3>. QED BY <3>1, LenProperties
  <2>4. CASE b[k] = "space"
    <3>1. r[k] = << >> \o r[k + 1]
      BY <2>2, <2>4, Zenon DEF Kept
    <3>2. r[k] = r[k + 1]
      BY <2>3, <3>1, ConcatEmptySeq
    <3>. QED BY <1>4, <2>4, <3>2, Zenon
  <2>5. CASE b[k] # "space"
    <3>1. PICK u \in Seq(Tokens) : t = u \o r[k]
      <4>1. \A l \in 0 .. n : \E u \in Seq(Tokens) : r[1] = u \o r[l + 1]
        BY <1>2, RestEnds
      <4>2. \E u \in Seq(Tokens) : r[1] = u \o r[(k - 1) + 1]
        BY <2>1, <4>1, Zenon
      <4>. QED BY <1>2, <2>1, <4>2
    <3>2. r[k] = <<b[k]>> \o r[k + 1]
      BY <2>2, <2>5, Zenon DEF Kept
    <3>3. t = u \o (<<b[k]>> \o r[k + 1])
      BY <3>1, <3>2, Zenon
    <3>4. /\ Len(r[k]) = Len(r[k + 1]) + 1
          /\ t[Len(u) + 1] = b[k]
          /\ Len(t) = Len(u) + 1 + Len(r[k + 1])
      <4>. DEFINE v == r[k + 1]
      <4>1. v \in Seq(Tokens)
        BY <2>3
      <4>. HIDE DEF v
      <4>2. /\ Len(<<b[k]>> \o v) = Len(v) + 1
            /\ (u \o (<<b[k]>> \o v))[Len(u) + 1] = b[k]
            /\ Len(u \o (<<b[k]>> \o v)) = Len(u) + 1 + Len(v)
        BY <2>3, <4>1, InFront, Zenon
      <4>. QED BY <3>2, <3>3, <4>2, Zenon DEF v
    <3>5. Len(u) \in Nat
      BY LenProperties
    <3>6. Spot(b, k) = Len(u) + 1 /\ Spot(b, k + 1) = Len(u) + 2
      <4>1. Spot(b, k) = Len(t) - Len(r[k]) + 1 /\ Spot(b, k + 1) = Len(t) - Len(r[k + 1]) + 1
        BY <1>4, Zenon
      <4>. DEFINE x == Len(r[k + 1])
      <4>2. x \in Nat /\ Len(r[k]) = x + 1 /\ Len(t) = Len(u) + 1 + x
            /\ Spot(b, k + 1) = Len(t) - x + 1
        BY <2>3, <3>4, <4>1
      <4>. HIDE DEF x
      <4>. QED BY <3>5, <4>1, <4>2
    <3>7. Len(u) + 1 \in 1 .. Len(t) /\ Len(u) + 2 = (Len(u) + 1) + 1
      <4>. DEFINE x == Len(r[k + 1])
      <4>1. x \in Nat /\ Len(t) = Len(u) + 1 + x
        BY <2>3, <3>4
      <4>. HIDE DEF x
      <4>. QED BY <3>5, <4>1
    <3>. QED BY <2>5, <3>4, <3>6, <3>7, Zenon
  <2>. QED BY <2>4, <2>5
<1>. QED BY <1>5, <1>6, <1>7, <1>8 DEF t

-----------------------------------------------------------------------------
(*****************************************************************************)
(* Values, and how a stack of containers goes on                             *)
(*****************************************************************************)

\* The tokens that are values.
ScalarTokens == Texts \cup {"number", "literal"}
\* The bracket that closes what this one opens.
Close(bracket) == IF bracket = "[" THEN "]" ELSE "}"

\* What a container that this bracket opens has between its commas.
Inside(text, bracket, d) ==
  IF bracket = "[" THEN Values(text, d) ELSE Members(text, Values(text, d))

\* The tokens that matter to the grammar are different from each other.
LEMMA TokensDiffer ==
  /\ \A b \in Brackets : /\ b \notin ScalarTokens /\ Close(b) \notin ScalarTokens
                         /\ Close(b) \notin Brackets /\ Close(b) # "," /\ Close(b) # "end"
  /\ "," \notin ScalarTokens /\ ":" \notin ScalarTokens
  /\ \A b \in Brackets : b = "[" \/ b = "{"
  /\ "[" \in Brackets /\ "{" \in Brackets /\ "[" # "{"
  BY JsonAssumption DEF ScalarTokens, Close, Brackets, Marks

\* A value is a scalar, or a container that is opened and closed.
LEMMA ValueIs ==
  ASSUME NEW text, NEW d \in Nat, NEW i, NEW j
  PROVE  <<i, j>> \in Values(text, d) <=>
           /\ <<i, j>> \in Spans(text)
           /\ \/ i = j /\ text[i] \in ScalarTokens
              \/ /\ d > 0 /\ i < j /\ text[i] \in Brackets /\ text[j] = Close(text[i])
                 /\ \/ i + 1 = j
                    \/ <<i + 1, j - 1>> \in Lists(text, Inside(text, text[i], d - 1))
<1>. DEFINE Scalar1 == <<i, j>> \in Spans(text) /\ i = j /\ text[i] \in ScalarTokens
            Container1(x) ==
              /\ <<i, j>> \in Spans(text)
              /\ i < j /\ text[i] = x /\ text[j] = Close(x)
              /\ i + 1 = j \/ <<i + 1, j - 1>> \in Lists(text, Inside(text, x, d - 1))
            w == <<i, j>>
<1>0. w[1] = i /\ w[2] = j
  OBVIOUS
<1>1. w \in Scalars(text) <=> Scalar1
  <2>1. w \in Scalars(text) <=> w \in Spans(text) /\ w[1] = w[2] /\ text[w[1]] \in ScalarTokens
    BY Zenon DEF Scalars, ScalarTokens
  <2>. QED BY <1>0, <2>1, Zenon
<1>2. CASE d = 0
  <2>1. Values(text, d) = Scalars(text)
    BY <1>2, ValuesAre, Zenon
  <2>2. ~(d > 0)
    BY <1>2
  <2>. QED BY <1>1, <2>1, <2>2, Zenon
<1>3. CASE d # 0
  <2>1. d > 0 /\ d \in Nat \ {0}
    BY <1>3
  <2>2. Values(text, d) = Level(text, Values(text, d - 1))
    BY <2>1, ValuesAre, Zenon
  <2>3. /\ Inside(text, "[", d - 1) = Values(text, d - 1)
        /\ Inside(text, "{", d - 1) = Members(text, Values(text, d - 1))
        /\ Close("[") = "]" /\ Close("{") = "}"
    BY DEF Inside, Close
  <2>4. ASSUME NEW x \in Brackets
        PROVE  w \in Closed(text, x, Lists(text, Inside(text, x, d - 1))) <=> Container1(x)
    <3>1. w \in Closed(text, x, Lists(text, Inside(text, x, d - 1)))
          <=> /\ w \in Spans(text) /\ w[1] < w[2] /\ text[w[1]] = x /\ text[w[2]] = Close(x)
              /\ \/ w[1] + 1 = w[2]
                 \/ <<w[1] + 1, w[2] - 1>> \in Lists(text, Inside(text, x, d - 1))
      BY Zenon DEF Closed, Close
    <3>. HIDE DEF w
    <3>. QED BY <1>0, <3>1, Zenon DEF w
  <2>5. w \in Values(text, d) <=> Scalar1 \/ Container1("[") \/ Container1("{")
    <3>1. w \in Level(text, Values(text, d - 1))
          <=> \/ w \in Scalars(text)
              \/ w \in Closed(text, "[", Lists(text, Inside(text, "[", d - 1)))
              \/ w \in Closed(text, "{", Lists(text, Inside(text, "{", d - 1)))
      BY <2>3, Zenon DEF Level
    <3>. HIDE DEF w
    <3>. QED BY <1>1, <2>2, <2>4, <3>1, TokensDiffer, Zenon
  <2>6. (Container1("[") \/ Container1("{")) <=> text[i] \in Brackets /\ Container1(text[i])
    BY TokensDiffer, Zenon
  <2>. QED BY <2>1, <2>5, <2>6, Zenon
<1>. QED BY <1>2, <1>3

\* A member is a name, a colon and a value.
LEMMA MemberIs ==
  ASSUME NEW text, NEW values, NEW i, NEW j
  PROVE  <<i, j>> \in Members(text, values) <=>
           /\ <<i, j>> \in Spans(text) /\ i + 2 <= j
           /\ text[i] \in Texts /\ text[i + 1] = ":" /\ <<i + 2, j>> \in values
<1>. DEFINE w == <<i, j>>
<1>1. w[1] = i /\ w[2] = j
  OBVIOUS
<1>2. w \in Members(text, values) <=>
        /\ w \in Spans(text) /\ w[1] + 2 <= w[2]
        /\ text[w[1]] \in Texts /\ text[w[1] + 1] = ":" /\ <<w[1] + 2, w[2]>> \in values
  BY Zenon DEF Members
<1>. HIDE DEF w
<1>. QED BY <1>1, <1>2, Zenon DEF w

\* A span is two places of the text.
LEMMA SpanIs ==
  ASSUME NEW text, NEW i, NEW j
  PROVE  <<i, j>> \in Spans(text) <=> i \in 1 .. Len(text) /\ j \in 1 .. Len(text)
  BY DEF Spans

\* What is inside a container ends behind its first token, which is a scalar or
\* an opening bracket.
LEMMA InsideIs ==
  ASSUME NEW text, Len(text) \in Nat, NEW bracket, NEW d \in Nat, NEW i, NEW j,
         <<i, j>> \in Inside(text, bracket, d)
  PROVE  /\ i \in 1 .. Len(text) /\ j \in i .. Len(text)
         /\ text[i] \in ScalarTokens \cup Brackets
<1>1. CASE bracket = "["
  <2>1. <<i, j>> \in Values(text, d)
    BY <1>1, Zenon DEF Inside
  <2>2. /\ <<i, j>> \in Spans(text) /\ (i = j \/ i < j)
        /\ text[i] \in ScalarTokens \cup Brackets
    BY <2>1, ValueIs, Zenon
  <2>3. i \in 1 .. Len(text) /\ j \in 1 .. Len(text)
    BY <2>2, SpanIs, Zenon
  <2>4. j \in i .. Len(text)
    BY <2>2, <2>3
  <2>. QED BY <2>2, <2>3, <2>4
<1>2. CASE bracket # "["
  <2>1. <<i, j>> \in Members(text, Values(text, d))
    BY <1>2, Zenon DEF Inside
  <2>2. <<i, j>> \in Spans(text) /\ i + 2 <= j /\ text[i] \in Texts
    BY <2>1, MemberIs, Zenon
  <2>3. i \in 1 .. Len(text) /\ j \in 1 .. Len(text)
    BY <2>2, SpanIs, Zenon
  <2>4. j \in i .. Len(text)
    BY <2>2, <2>3
  <2>5. text[i] \in ScalarTokens
    BY <2>2, Zenon DEF ScalarTokens
  <2>. QED BY <2>3, <2>4, <2>5, Zenon
<1>. QED BY <1>1, <1>2

\* Behind an element, at place p, a container goes on until its bracket, which
\* is in front of place q.
Shut(text, bracket, d, p, q) ==
  /\ p \in 1 .. Len(text) /\ q \in 2 .. Len(text) + 1
  /\ text[q - 1] = Close(bracket)
  /\ \/ p = q - 1
     \/ text[p] = "," /\ <<p + 1, q - 2>> \in Lists(text, Inside(text, bracket, d))

\* c has the places at which the containers of stack s go on.
Chain(text, s, c) ==
  /\ c \in [0 .. Len(s) -> 1 .. Len(text) + 1]
  /\ c[0] = Len(text) + 1
  /\ \A h \in 1 .. Len(s) : Shut(text, s[h], JSON_MAX_DEPTH - h, c[h], c[h - 1])

\* The places from which on the text closes the containers of s, and ends.
Onward(text, s) ==
  {p \in 1 .. Len(text) + 1 : \E c : Chain(text, s, c) /\ c[Len(s)] = p}

\* Stack s is stack rest and container x.
Pushed(s, rest, x) ==
  /\ rest \in Seq(Brackets) /\ s \in Seq(Brackets) /\ x \in Brackets
  /\ Len(s) = Len(rest) + 1 /\ Len(s) <= JSON_MAX_DEPTH
  /\ s[Len(s)] = x
  /\ \A h \in 1 .. Len(rest) : s[h] = rest[h]

\* With nothing open, the text ends.
LEMMA OnwardEmpty ==
  ASSUME NEW text, Len(text) \in Nat
  PROVE  Onward(text, << >>) = {Len(text) + 1}
<1>. DEFINE n == Len(text)
            c == [h \in 0 .. 0 |-> n + 1]
            e == << >>
<1>1. Len(e) = 0
  BY EmptySeq
<1>2. c \in [0 .. 0 -> 1 .. n + 1] /\ c[0] = n + 1 /\ \A h \in 1 .. 0 : FALSE
  OBVIOUS
<1>. HIDE DEF c, e
<1>3. Chain(text, e, c)
  BY <1>1, <1>2 DEF Chain
<1>4. n + 1 \in 1 .. n + 1
  OBVIOUS
<1>5. n + 1 \in Onward(text, e)
  BY <1>1, <1>2, <1>3, <1>4, Zenon DEF Onward
<1>6. \A p \in Onward(text, e) : p = n + 1
  BY <1>1, Zenon DEF Onward, Chain
<1>7. Onward(text, e) = {n + 1}
  <2>. HIDE DEF n
  <2>. QED BY <1>5, <1>6
<1>. QED BY <1>7 DEF e

\* With a container open, it is shut, and what is around it goes on.
LEMMA OnwardPushed ==
  ASSUME NEW text, Len(text) \in Nat, NEW s, NEW rest, NEW x, Pushed(s, rest, x), NEW p
  PROVE  p \in Onward(text, s) <=>
           \E q \in Onward(text, rest) : Shut(text, x, JSON_MAX_DEPTH - Len(s), p, q)
<1>. DEFINE n == Len(text)
            m == Len(rest)
            M == JSON_MAX_DEPTH
<1>1. m \in Nat /\ Len(s) = m + 1 /\ s[m + 1] = x /\ \A h \in 1 .. m : s[h] = rest[h]
  BY LenProperties DEF Pushed
<1>2. M \in Nat /\ n \in Nat
  BY JsonAssumption
<1>. HIDE DEF m, n, M
<1>3. ASSUME NEW c, Chain(text, s, c), c[m + 1] = p
      PROVE  \E q \in Onward(text, rest) : Shut(text, x, M - (m + 1), p, q)
  <2>. DEFINE e == [h \in 0 .. m |-> c[h]]
  <2>1. /\ c \in [0 .. m + 1 -> 1 .. n + 1] /\ c[0] = n + 1
        /\ \A h \in 1 .. m + 1 : Shut(text, s[h], M - h, c[h], c[h - 1])
    BY <1>1, <1>3, Zenon DEF Chain, n, M
  <2>2. /\ e \in [0 .. m -> 1 .. n + 1] /\ \A h \in 0 .. m : e[h] = c[h]
    BY <1>1, <2>1
  <2>. HIDE DEF e
  <2>3. 0 \in 0 .. m /\ m \in 0 .. m /\ m + 1 \in 1 .. m + 1 /\ (m + 1) - 1 = m
        /\ \A h \in 1 .. m : h \in 1 .. m + 1 /\ h \in 0 .. m /\ h - 1 \in 0 .. m
    BY <1>1
  <2>4. Chain(text, rest, e)
    <3>1. \A h \in 1 .. m : Shut(text, rest[h], M - h, e[h], e[h - 1])
      BY <1>1, <2>1, <2>2, <2>3, Zenon
    <3>. QED BY <2>1, <2>2, <2>3, <3>1, Zenon DEF Chain, m, n, M
  <2>5. e[m] \in Onward(text, rest)
    <3>1. e[m] \in 1 .. n + 1
      BY <2>2, <2>3
    <3>. QED BY <2>4, <3>1, Zenon DEF Onward, m, n
  <2>6. Shut(text, x, M - (m + 1), p, e[m])
    BY <1>1, <1>3, <2>1, <2>2, <2>3, Zenon
  <2>. QED BY <2>5, <2>6
<1>4. ASSUME NEW q \in Onward(text, rest), Shut(text, x, M - (m + 1), p, q)
      PROVE  \E c : Chain(text, s, c) /\ c[m + 1] = p /\ p \in 1 .. n + 1
  <2>1. PICK e : Chain(text, rest, e) /\ e[m] = q
    BY <1>4, Zenon DEF Onward, m
  <2>2. /\ e \in [0 .. m -> 1 .. n + 1] /\ e[0] = n + 1
        /\ \A h \in 1 .. m : Shut(text, rest[h], M - h, e[h], e[h - 1])
    BY <2>1, Zenon DEF Chain, m, n, M
  <2>. DEFINE c == [h \in 0 .. m + 1 |-> IF h = m + 1 THEN p ELSE e[h]]
  <2>3. p \in 1 .. n + 1
    <3>1. p \in 1 .. n
      BY <1>4, Zenon DEF Shut, n
    <3>. QED BY <1>2, <3>1
  <2>4. /\ c \in [0 .. m + 1 -> 1 .. n + 1] /\ c[m + 1] = p
        /\ \A h \in 0 .. m : c[h] = e[h]
    BY <1>1, <2>2, <2>3
  <2>. HIDE DEF c
  <2>5. /\ 0 \in 0 .. m /\ m \in 0 .. m /\ (m + 1) - 1 = m
        /\ \A h \in 1 .. m : h \in 0 .. m /\ h - 1 \in 0 .. m
        /\ \A h \in 1 .. m + 1 : h = m + 1 \/ h \in 1 .. m
    BY <1>1
  <2>6. \A h \in 1 .. m + 1 : Shut(text, s[h], M - h, c[h], c[h - 1])
    BY <1>1, <1>4, <2>1, <2>2, <2>4, <2>5, Zenon
  <2>7. Chain(text, s, c)
    BY <1>1, <2>2, <2>4, <2>5, <2>6, Zenon DEF Chain, n, M
  <2>. QED BY <2>3, <2>4, <2>7
<1>5. p \in Onward(text, s) <=> \E c : Chain(text, s, c) /\ c[m + 1] = p /\ p \in 1 .. n + 1
  BY <1>1, Zenon DEF Onward, n
<1>6. Onward(text, s) \subseteq 1 .. n + 1
  BY Zenon DEF Onward, n
<1>. QED BY <1>1, <1>3, <1>4, <1>5, Zenon DEF M

\* Elements from place p on, and their container is closed: an element is at
\* place p, and behind it the container goes on.
Elements(text, rest, x, d, p) ==
  \E q \in Onward(text, rest) :
    /\ q \in 2 .. Len(text) + 1 /\ text[q - 1] = Close(x)
    /\ <<p, q - 2>> \in Lists(text, Inside(text, x, d))

\* They are one element, and the container goes on behind it.
LEMMA ElementsAre ==
  ASSUME NEW text, Len(text) \in Nat, NEW s, NEW rest, NEW x, Pushed(s, rest, x), NEW p,
         NEW d, d = JSON_MAX_DEPTH - Len(s)
  PROVE  Elements(text, rest, x, d, p) <=>
           \E k : <<p, k>> \in Inside(text, x, d) /\ k + 1 \in Onward(text, s)
<1>. DEFINE n == Len(text)
            I == Inside(text, x, d)
            L == Lists(text, I)
<1>1. d \in Nat /\ n \in Nat
  BY JsonAssumption, LenProperties DEF Pushed
<1>2. \A i, j : <<i, j>> \in I => i \in 1 .. n /\ j \in i .. n
  BY <1>1, InsideIs, Zenon
<1>3. \A i, j : <<i, j>> \in L => i \in 1 .. n /\ j \in 1 .. n
  <2>1. L \subseteq Spans(text)
    BY SpansAre, Zenon
  <2>. HIDE DEF L
  <2>. QED BY <2>1, SpanIs, Zenon
<1>. HIDE DEF I
<1>4. \A i \in 1 .. n, j \in 1 .. n :
        <<i, j>> \in L <=> \E k \in i .. n : /\ <<i, k>> \in I
                                             /\ \/ k = j
                                                \/ k < n /\ text[k + 1] = "," /\ <<k + 2, j>> \in L
  BY <1>1, ListsRead, Zenon
<1>5. \A k : k + 1 \in Onward(text, s) <=> \E q \in Onward(text, rest) : Shut(text, x, d, k + 1, q)
  BY <1>1, OnwardPushed, Zenon
<1>. HIDE DEF n, L
<1>6. ASSUME NEW q \in Onward(text, rest), q \in 2 .. n + 1, text[q - 1] = Close(x),
             <<p, q - 2>> \in L
      PROVE  \E k : <<p, k>> \in I /\ k + 1 \in Onward(text, s)
  <2>1. p \in 1 .. n /\ q - 2 \in 1 .. n
    BY <1>3, <1>6, Zenon
  <2>2. PICK k \in p .. n : /\ <<p, k>> \in I
                            /\ \/ k = q - 2
                               \/ k < n /\ text[k + 1] = "," /\ <<k + 2, q - 2>> \in L
    BY <1>4, <1>6, <2>1, Zenon
  <2>3. CASE k = q - 2
    <3>1. k + 1 = q - 1 /\ k + 1 \in 1 .. n
      BY <1>1, <1>6, <2>1, <2>3
    <3>2. Shut(text, x, d, k + 1, q)
      BY <1>6, <3>1, Zenon DEF Shut, n
    <3>. QED BY <1>5, <2>2, <3>2, Zenon
  <2>4. CASE k < n /\ text[k + 1] = "," /\ <<k + 2, q - 2>> \in L
    <3>1. (k + 1) + 1 = k + 2 /\ k + 1 \in 1 .. n
      <4>1. k < n
        BY <2>4, Zenon
      <4>. QED BY <1>1, <2>1, <4>1
    <3>2. Shut(text, x, d, k + 1, q)
      BY <1>6, <2>4, <3>1, Zenon DEF Shut, n, L, I
    <3>. QED BY <1>5, <2>2, <3>2, Zenon
  <2>. QED BY <2>2, <2>3, <2>4
<1>7. ASSUME NEW k, <<p, k>> \in I, k + 1 \in Onward(text, s)
      PROVE  \E q \in Onward(text, rest) : /\ q \in 2 .. n + 1 /\ text[q - 1] = Close(x)
                                           /\ <<p, q - 2>> \in L
  <2>1. p \in 1 .. n /\ k \in p .. n
    BY <1>2, <1>7, Zenon
  <2>2. PICK q \in Onward(text, rest) : Shut(text, x, d, k + 1, q)
    BY <1>5, <1>7, Zenon
  <2>3. /\ k + 1 \in 1 .. n /\ q \in 2 .. n + 1 /\ text[q - 1] = Close(x)
        /\ \/ k + 1 = q - 1
           \/ text[k + 1] = "," /\ <<(k + 1) + 1, q - 2>> \in L
    BY <2>2, Zenon DEF Shut, n, L, I
  <2>4. k < n /\ (k + 1) + 1 = k + 2 /\ (k + 1 = q - 1 => k = q - 2)
    <3>1. k + 1 \in 1 .. n /\ q \in 2 .. n + 1
      BY <2>3
    <3>. QED BY <1>1, <2>1, <3>1
  <2>5. q - 2 \in 1 .. n
    <3>1. CASE k + 1 = q - 1
      <4>1. k + 1 \in 1 .. n /\ q \in 2 .. n + 1
        BY <2>3
      <4>. QED BY <1>1, <2>1, <3>1, <4>1
    <3>2. CASE <<(k + 1) + 1, q - 2>> \in L
      BY <1>3, <3>2, Zenon
    <3>. QED BY <2>3, <3>1, <3>2
  <2>6. <<p, q - 2>> \in L
    BY <1>4, <1>7, <2>1, <2>3, <2>4, <2>5, Zenon
  <2>. QED BY <2>3, <2>6
<1>. QED BY <1>6, <1>7, Zenon DEF Elements, n, L, I

-----------------------------------------------------------------------------
(*****************************************************************************)
(* What the waiting calls expect                                             *)
(*****************************************************************************)

\* What the functions that wait expect of the text from place p on: a value, an
\* element of the container x or its end, a first element or the end.
ValueAt(text, s, p) ==
  \E k : <<p, k>> \in Values(text, JSON_MAX_DEPTH - Len(s)) /\ k + 1 \in Onward(text, s)
ElementAt(text, s, x, p) ==
  \E k : /\ <<p, k>> \in Inside(text, x, JSON_MAX_DEPTH - Len(s))
         /\ k + 1 \in Onward(text, s)
OpenedAt(text, s, rest, x, p) ==
  \/ Elements(text, rest, x, JSON_MAX_DEPTH - Len(s), p)
  \/ p \in 1 .. Len(text) /\ text[p] = Close(x) /\ p + 1 \in Onward(text, rest)

\* What is left of the limit is a number.
LEMMA RoomIs ==
  ASSUME NEW s \in Seq(Brackets), Len(s) <= JSON_MAX_DEPTH
  PROVE  JSON_MAX_DEPTH - Len(s) \in Nat /\ Len(s) \in Nat
  BY JsonAssumption, LenProperties

\* One container more leaves one less.
LEMMA PushedRoom ==
  ASSUME NEW s, NEW rest, NEW x, Pushed(s, rest, x)
  PROVE  /\ JSON_MAX_DEPTH - Len(s) \in Nat
         /\ JSON_MAX_DEPTH - Len(rest) - 1 = JSON_MAX_DEPTH - Len(s)
         /\ JSON_MAX_DEPTH - Len(rest) > 0 /\ JSON_MAX_DEPTH - Len(rest) \in Nat
         /\ x \in Brackets
  BY JsonAssumption, LenProperties DEF Pushed

\* A scalar is a value, and behind it the text goes on.
LEMMA ReadScalar ==
  ASSUME NEW text, Len(text) \in Nat, NEW s \in Seq(Brackets), Len(s) <= JSON_MAX_DEPTH,
         NEW p \in 1 .. Len(text), text[p] \in ScalarTokens
  PROVE  ValueAt(text, s, p) <=> p + 1 \in Onward(text, s)
<1>. DEFINE d == JSON_MAX_DEPTH - Len(s)
<1>1. d \in Nat
  BY RoomIs
<1>. HIDE DEF d
<1>2. text[p] \notin Brackets
  BY TokensDiffer, Zenon
<1>3. \A k : <<p, k>> \in Values(text, d) <=> k = p
  <2>1. <<p, p>> \in Spans(text)
    BY SpanIs, Zenon
  <2>. QED BY <1>1, <1>2, <2>1, ValueIs, Zenon
<1>. QED BY <1>3, Zenon DEF ValueAt, d

\* Where none begins there is no value.
LEMMA ReadNoValue ==
  ASSUME NEW text, Len(text) \in Nat, NEW s \in Seq(Brackets), Len(s) <= JSON_MAX_DEPTH,
         NEW p, p \in 1 .. Len(text) => text[p] \notin ScalarTokens \cup Brackets
  PROVE  ~ValueAt(text, s, p)
<1>. DEFINE d == JSON_MAX_DEPTH - Len(s)
<1>1. d \in Nat
  BY RoomIs
<1>. HIDE DEF d
<1>2. \A k : <<p, k>> \notin Values(text, d)
  BY <1>1, ValueIs, SpanIs, Zenon
<1>. QED BY <1>2, Zenon DEF ValueAt, d

\* A list ends behind its first token.
LEMMA ListsForward ==
  ASSUME NEW text, Len(text) \in Nat, NEW one, NEW i, NEW j, <<i, j>> \in Lists(text, one)
  PROVE  i \in 1 .. Len(text) /\ j \in i .. Len(text)
<1>. DEFINE n == Len(text)
            L == Lists(text, one)
            S == {k \in 1 .. n : \A l \in 1 .. n : <<k, l>> \in L => k <= l}
<1>1. n \in Nat /\ 1 \in Nat
  OBVIOUS
<1>2. \A k, l : <<k, l>> \in L => k \in 1 .. n /\ l \in 1 .. n
  <2>1. L \subseteq Spans(text)
    BY SpansAre, Zenon
  <2>. HIDE DEF L
  <2>. QED BY <2>1, SpanIs, Zenon
<1>3. \A k \in 1 .. n, l \in 1 .. n : <<k, l>> \in L =>
        \E m \in k .. n : m = l \/ (m < n /\ <<m + 2, l>> \in L)
  BY ListsRead, Zenon
<1>. HIDE DEF L, n
<1>4. ASSUME NEW k \in 1 .. n, \A m \in (k + 1) .. n : m \in S
      PROVE  k \in S
  <2>1. ASSUME NEW l \in 1 .. n, <<k, l>> \in L
        PROVE  k <= l
    <3>1. PICK m \in k .. n : m = l \/ (m < n /\ <<m + 2, l>> \in L)
      BY <1>3, <2>1, Zenon
    <3>2. CASE m = l
      BY <1>1, <3>2
    <3>3. CASE <<m + 2, l>> \in L
      <4>1. m + 2 \in 1 .. n
        BY <1>2, <3>3, Zenon
      <4>2. m + 2 \in (k + 1) .. n
        BY <1>1, <4>1
      <4>3. m + 2 <= l
        BY <1>4, <3>3, <4>2, Zenon
      <4>. QED BY <1>1, <4>1, <4>3
    <3>. QED BY <3>1, <3>2, <3>3
  <2>. QED BY <2>1
<1>5. \A k \in 1 .. n : k \in S
  <2>. HIDE DEF S
  <2>. QED BY <1>1, <1>4, DownFrom
<1>6. i \in 1 .. n /\ j \in 1 .. n
  BY <1>2, Zenon DEF L
<1>7. i <= j
  BY <1>5, <1>6, Zenon DEF L
<1>8. j \in i .. n
  BY <1>1, <1>6, <1>7
<1>. QED BY <1>6, <1>8 DEF n

\* A bracket opens a container, unless there are too many.
LEMMA ReadContainer ==
  ASSUME NEW text, Len(text) \in Nat, NEW s, NEW rest, NEW x, Pushed(s, rest, x),
         NEW p \in 1 .. Len(text), text[p] = x
  PROVE  ValueAt(text, rest, p) <=> OpenedAt(text, s, rest, x, p + 1)
<1>. DEFINE d == JSON_MAX_DEPTH - Len(rest)
            n == Len(text)
            L == Lists(text, Inside(text, x, d - 1))
<1>1. d \in Nat /\ d > 0 /\ x \in Brackets /\ d - 1 = JSON_MAX_DEPTH - Len(s)
  BY PushedRoom
<1>2. n \in Nat /\ p \in 1 .. n
  OBVIOUS
<1>. HIDE DEF d
<1>3. \A k : <<p, k>> \in Values(text, d)
             <=> /\ k \in 1 .. n /\ p < k /\ text[k] = Close(x)
                 /\ p + 1 = k \/ <<p + 1, k - 1>> \in L
  <2>1. text[p] \in Brackets /\ text[p] \notin ScalarTokens
    BY <1>1, TokensDiffer, Zenon
  <2>2. ASSUME NEW k
        PROVE  <<p, k>> \in Values(text, d)
               <=> /\ k \in 1 .. n /\ p < k /\ text[k] = Close(x)
                   /\ p + 1 = k \/ <<p + 1, k - 1>> \in L
    <3>1. <<p, k>> \in Values(text, d) <=>
            /\ <<p, k>> \in Spans(text)
            /\ \/ p = k /\ text[p] \in ScalarTokens
               \/ /\ d > 0 /\ p < k /\ text[p] \in Brackets /\ text[k] = Close(text[p])
                  /\ \/ p + 1 = k
                     \/ <<p + 1, k - 1>> \in Lists(text, Inside(text, text[p], d - 1))
      BY <1>1, ValueIs, Zenon
    <3>2. <<p, k>> \in Spans(text) <=> k \in 1 .. n
      BY <1>2, SpanIs, Zenon
    <3>. QED BY <1>1, <2>1, <3>1, <3>2, Zenon
  <2>. QED BY <2>2
<1>4. Onward(text, rest) \subseteq 1 .. n + 1
  BY Zenon DEF Onward
<1>5. \A i, j : <<i, j>> \in L => i \in 1 .. n /\ j \in i .. n
  BY ListsForward, Zenon
<1>. HIDE DEF L, n
<1>6. ASSUME NEW k, <<p, k>> \in Values(text, d), k + 1 \in Onward(text, rest)
      PROVE  OpenedAt(text, s, rest, x, p + 1)
  <2>1. k \in 1 .. n /\ p < k /\ text[k] = Close(x) /\ (p + 1 = k \/ <<p + 1, k - 1>> \in L)
    BY <1>3, <1>6, Zenon
  <2>2. CASE p + 1 = k
    BY <1>6, <2>1, <2>2, Zenon DEF OpenedAt, n
  <2>3. CASE <<p + 1, k - 1>> \in L
    <3>1. (k + 1) - 1 = k /\ (k + 1) - 2 = k - 1 /\ k + 1 \in 2 .. n + 1
      BY <1>2, <2>1
    <3>2. Elements(text, rest, x, d - 1, p + 1)
      BY <1>6, <2>1, <2>3, <3>1, Zenon DEF Elements, n, L
    <3>. QED BY <1>1, <3>2, Zenon DEF OpenedAt
  <2>. QED BY <2>1, <2>2, <2>3
<1>7. ASSUME OpenedAt(text, s, rest, x, p + 1)
      PROVE  \E k : <<p, k>> \in Values(text, d) /\ k + 1 \in Onward(text, rest)
  <2>1. CASE p + 1 \in 1 .. n /\ text[p + 1] = Close(x) /\ (p + 1) + 1 \in Onward(text, rest)
    <3>1. p < p + 1
      BY <1>2
    <3>. QED BY <1>3, <2>1, <3>1, Zenon
  <2>2. CASE Elements(text, rest, x, d - 1, p + 1)
    <3>1. PICK q \in Onward(text, rest) :
            /\ q \in 2 .. n + 1 /\ text[q - 1] = Close(x) /\ <<p + 1, q - 2>> \in L
      BY <2>2, Zenon DEF Elements, n, L
    <3>2. p + 1 \in 1 .. n /\ q - 2 \in p + 1 .. n
      BY <1>5, <3>1, Zenon
    <3>3. q - 1 \in 1 .. n /\ p < q - 1 /\ (q - 1) - 1 = q - 2 /\ (q - 1) + 1 = q
      BY <1>2, <3>1, <3>2
    <3>4. <<p, q - 1>> \in Values(text, d)
      BY <1>3, <3>1, <3>3, Zenon
    <3>. QED BY <3>1, <3>3, <3>4, Zenon
  <2>. QED BY <1>1, <1>7, <2>1, <2>2, Zenon DEF OpenedAt, n
<1>. QED BY <1>6, <1>7, Zenon DEF ValueAt, d

\* Behind an opening bracket: its closing one, or an element.
LEMMA ReadOpened ==
  ASSUME NEW text, Len(text) \in Nat, NEW s, NEW rest, NEW x, Pushed(s, rest, x), NEW p
  PROVE  /\ p \in 1 .. Len(text) /\ text[p] = Close(x) =>
              (OpenedAt(text, s, rest, x, p) <=> p + 1 \in Onward(text, rest))
         /\ ~(p \in 1 .. Len(text) /\ text[p] = Close(x)) =>
              (OpenedAt(text, s, rest, x, p) <=> ElementAt(text, s, x, p))
<1>. DEFINE d == JSON_MAX_DEPTH - Len(s)
<1>1. d \in Nat /\ x \in Brackets
  BY PushedRoom
<1>2. Elements(text, rest, x, d, p) <=> ElementAt(text, s, x, p)
  <2>1. Elements(text, rest, x, d, p)
        <=> \E k : <<p, k>> \in Inside(text, x, d) /\ k + 1 \in Onward(text, s)
    BY ElementsAre
  <2>. QED BY <2>1, Zenon DEF ElementAt
<1>3. ElementAt(text, s, x, p) => ~(p \in 1 .. Len(text) /\ text[p] = Close(x))
  <2>1. \A k : <<p, k>> \in Inside(text, x, d) => text[p] \in ScalarTokens \cup Brackets
    <3>. HIDE DEF d
    <3>. QED BY <1>1, InsideIs, Zenon
  <2>. QED BY <1>1, <2>1, TokensDiffer, Zenon DEF ElementAt
<1>. QED BY <1>2, <1>3, Zenon DEF OpenedAt

\* Behind an element: a comma and another, or the closing bracket.
LEMMA ReadOn ==
  ASSUME NEW text, Len(text) \in Nat, NEW s, NEW rest, NEW x, Pushed(s, rest, x), NEW p
  PROVE  /\ p \in 1 .. Len(text) /\ text[p] = Close(x) =>
              (p \in Onward(text, s) <=> p + 1 \in Onward(text, rest))
         /\ p \in 1 .. Len(text) /\ text[p] = "," =>
              (p \in Onward(text, s) <=> ElementAt(text, s, x, p + 1))
         /\ ~(p \in 1 .. Len(text) /\ text[p] \in {",", Close(x)}) => p \notin Onward(text, s)
<1>. DEFINE d == JSON_MAX_DEPTH - Len(s)
            n == Len(text)
<1>1. d \in Nat /\ x \in Brackets /\ Close(x) # "," /\ n \in Nat
  BY PushedRoom, TokensDiffer
<1>. HIDE DEF d
<1>2. p \in Onward(text, s) <=>
        \E q \in Onward(text, rest) :
          /\ p \in 1 .. n /\ q \in 2 .. n + 1 /\ text[q - 1] = Close(x)
          /\ \/ p = q - 1
             \/ text[p] = "," /\ <<p + 1, q - 2>> \in Lists(text, Inside(text, x, d))
  BY OnwardPushed, Zenon DEF Shut, d
<1>3. \A q \in Onward(text, rest) : q \in 1 .. n + 1
  BY Zenon DEF Onward
<1>4. ASSUME p \in 1 .. n, text[p] = Close(x)
      PROVE  p \in Onward(text, s) <=> p + 1 \in Onward(text, rest)
  <2>1. /\ p + 1 \in 2 .. n + 1 /\ (p + 1) - 1 = p
        /\ \A q \in 2 .. n + 1 : p = q - 1 => q = p + 1
    <3>1. p \in 1 .. n
      BY <1>4
    <3>2. n \in Nat
      BY <1>1
    <3>. HIDE DEF n
    <3>3. p + 1 \in 2 .. n + 1 /\ (p + 1) - 1 = p
      BY <3>1, <3>2
    <3>4. ASSUME NEW q \in 2 .. n + 1, p = q - 1
          PROVE  q = p + 1
      BY <3>2, <3>4
    <3>. QED BY <3>3, <3>4
  <2>2. p \in Onward(text, s) <=>
          \E q \in Onward(text, rest) : q \in 2 .. n + 1 /\ text[q - 1] = Close(x) /\ p = q - 1
    BY <1>1, <1>2, <1>4, Zenon
  <2>. QED BY <1>4, <2>1, <2>2, Zenon
<1>5. ASSUME p \in 1 .. n, text[p] = ","
      PROVE  p \in Onward(text, s) <=> ElementAt(text, s, x, p + 1)
  <2>1. Elements(text, rest, x, d, p + 1)
        <=> \E k : <<p + 1, k>> \in Inside(text, x, d) /\ k + 1 \in Onward(text, s)
    BY ElementsAre DEF d
  <2>2. p \in Onward(text, s) <=> Elements(text, rest, x, d, p + 1)
    BY <1>1, <1>2, <1>5, Zenon DEF Elements
  <2>. QED BY <2>1, <2>2, Zenon DEF ElementAt, d
<1>6. ASSUME ~(p \in 1 .. n /\ text[p] \in {",", Close(x)})
      PROVE  p \notin Onward(text, s)
  BY <1>2, <1>6, Zenon
<1>. QED BY <1>4, <1>5, <1>6

\* The name of a member, and the colon behind it.
LEMMA ReadName ==
  ASSUME NEW text, Len(text) \in Nat, NEW s \in Seq(Brackets), Len(s) <= JSON_MAX_DEPTH,
         NEW p
  PROVE  ElementAt(text, s, "{", p) <=>
           /\ p \in 1 .. Len(text) /\ text[p] \in Texts
           /\ p + 1 \in 1 .. Len(text) /\ text[p + 1] = ":" /\ ValueAt(text, s, p + 2)
<1>. DEFINE d == JSON_MAX_DEPTH - Len(s)
            n == Len(text)
<1>1. d \in Nat /\ n \in Nat
  BY RoomIs
<1>. HIDE DEF d
<1>2. \A i, j : <<i, j>> \in Inside(text, "{", d) <=>
                  /\ i \in 1 .. n /\ j \in 1 .. n /\ i + 2 <= j
                  /\ text[i] \in Texts /\ text[i + 1] = ":"
                  /\ <<i + 2, j>> \in Values(text, d)
  <2>1. Inside(text, "{", d) = Members(text, Values(text, d))
    BY DEF Inside
  <2>2. ASSUME NEW i, NEW j
        PROVE  <<i, j>> \in Members(text, Values(text, d)) <=>
                 /\ i \in 1 .. n /\ j \in 1 .. n /\ i + 2 <= j
                 /\ text[i] \in Texts /\ text[i + 1] = ":"
                 /\ <<i + 2, j>> \in Values(text, d)
    BY MemberIs, SpanIs, Zenon
  <2>. QED BY <2>1, <2>2, Zenon
<1>3. \A i, j : <<i, j>> \in Values(text, d) => i \in 1 .. n /\ j \in 1 .. n /\ i <= j
  <2>1. \A i, j : <<i, j>> \in Values(text, d) => i \in 1 .. n /\ j \in 1 .. n /\ (i = j \/ i < j)
    BY <1>1, ValueIs, SpanIs, Zenon
  <2>2. \A i, j \in 1 .. n : (i = j \/ i < j) => i <= j
    BY <1>1
  <2>. QED BY <2>1, <2>2, Zenon
<1>4. ASSUME p \in 1 .. n, p + 2 \in 1 .. n
      PROVE  p + 1 \in 1 .. n
  BY <1>1, <1>4
<1>. QED BY <1>2, <1>3, <1>4, Zenon DEF ElementAt, ValueAt, d

\* Too many containers: there is no value.
LEMMA ReadTooDeep ==
  ASSUME NEW text, Len(text) \in Nat, NEW s \in Seq(Brackets), Len(s) = JSON_MAX_DEPTH,
         NEW p, text[p] \in Brackets
  PROVE  ~ValueAt(text, s, p)
<1>. DEFINE d == JSON_MAX_DEPTH - Len(s)
<1>1. d \in Nat /\ ~(d > 0)
  BY JsonAssumption
<1>. HIDE DEF d
<1>2. \A k : <<p, k>> \notin Values(text, d)
  BY <1>1, ValueIs, TokensDiffer, Zenon
<1>. QED BY <1>2, Zenon DEF ValueAt, d

\* A stack without its last container.
Outer(s) == SubSeq(s, 1, Len(s) - 1)

\* A stack is what is below its last container, and that.
LEMMA PushedOuter ==
  ASSUME NEW s \in Seq(Brackets), s # << >>, Len(s) <= JSON_MAX_DEPTH
  PROVE  Pushed(s, Outer(s), s[Len(s)])
<1>. DEFINE n == Len(s)
            r == Outer(s)
<1>1. n \in Nat /\ n >= 1
  BY EmptySeq
<1>2. r \in Seq(Brackets) /\ Len(r) = n - 1 /\ s[n] \in Brackets
  BY Popped DEF Outer
<1>3. \A h \in 1 .. n - 1 : r[h] = s[h]
  <2>1. \A i \in 1 .. n : s[i] \in Brackets
    BY ElementOfSeq
  <2>2. \A i \in 1 .. n - 1 : s[i] \in Brackets
    BY <1>1, <2>1
  <2>3. n - 1 \in Int /\ 1 \in Int
    BY <1>1
  <2>4. \A i \in 1 .. Len(r) : r[i] = s[1 + i - 1]
    BY <2>2, <2>3, SubSeqProperties DEF Outer
  <2>5. \A i \in 1 .. n - 1 : 1 + i - 1 = i
    BY <1>1
  <2>. HIDE DEF r, n
  <2>. QED BY <1>2, <2>4, <2>5
<1>. HIDE DEF r
<1>4. n = Len(r) + 1
  BY <1>1, <1>2
<1>. HIDE DEF n
<1>5. \A h \in 1 .. Len(r) : s[h] = r[h]
  BY <1>2, <1>3
<1>. QED BY <1>2, <1>4, <1>5, Zenon DEF Pushed, n, r

\* And so is one that grows.
LEMMA PushedAppend ==
  ASSUME NEW s \in Seq(Brackets), NEW x \in Brackets, Len(s) + 1 <= JSON_MAX_DEPTH
  PROVE  Pushed(Append(s, x), s, x) /\ Outer(Append(s, x)) = s
<1>. DEFINE a == Append(s, x)
<1>1. /\ a \in Seq(Brackets) /\ Len(a) = Len(s) + 1 /\ a # << >>
      /\ a[Len(s) + 1] = x /\ \A i \in 1 .. Len(s) : a[i] = s[i]
  BY AppendProperties
<1>. HIDE DEF a
<1>2. Pushed(a, s, x)
  BY <1>1 DEF Pushed
<1>3. Outer(a) = s
  <2>1. Pushed(a, Outer(a), a[Len(a)])
    BY <1>1, PushedOuter
  <2>2. /\ Outer(a) \in Seq(Brackets) /\ Len(a) = Len(Outer(a)) + 1
        /\ \A h \in 1 .. Len(Outer(a)) : a[h] = Outer(a)[h]
    BY <2>1, Zenon DEF Pushed
  <2>3. Len(Outer(a)) \in Nat /\ Len(s) \in Nat
    BY <2>2, LenProperties
  <2>4. Len(Outer(a)) = Len(s)
    BY <1>1, <2>2, <2>3
  <2>5. \A h \in 1 .. Len(s) : Outer(a)[h] = s[h]
    BY <1>1, <2>2, <2>4
  <2>. QED BY <2>2, <2>4, <2>5, SeqEqual
<1>. QED BY <1>2, <1>3 DEF a

\* What the rest of the text, from place p on, must be for the function that
\* waits at place, with stack s.
Expects(place, s, text, p) ==
  CASE place \in {"start", "val"} -> ValueAt(text, s, p)
    [] place = "opened" -> OpenedAt(text, s, Outer(s), s[Len(s)], p)
    [] place = "key" -> ElementAt(text, s, "{", p)
    [] place = "colon" -> /\ p \in 1 .. Len(text) /\ text[p] = ":"
                          /\ ValueAt(text, s, p + 1)
    [] OTHER -> p \in Onward(text, s)

\* The cases of Expects.
LEMMA ExpectsIs ==
  ASSUME NEW s, NEW text, NEW p
  PROVE  /\ Expects("start", s, text, p) <=> ValueAt(text, s, p)
         /\ Expects("val", s, text, p) <=> ValueAt(text, s, p)
         /\ Expects("opened", s, text, p) <=> OpenedAt(text, s, Outer(s), s[Len(s)], p)
         /\ Expects("key", s, text, p) <=> ElementAt(text, s, "{", p)
         /\ Expects("colon", s, text, p) <=> /\ p \in 1 .. Len(text) /\ text[p] = ":"
                                             /\ ValueAt(text, s, p + 1)
         /\ Expects("after", s, text, p) <=> p \in Onward(text, s)
         /\ Expects("finish", s, text, p) <=> p \in Onward(text, s)
  BY DEF Expects

\* What is expected where _array goes on to a value, and _obj to a name.
LEMMA FirstElement ==
  ASSUME NEW s, NEW text, NEW p, NEW x \in Brackets
  PROVE  Expects(IF x = "[" THEN "val" ELSE "key", s, text, p) <=> ElementAt(text, s, x, p)
<1>1. CASE x = "["
  <2>1. Inside(text, x, JSON_MAX_DEPTH - Len(s)) = Values(text, JSON_MAX_DEPTH - Len(s))
    BY <1>1, Zenon DEF Inside
  <2>2. ElementAt(text, s, x, p) <=> ValueAt(text, s, p)
    BY <2>1, Zenon DEF ElementAt, ValueAt
  <2>. QED BY <1>1, <2>2, ExpectsIs, Zenon
<1>2. CASE x # "["
  BY <1>2, TokensDiffer, ExpectsIs, Zenon
<1>. QED BY <1>1, <1>2

\* A body that may yet be the one that is sent.
Whole(b) ==
  /\ b \in Seq(Tokens) /\ Len(body) <= Len(b)
  /\ \A i \in 1 .. Len(body) : b[i] = body[i]
  /\ ended => Len(b) = Len(body)

\* What the parser looks at is at its spot of the text.
LEMMA Looking ==
  ASSUME body \in Seq(Tokens), off \in Nat, off <= Len(body), Known, NEW b, Whole(b)
  PROVE  /\ Char = "space" => off < Len(body) /\ Spot(b, (off + 1) + 1) = Spot(b, off + 1)
         /\ Char = "end" => off = Len(body) /\ Spot(b, off + 1) = Len(Stripped(b)) + 1
         /\ Char \notin {"space", "end"} =>
              /\ off < Len(body)
              /\ Spot(b, off + 1) \in 1 .. Len(Stripped(b))
              /\ Stripped(b)[Spot(b, off + 1)] = Char
              /\ Spot(b, (off + 1) + 1) = Spot(b, off + 1) + 1
<1>0. b \in Seq(Tokens) /\ Len(body) \in Nat /\ Len(b) \in Nat /\ Len(body) <= Len(b)
  BY LenProperties DEF Whole
<1>1. CASE off < Len(body)
  <2>1. off + 1 \in 1 .. Len(body) /\ off + 1 \in 1 .. Len(b)
    BY <1>0, <1>1
  <2>2. Char = body[off + 1] /\ b[off + 1] = body[off + 1] /\ body[off + 1] \in Tokens
    <3>1. Char = body[off + 1]
      BY <1>1, Zenon DEF Char
    <3>2. b[off + 1] = body[off + 1]
      BY <2>1, Zenon DEF Whole
    <3>3. body[off + 1] \in Tokens
      BY <2>1
    <3>. QED BY <3>1, <3>2, <3>3
  <2>3. Char # "end"
    <3>1. "end" \notin Tokens
      BY JsonAssumption DEF Tokens, Marks
    <3>. QED BY <2>2, <3>1
  <2>4. /\ b[off + 1] = "space" => Spot(b, (off + 1) + 1) = Spot(b, off + 1)
        /\ b[off + 1] # "space" =>
             /\ Spot(b, off + 1) \in 1 .. Len(Stripped(b))
             /\ Stripped(b)[Spot(b, off + 1)] = b[off + 1]
             /\ Spot(b, (off + 1) + 1) = Spot(b, off + 1) + 1
    BY <1>0, <2>1, Spots, Zenon
  <2>. QED BY <1>1, <2>2, <2>3, <2>4, Zenon
<1>2. CASE ~(off < Len(body))
  <2>1. off = Len(body)
    BY <1>0, <1>2
  <2>2. Char = "end" /\ ended
    BY <1>2, Zenon DEF Char, Known
  <2>3. Len(b) = Len(body)
    BY <2>2, Zenon DEF Whole
  <2>4. Spot(b, Len(b) + 1) = Len(Stripped(b)) + 1
    BY <1>0, Spots, Zenon
  <2>. QED BY <2>1, <2>2, <2>3, <2>4
<1>. QED BY <1>1, <1>2

-----------------------------------------------------------------------------
(*****************************************************************************)
(* The calls expect what the grammar does                                    *)
(*****************************************************************************)

\* What the places of the parser say of its calls.
Stage ==
  /\ pc \in {"key", "colon"} => stack # << >> /\ Top = "{"
  /\ pc \in {"start", "finish"} => stack = << >>
  /\ pc = "start" => off = 0
  /\ errors = 0 => off <= Len(body)

\* Until rule 15 is applied, body b is JSON if, and only if, its rest is what
\* the waiting calls expect; and then b is none.
Right(b) ==
  IF errors > 0 THEN ~Derives(Stripped(b))
  ELSE Derives(Stripped(b)) <=> Expects(pc, stack, Stripped(b), Spot(b, off + 1))

\* The body of a parse without error is JSON, unless nothing was parsed at all.
Outcome == pc = "done" /\ errors = 0 => off = 0 \/ (ended /\ Derives(Stripped(body)))

\* What is known of the bodies that may yet be the whole one: the invariant.
Judged ==
  /\ Stage
  /\ pc # "done" \/ errors > 0 => \A b : Whole(b) => Right(b)
  /\ Outcome

\* What the types of the state say at a place of the parser.
LEMMA StateIs ==
  ASSUME IInv, Stage
  PROVE  /\ body \in Seq(Tokens) /\ off \in Nat /\ stack \in Seq(Brackets)
         /\ Len(stack) <= JSON_MAX_DEPTH /\ errors \in 0 .. 2 /\ pc \in Places
         /\ pc \notin {"finish", "done"} => errors = 0 /\ depth = Len(stack)
         /\ pc \in {"opened", "key", "colon", "after"} => stack # << >>
         /\ errors = 0 => off <= Len(body)
         /\ Len(body) \in Nat
<1>1. Len(body) \in Nat
  BY LenProperties DEF IInv, TypeOK
<1>. QED BY <1>1 DEF IInv, TypeOK, Calls, Stage

\* The same characters begin no value and no name.
LEMMA NotBegun ==
  /\ \A c \in Unclosed \cup {"nul", "]", "}", ":", ",", "junk"} :
       /\ c \notin ScalarTokens \cup Brackets /\ c \notin Texts /\ c \notin {"space", "end"}
  /\ \A c \in ScalarTokens \cup Brackets : c \notin {"space", "end"}
  /\ \A c \in Texts : c \notin {"space", "end"} /\ c \in ScalarTokens
  BY JsonAssumption DEF ScalarTokens, Brackets, Marks, Unclosed

\* A closing bracket is one of two characters.
LEMMA BracketsShut ==
  \A x \in Brackets : Close(x) \in {"]", "}"} /\ Close(x) \notin {"space", "end", ","}
  BY DEF Close

\* An error keeps what is known when no value is there that was expected.
LEMMA RightError ==
  ASSUME Error, errors = 0, NEW b, Right(b),
         ~Expects(pc, stack, Stripped(b), Spot(b, off + 1))
  PROVE  Right(b)'
<1>1. ~Derives(Stripped(b))
  BY Zenon DEF Right
<1>2. errors' > 0
  BY DEF Error
<1>. QED BY <1>1, <1>2, Zenon DEF Right

\* A step without error keeps it when it leads from one expectation to the next.
LEMMA RightOn ==
  ASSUME errors = 0, UNCHANGED errors, NEW b, Right(b),
         Expects(pc, stack, Stripped(b), Spot(b, off + 1))
           <=> Expects(pc', stack', Stripped(b), Spot(b, off' + 1))
  PROVE  Right(b)'
<1>1. ~(errors > 0) /\ ~(errors' > 0)
  OBVIOUS
<1>. QED BY <1>1, Zenon DEF Right

\* White space is not in the text.
LEMMA RightForward ==
  ASSUME IInv, Stage, Forward, NEW b, Whole(b), Right(b)
  PROVE  Right(b)'
<1>1. Known /\ Char = "space" /\ off' = off + 1 /\ UNCHANGED <<pc, stack, errors>>
  BY DEF Forward, Advance
<1>2. CASE errors > 0
  BY <1>1, <1>2, Zenon DEF Right
<1>3. CASE ~(errors > 0)
  <2>1. errors = 0
    BY <1>3, StateIs
  <2>2. Spot(b, (off + 1) + 1) = Spot(b, off + 1)
    BY <1>1, <2>1, StateIs, Looking, Zenon
  <2>3. Spot(b, off' + 1) = Spot(b, off + 1) /\ pc' = pc /\ stack' = stack
    BY <1>1, <2>2, Zenon
  <2>. QED BY <1>1, <2>1, <2>3, RightOn, Zenon
<1>. QED BY <1>2, <1>3, Zenon

\* The text and the place that are looked at.
LEMMA TextIs ==
  ASSUME NEW b, Whole(b)
  PROVE  Len(Stripped(b)) \in Nat
<1>1. Stripped(b) \in Seq(Tokens)
  BY Spots DEF Whole
<1>. QED BY <1>1, LenProperties

\* A scalar is read, or a string is refused.
LEMMA RightScalar ==
  ASSUME IInv, Stage, Scalar, NEW b, Whole(b), Right(b)
  PROVE  Right(b)'
<1>. DEFINE t == Stripped(b)
            p == Spot(b, off + 1)
<1>1. pc = "val" /\ Known /\ Char # "space" /\ errors = 0
  BY StateIs, Zenon DEF Scalar, At
<1>2. Len(t) \in Nat
  BY TextIs
<1>3. CASE Char \in ScalarTokens /\ Advance(1) /\ Returned(stack) /\ UNCHANGED <<stack, errors>>
  <2>1. Char \notin {"space", "end"}
    BY <1>3, NotBegun, Zenon
  <2>2. p \in 1 .. Len(t) /\ t[p] = Char /\ Spot(b, (off + 1) + 1) = p + 1
    BY <1>1, <2>1, StateIs, Looking, Zenon
  <2>3. Spot(b, off' + 1) = p + 1
    BY <1>3, <2>2, Zenon DEF Advance
  <2>4. pc' \in {"finish", "after"} /\ stack' = stack
    BY <1>3 DEF Returned, Goto
  <2>. HIDE DEF t, p
  <2>5. ValueAt(t, stack, p) <=> p + 1 \in Onward(t, stack)
    BY <1>2, <1>3, <2>2, StateIs, ReadScalar
  <2>6. Expects("val", stack, t, p) <=> ValueAt(t, stack, p)
    BY ExpectsIs
  <2>7. Expects(pc', stack, t, p + 1) <=> p + 1 \in Onward(t, stack)
    BY <2>4, ExpectsIs
  <2>. USE DEF t, p
  <2>8. Expects(pc, stack, t, p) <=> Expects(pc', stack', t, Spot(b, off' + 1))
    BY <1>1, <2>3, <2>4, <2>5, <2>6, <2>7, Zenon
  <2>. QED BY <1>1, <1>3, <2>8, RightOn, Zenon
<1>4. CASE BadString /\ Error
  <2>1. Char \in Unclosed \cup {"nul"}
    BY <1>4, Zenon DEF BadString
  <2>2. Char \notin {"space", "end"} /\ Char \notin ScalarTokens \cup Brackets
    BY <2>1, NotBegun
  <2>3. p \in 1 .. Len(t) /\ t[p] = Char
    BY <1>1, <2>2, StateIs, Looking, Zenon
  <2>. HIDE DEF t, p
  <2>4. ~ValueAt(t, stack, p)
    BY <1>2, <2>2, <2>3, StateIs, ReadNoValue
  <2>5. ~Expects(pc, stack, t, p)
    BY <1>1, <2>4, ExpectsIs
  <2>. QED BY <1>1, <1>4, <2>5, RightError, Zenon DEF t, p
<1>. QED BY <1>3, <1>4, Zenon DEF Scalar, ScalarTokens

\* A value is expected, and there is none.
LEMMA RightNoValue ==
  ASSUME IInv, Stage, NoValue, NEW b, Whole(b), Right(b)
  PROVE  Right(b)'
<1>. DEFINE t == Stripped(b)
            p == Spot(b, off + 1)
<1>1. pc = "val" /\ Known /\ Char # "space" /\ errors = 0 /\ Error
  BY StateIs, Zenon DEF NoValue, At
<1>2. Len(t) \in Nat
  BY TextIs
<1>3. p \in 1 .. Len(t) => t[p] \notin ScalarTokens \cup Brackets
  <2>1. CASE Char = "end"
    <3>1. p = Len(t) + 1
      BY <1>1, <2>1, StateIs, Looking, Zenon
    <3>. HIDE DEF t, p
    <3>. QED BY <1>2, <3>1
  <2>2. CASE Char # "end"
    <3>1. Char \in Unclosed \cup {"nul", "]", "}", ":", ",", "junk"}
      BY <2>2 DEF NoValue
    <3>2. Char \notin {"space", "end"} /\ Char \notin ScalarTokens \cup Brackets
      BY <3>1, NotBegun
    <3>3. p \in 1 .. Len(t) /\ t[p] = Char
      BY <1>1, <3>2, StateIs, Looking, Zenon
    <3>. QED BY <3>2, <3>3, Zenon
  <2>. QED BY <2>1, <2>2, Zenon
<1>. HIDE DEF t, p
<1>4. ~ValueAt(t, stack, p)
  BY <1>2, <1>3, StateIs, ReadNoValue
<1>5. ~Expects(pc, stack, t, p)
  BY <1>1, <1>4, ExpectsIs
<1>. QED BY <1>1, <1>5, RightError, Zenon DEF t, p

\* A character that is none but white space is at its place of the text.
LEMMA ReadHere ==
  ASSUME IInv, Stage, errors = 0, Known, Char # "space", NEW b, Whole(b)
  PROVE  /\ Spot(b, off + 1) \in 1 .. Len(Stripped(b)) =>
              /\ Stripped(b)[Spot(b, off + 1)] = Char /\ Char # "end"
              /\ Spot(b, (off + 1) + 1) = Spot(b, off + 1) + 1
              /\ off < Len(body)
         /\ Char # "end" => Spot(b, off + 1) \in 1 .. Len(Stripped(b))
<1>. DEFINE t == Stripped(b)
            p == Spot(b, off + 1)
<1>1. Len(t) \in Nat
  BY TextIs
<1>2. CASE Char = "end"
  <2>1. p = Len(t) + 1
    BY <1>2, StateIs, Looking, Zenon
  <2>. HIDE DEF t, p
  <2>2. p \notin 1 .. Len(t)
    BY <1>1, <2>1
  <2>. QED BY <1>2, <2>2, Zenon DEF t, p
<1>3. CASE Char # "end"
  BY <1>3, StateIs, Looking, Zenon
<1>. QED BY <1>2, <1>3, Zenon

\* A container is opened, or there are too many.
LEMMA RightContainer ==
  ASSUME IInv, Stage, Container, NEW b, Whole(b), Right(b)
  PROVE  Right(b)'
<1>. DEFINE t == Stripped(b)
            p == Spot(b, off + 1)
<1>1. /\ pc = "val" /\ Known /\ Char # "space" /\ errors = 0 /\ Char \in Brackets
      /\ depth = Len(stack)
  BY StateIs, Zenon DEF Container, At, Brackets
<1>2. Len(t) \in Nat
  BY TextIs
<1>3. p \in 1 .. Len(t) /\ t[p] = Char /\ Spot(b, (off + 1) + 1) = p + 1
  BY <1>1, NotBegun, ReadHere, Zenon
<1>4. Expects("val", stack, t, p) <=> ValueAt(t, stack, p)
  BY ExpectsIs
<1>5. CASE TooDeep /\ Error
  <2>1. Len(stack) = JSON_MAX_DEPTH
    <3>1. Len(stack) + 1 > JSON_MAX_DEPTH /\ Len(stack) <= JSON_MAX_DEPTH
      BY <1>1, <1>5, StateIs DEF TooDeep
    <3>2. Len(stack) \in Nat /\ JSON_MAX_DEPTH \in Nat
      BY StateIs, LenProperties, JsonAssumption
    <3>. QED BY <3>1, <3>2
  <2>. HIDE DEF t, p
  <2>2. ~ValueAt(t, stack, p)
    BY <1>1, <1>2, <1>3, <2>1, StateIs, ReadTooDeep
  <2>. QED BY <1>1, <1>4, <1>5, <2>2, RightError, Zenon DEF t, p
<1>6. CASE /\ ~TooDeep /\ stack' = Append(stack, Char) /\ Advance(1) /\ Goto("opened")
           /\ UNCHANGED errors
  <2>. DEFINE s == Append(stack, Char)
  <2>1. Len(stack) + 1 <= JSON_MAX_DEPTH
    <3>1. ~(Len(stack) + 1 > JSON_MAX_DEPTH)
      BY <1>1, <1>6, Zenon DEF TooDeep
    <3>2. Len(stack) \in Nat /\ JSON_MAX_DEPTH \in Nat
      BY StateIs, LenProperties, JsonAssumption
    <3>. QED BY <3>1, <3>2
  <2>2. Pushed(s, stack, Char) /\ Outer(s) = stack
    BY <1>1, <2>1, StateIs, PushedAppend
  <2>. HIDE DEF t, p, s
  <2>3. s[Len(s)] = Char
    BY <2>2, Zenon DEF Pushed
  <2>4. ValueAt(t, stack, p) <=> OpenedAt(t, s, stack, Char, p + 1)
    BY <1>2, <1>3, <2>2, ReadContainer
  <2>5. Expects("opened", s, t, p + 1) <=> OpenedAt(t, s, Outer(s), s[Len(s)], p + 1)
    BY ExpectsIs
  <2>6. Expects("val", stack, t, p) <=> Expects("opened", s, t, p + 1)
    BY <1>4, <2>2, <2>3, <2>4, <2>5, Zenon
  <2>7. pc' = "opened" /\ stack' = s /\ Spot(b, off' + 1) = p + 1
    BY <1>3, <1>6, Zenon DEF Advance, Goto, s, p
  <2>. QED BY <1>1, <1>6, <2>6, <2>7, RightOn, Zenon DEF t, p
<1>. QED BY <1>5, <1>6, Zenon DEF Container

\* A container is closed by what Closing says, and the call before goes on.
LEMMA TopIs ==
  ASSUME IInv, Stage, pc \in {"opened", "key", "colon", "after"}
  PROVE  /\ Pushed(stack, Outer(stack), Top) /\ Closing = Close(Top) /\ Top \in Brackets
         /\ Outer(stack) \in Seq(Brackets)
<1>1. stack \in Seq(Brackets) /\ stack # << >> /\ Len(stack) <= JSON_MAX_DEPTH
  BY StateIs
<1>2. Pushed(stack, Outer(stack), stack[Len(stack)])
  BY <1>1, PushedOuter
<1>. QED BY <1>2, Zenon DEF Pushed, Top, Closing, Close

\* When a container is closed, what is around it goes on.
LEMMA PopIs ==
  ASSUME Pop, NEW text, NEW q
  PROVE  Expects(pc', stack', text, q) <=> q \in Onward(text, Outer(stack))
<1>1. stack' = Outer(stack)
  BY DEF Pop, Outer
<1>2. pc' \in {"finish", "after"}
  BY DEF Pop, Returned, Goto
<1>. QED BY <1>1, <1>2, ExpectsIs

\* The container is empty, or has a first element.
LEMMA RightOpened ==
  ASSUME IInv, Stage, Opened, NEW b, Whole(b), Right(b)
  PROVE  Right(b)'
<1>. DEFINE t == Stripped(b)
            p == Spot(b, off + 1)
            r == Outer(stack)
<1>1. /\ pc = "opened" /\ Known /\ Char # "space" /\ errors = 0 /\ UNCHANGED errors
  BY StateIs, Zenon DEF Opened, At
<1>2. Len(t) \in Nat
  BY TextIs
<1>3. Pushed(stack, r, Top) /\ Closing = Close(Top) /\ Top \in Brackets
  BY <1>1, TopIs
<1>4. Expects("opened", stack, t, p) <=> OpenedAt(t, stack, r, Top, p)
  BY ExpectsIs, Zenon DEF Top
<1>5. CASE Char = Closing /\ Pop /\ Advance(1)
  <2>1. Char \notin {"space", "end"}
    BY <1>3, <1>5, BracketsShut
  <2>2. p \in 1 .. Len(t) /\ t[p] = Close(Top) /\ Spot(b, off' + 1) = p + 1
    BY <1>1, <1>3, <1>5, <2>1, ReadHere, Zenon DEF Advance
  <2>3. Expects(pc', stack', t, p + 1) <=> p + 1 \in Onward(t, r)
    BY <1>5, PopIs
  <2>. HIDE DEF t, p, r
  <2>4. OpenedAt(t, stack, r, Top, p) <=> p + 1 \in Onward(t, r)
    BY <1>2, <1>3, <2>2, ReadOpened
  <2>. QED BY <1>1, <1>4, <2>2, <2>3, <2>4, RightOn, Zenon DEF t, p
<1>6. CASE /\ Char # Closing /\ Goto(IF Top = "[" THEN "val" ELSE "key")
           /\ UNCHANGED <<off, stack>>
  <2>1. ~(p \in 1 .. Len(t) /\ t[p] = Close(Top))
    BY <1>1, <1>3, <1>6, ReadHere, Zenon
  <2>. HIDE DEF t, p, r
  <2>2. OpenedAt(t, stack, r, Top, p) <=> ElementAt(t, stack, Top, p)
    BY <1>2, <1>3, <2>1, ReadOpened
  <2>3. Expects(pc', stack, t, p) <=> ElementAt(t, stack, Top, p)
    BY <1>3, <1>6, FirstElement, Zenon DEF Goto
  <2>4. Spot(b, off' + 1) = p /\ stack' = stack
    BY <1>6, Zenon DEF p
  <2>. QED BY <1>1, <1>4, <2>2, <2>3, <2>4, RightOn, Zenon DEF t, p
<1>. QED BY <1>5, <1>6, Zenon DEF Opened

\* A name is expected.
LEMMA RightKey ==
  ASSUME IInv, Stage, Key, NEW b, Whole(b), Right(b)
  PROVE  Right(b)'
<1>. DEFINE t == Stripped(b)
            p == Spot(b, off + 1)
<1>1. pc = "key" /\ Known /\ Char # "space" /\ errors = 0
  BY StateIs, Zenon DEF Key, At
<1>2. Len(t) \in Nat
  BY TextIs
<1>3. Expects("key", stack, t, p) <=> ElementAt(t, stack, "{", p)
  BY ExpectsIs
<1>4. ElementAt(t, stack, "{", p) <=>
        /\ p \in 1 .. Len(t) /\ t[p] \in Texts
        /\ p + 1 \in 1 .. Len(t) /\ t[p + 1] = ":" /\ ValueAt(t, stack, p + 2)
  <2>. HIDE DEF t, p
  <2>. QED BY <1>2, StateIs, ReadName
<1>5. CASE Char \in Texts /\ Advance(1) /\ Goto("colon") /\ UNCHANGED <<stack, errors>>
  <2>1. p \in 1 .. Len(t) /\ t[p] \in Texts /\ Spot(b, off' + 1) = p + 1
    BY <1>1, <1>5, NotBegun, ReadHere, Zenon DEF Advance
  <2>2. Expects("colon", stack, t, p + 1) <=>
          p + 1 \in 1 .. Len(t) /\ t[p + 1] = ":" /\ ValueAt(t, stack, (p + 1) + 1)
    BY ExpectsIs
  <2>. HIDE DEF t, p
  <2>3. (p + 1) + 1 = p + 2
    BY <2>1
  <2>4. pc' = "colon" /\ stack' = stack
    BY <1>5 DEF Goto
  <2>5. Expects("key", stack, t, p) <=> Expects("colon", stack, t, p + 1)
    BY <1>3, <1>4, <2>1, <2>2, <2>3, Zenon
  <2>. QED BY <1>1, <1>5, <2>1, <2>4, <2>5, RightOn, Zenon DEF t, p
<1>6. CASE Char \notin Texts /\ Error
  <2>1. ~(p \in 1 .. Len(t) /\ t[p] \in Texts)
    BY <1>1, <1>6, ReadHere, Zenon
  <2>. HIDE DEF t, p
  <2>. QED BY <1>1, <1>3, <1>4, <1>6, <2>1, RightError, Zenon DEF t, p
<1>7. BadString => Char \notin Texts
  BY NotBegun DEF BadString
<1>. QED BY <1>5, <1>6, <1>7, Zenon DEF Key

\* A colon is expected.
LEMMA RightColon ==
  ASSUME IInv, Stage, Colon, NEW b, Whole(b), Right(b)
  PROVE  Right(b)'
<1>. DEFINE t == Stripped(b)
            p == Spot(b, off + 1)
<1>1. pc = "colon" /\ Known /\ Char # "space" /\ errors = 0
  BY StateIs, Zenon DEF Colon, At
<1>2. Expects("colon", stack, t, p) <=> p \in 1 .. Len(t) /\ t[p] = ":" /\ ValueAt(t, stack, p + 1)
  BY ExpectsIs
<1>3. CASE Char = ":" /\ Advance(1) /\ Goto("val") /\ UNCHANGED <<stack, errors>>
  <2>1. Char # "end"
    BY <1>3
  <2>2. p \in 1 .. Len(t) /\ t[p] = ":" /\ Spot(b, off' + 1) = p + 1
    BY <1>1, <1>3, <2>1, ReadHere, Zenon DEF Advance
  <2>3. pc' = "val" /\ stack' = stack
    BY <1>3 DEF Goto
  <2>4. Expects("val", stack, t, p + 1) <=> ValueAt(t, stack, p + 1)
    BY ExpectsIs
  <2>. QED BY <1>1, <1>2, <1>3, <2>2, <2>3, <2>4, RightOn, Zenon
<1>4. CASE Char # ":" /\ Error
  <2>1. ~(p \in 1 .. Len(t) /\ t[p] = ":")
    BY <1>1, <1>4, ReadHere, Zenon
  <2>. QED BY <1>1, <1>2, <1>4, <2>1, RightError, Zenon
<1>. QED BY <1>3, <1>4, Zenon DEF Colon

\* Behind an element is another, or the end.
LEMMA RightAfter ==
  ASSUME IInv, Stage, After, NEW b, Whole(b), Right(b)
  PROVE  Right(b)'
<1>. DEFINE t == Stripped(b)
            p == Spot(b, off + 1)
            r == Outer(stack)
<1>1. pc = "after" /\ Known /\ Char # "space" /\ errors = 0
  BY StateIs, Zenon DEF After, At
<1>2. Len(t) \in Nat
  BY TextIs
<1>3. Pushed(stack, r, Top) /\ Closing = Close(Top) /\ Top \in Brackets
  BY <1>1, TopIs
<1>4. Expects("after", stack, t, p) <=> p \in Onward(t, stack)
  BY ExpectsIs
<1>5. CASE Element
  <2>1. Char = "," /\ Char # "end"
    BY <1>5 DEF Element
  <2>2. p \in 1 .. Len(t) /\ t[p] = "," /\ Spot(b, off' + 1) = p + 1
    BY <1>1, <1>5, <2>1, ReadHere, Zenon DEF Advance, Element
  <2>. HIDE DEF t, p, r
  <2>3. p \in Onward(t, stack) <=> ElementAt(t, stack, Top, p + 1)
    BY <1>2, <1>3, <2>2, ReadOn
  <2>4. Expects(pc', stack, t, p + 1) <=> ElementAt(t, stack, Top, p + 1)
    BY <1>3, <1>5, FirstElement, Zenon DEF Goto, Element
  <2>5. stack' = stack /\ UNCHANGED errors
    BY <1>5 DEF Element
  <2>. QED BY <1>1, <1>4, <2>2, <2>3, <2>4, <2>5, RightOn, Zenon DEF t, p
<1>6. CASE Char = Closing /\ Pop /\ Advance(1) /\ UNCHANGED errors
  <2>1. Char \notin {"space", "end"}
    BY <1>3, <1>6, BracketsShut
  <2>2. p \in 1 .. Len(t) /\ t[p] = Close(Top) /\ Spot(b, off' + 1) = p + 1
    BY <1>1, <1>3, <1>6, <2>1, ReadHere, Zenon DEF Advance
  <2>3. Expects(pc', stack', t, p + 1) <=> p + 1 \in Onward(t, r)
    BY <1>6, PopIs
  <2>. HIDE DEF t, p, r
  <2>4. p \in Onward(t, stack) <=> p + 1 \in Onward(t, r)
    BY <1>2, <1>3, <2>2, ReadOn
  <2>. QED BY <1>1, <1>4, <1>6, <2>2, <2>3, <2>4, RightOn, Zenon DEF t, p
<1>7. CASE Char \notin {",", Closing} /\ Error
  <2>1. ~(p \in 1 .. Len(t) /\ t[p] \in {",", Close(Top)})
    BY <1>1, <1>3, <1>7, ReadHere, Zenon
  <2>. HIDE DEF t, p, r
  <2>2. p \notin Onward(t, stack)
    BY <1>2, <1>3, <2>1, ReadOn
  <2>. QED BY <1>1, <1>4, <1>7, <2>2, RightError, Zenon DEF t, p
<1>. QED BY <1>5, <1>6, <1>7, Zenon DEF After

\* The end: nothing may be left of the body, and nothing missed.
LEMMA RightFinish ==
  ASSUME IInv, Stage, Finish, NEW b, Whole(b), Right(b)
  PROVE  errors' > 0 => Right(b)'
<1>. DEFINE t == Stripped(b)
            p == Spot(b, off + 1)
<1>1. pc = "finish" /\ Known /\ Char # "space" /\ stack = << >> /\ errors \in 0 .. 2
  BY StateIs, Zenon DEF Finish, At, Stage
<1>2. CASE errors > 0
  <2>1. ~Derives(t)
    BY <1>2, Zenon DEF Right
  <2>. QED BY <2>1, Zenon DEF Right
<1>3. CASE ~(errors > 0)
  <2>0. errors = 0
    BY <1>1, <1>3
  <2>1. SUFFICES ASSUME errors' > 0 PROVE ~Derives(t)
    BY Zenon DEF Right
  <2>2. off # Len(body)
    BY <2>0, <2>1 DEF Finish
  <2>3. Char # "end"
    BY <1>1, <2>0, <2>2, StateIs, Looking, Zenon
  <2>4. p \in 1 .. Len(t)
    BY <1>1, <2>0, <2>3, ReadHere, Zenon
  <2>5. Len(t) \in Nat
    BY TextIs
  <2>6. Onward(t, stack) = {Len(t) + 1}
    BY <1>1, <2>5, OnwardEmpty, Zenon
  <2>7. Expects(pc, stack, t, p) <=> p \in Onward(t, stack)
    BY <1>1, ExpectsIs
  <2>8. Derives(t) <=> Expects(pc, stack, t, p)
    BY <1>3, Zenon DEF Right
  <2>. HIDE DEF t, p
  <2>9. p # Len(t) + 1
    BY <2>4, <2>5
  <2>. QED BY <2>6, <2>7, <2>8, <2>9, Zenon
<1>. QED BY <1>2, <1>3, Zenon

\* Without an error the body has ended, where the value does.
LEMMA EndIsJson ==
  ASSUME IInv, Stage, Finish, errors' = 0, \A b : Whole(b) => Right(b)
  PROVE  ended /\ Derives(Stripped(body))
<1>. DEFINE t == Stripped(body)
            p == Spot(body, off + 1)
<1>1. /\ pc = "finish" /\ Known /\ Char # "space" /\ stack = << >> /\ errors \in 0 .. 2
      /\ body \in Seq(Tokens) /\ Len(body) \in Nat
  BY StateIs, Zenon DEF Finish, At, Stage
<1>2. errors = 0 /\ off = Len(body)
  BY <1>1 DEF Finish
<1>3. ended
  BY <1>1, <1>2 DEF Known
<1>4. Whole(body)
  BY <1>1 DEF Whole
<1>5. Len(t) \in Nat
  BY <1>4, TextIs
<1>6. p = Len(t) + 1
  <2>1. p = Spot(body, Len(body) + 1)
    BY <1>2
  <2>. QED BY <1>1, <2>1, Spots, Zenon
<1>7. Onward(t, stack) = {Len(t) + 1}
  BY <1>1, <1>5, OnwardEmpty, Zenon
<1>8. Expects(pc, stack, t, p) <=> p \in Onward(t, stack)
  BY <1>1, ExpectsIs
<1>9. ~(errors > 0)
  BY <1>2
<1>10. Derives(t) <=> Expects(pc, stack, t, p)
  BY <1>4, <1>9, Zenon DEF Right
<1>. QED BY <1>3, <1>6, <1>7, <1>8, <1>10, Zenon

\* What a body may yet be, it might be before each step.
LEMMA WholeShrinks ==
  ASSUME IInv, [Next]_vars, NEW b, Whole(b)'
  PROVE  Whole(b)
<1>1. body \in Seq(Tokens) /\ Len(body) \in Nat
  BY LenProperties DEF IInv, TypeOK
<1>2. CASE body' = body /\ (ended => ended')
  BY <1>2, Zenon DEF Whole
<1>3. CASE ~ended /\ \E t \in Tokens : body' = Append(body, t)
  <2>1. PICK t \in Tokens : body' = Append(body, t)
    BY <1>3
  <2>2. Len(body') = Len(body) + 1 /\ \A i \in 1 .. Len(body) : body'[i] = body[i]
    BY <1>1, <2>1, AppendProperties
  <2>3. b \in Seq(Tokens) /\ Len(body') <= Len(b) /\ \A i \in 1 .. Len(body') : b[i] = body'[i]
    BY Zenon DEF Whole
  <2>4. Len(b) \in Nat
    BY <2>3, LenProperties
  <2>5. Len(body) <= Len(b) /\ \A i \in 1 .. Len(body) : i \in 1 .. Len(body')
    BY <1>1, <2>2, <2>3, <2>4
  <2>6. \A i \in 1 .. Len(body) : b[i] = body[i]
    BY <2>2, <2>3, <2>5
  <2>. QED BY <1>3, <2>3, <2>5, <2>6 DEF Whole
<1>4. Parse => body' = body /\ ended' = ended
  BY Zenon DEF Parse, input, Start, Forward, Scalar, NoValue, Container, Opened, Key, Colon,
       After, Finish
<1>5. \A t \in Tokens : More(t) => ~ended /\ body' = Append(body, t)
  BY DEF More, Known
<1>6. End => body' = body /\ ended'
  BY Zenon DEF End
<1>7. UNCHANGED vars => body' = body /\ ended' = ended
  BY Zenon DEF vars
<1>. QED BY <1>2, <1>3, <1>4, <1>5, <1>6, <1>7, Zenon DEF Next

\* What is read is within the body as long as rule 15 is not applied.
LEMMA WithinNext ==
  ASSUME IInv, Stage, [Next]_vars
  PROVE  errors' = 0 => off' <= Len(body')
<1>1. /\ body \in Seq(Tokens) /\ Len(body) \in Nat /\ off \in Nat /\ errors \in 0 .. 2
      /\ errors = 0 => off <= Len(body)
  BY StateIs
<1>2. Char # "end" => off < Len(body)
  BY DEF Char
<1>3. Error => errors' # 0
  BY <1>1 DEF Error
<1>. DEFINE Over == Advance(1) /\ UNCHANGED <<body, errors>> /\ Char # "end"
<1>4. CASE UNCHANGED <<off, body>> /\ (errors' = 0 => errors = 0)
  BY <1>1, <1>4
<1>5. CASE Over
  <2>1. off' = off + 1 /\ body' = body /\ off < Len(body)
    BY <1>2, <1>5 DEF Advance
  <2>. QED BY <1>1, <2>1
<1>6. Start => UNCHANGED <<off, body>> /\ UNCHANGED errors
  BY DEF Start, input
<1>7. Forward => Over
  BY DEF Forward, input
<1>8. Advance(1) /\ UNCHANGED errors /\ UNCHANGED input /\ Char # "end" => Over
  BY DEF input
<1>9. \A c \in Texts \cup {"number", "literal", "[", "{", ":", ","} : c # "end"
  BY NotBegun DEF ScalarTokens, Brackets
<1>10. UNCHANGED <<stack, errors>> => UNCHANGED errors
  BY Zenon
<1>11. UNCHANGED <<stack, depth, errors>> => UNCHANGED errors
  BY Zenon
<1>12. Scalar => Error \/ Over
  <2>1. Char \in Texts \cup {"number", "literal"} => Char # "end"
    BY <1>9
  <2>. QED BY <1>8, <1>10, <2>1, Zenon DEF Scalar
<1>13. NoValue => Error
  BY DEF NoValue
<1>14. Container => Error \/ Over
  <2>1. Char \in {"[", "{"} => Char # "end"
    BY <1>9
  <2>. QED BY <1>8, <2>1, Zenon DEF Container, Brackets
<1>15. Closing # "end"
  BY DEF Closing
<1>16. Opened => \/ Over
                 \/ UNCHANGED <<off, body, errors>>
  BY <1>15 DEF Opened, input
<1>17. Key => Error \/ Over
  BY <1>8, <1>9, <1>10, Zenon DEF Key
<1>18. Colon => Error \/ Over
  <2>1. Char = ":" => Char # "end"
    BY <1>9
  <2>. QED BY <1>8, <1>10, <2>1, Zenon DEF Colon
<1>19. After => Error \/ Over
  <2>1. Char = "," => Char # "end"
    BY <1>9
  <2>. QED BY <1>15, <1>8, <1>11, <2>1, Zenon DEF After, Element
<1>20. Finish => UNCHANGED <<off, body>> /\ (errors' = 0 => errors = 0)
  BY <1>1 DEF Finish, input
<1>21. ASSUME NEW t \in Tokens, More(t) PROVE errors' = 0 => off' <= Len(body')
  <2>1. body' = Append(body, t) /\ off' = off /\ errors' = errors
    BY <1>21 DEF More
  <2>2. Len(body') = Len(body) + 1
    BY <1>1, <2>1, AppendProperties
  <2>. QED BY <1>1, <2>1, <2>2
<1>22. End => UNCHANGED <<off, body>> /\ UNCHANGED errors
  BY DEF End
<1>23. UNCHANGED vars => UNCHANGED <<off, body>> /\ UNCHANGED errors
  BY DEF vars
<1>. HIDE DEF Over
<1>. QED BY <1>3, <1>4, <1>5, <1>6, <1>7, <1>12, <1>13, <1>14, <1>16, <1>17, <1>18, <1>19,
            <1>20, <1>21, <1>22, <1>23, Zenon DEF Next, Parse

\* Every step keeps what its place says.
LEMMA StageNext ==
  ASSUME IInv, Stage, [Next]_vars
  PROVE  Stage'
<1>1. errors' = 0 => off' <= Len(body')
  BY WithinNext
<1>2. /\ pc \in {"key", "colon"} => stack # << >> /\ Top = "{"
      /\ pc \in {"start", "finish"} => stack = << >>
      /\ pc = "start" => off = 0
  BY DEF Stage
<1>. DEFINE Calm == /\ pc' \in {"key", "colon"} => stack' # << >> /\ Top' = "{"
                    /\ pc' \in {"start", "finish"} => stack' = << >>
                    /\ pc' # "start"
<1>3. Error => Calm
  BY DEF Error, Goto
<1>4. pc' \in {"val", "opened", "after", "done"} => Calm
  OBVIOUS
<1>5. \A st : Returned(st) /\ stack' = st => Calm
  BY DEF Returned, Goto
<1>6. stack' = stack /\ Top = "{" /\ stack # << >> /\ pc' \in {"key", "colon"} => Calm
  BY DEF Top
<1>. DEFINE Same == UNCHANGED <<pc, stack>> /\ (pc = "start" => UNCHANGED off)
<1>7. pc \in {"opened", "key", "colon", "after"} => Top \in Brackets /\ stack # << >>
  BY TopIs, StateIs
<1>8. Top \in Brackets /\ ~(Top = "[") => Top = "{"
  BY DEF Brackets
<1>9. Start => Calm
  BY <1>4, Zenon DEF Start
<1>10. Forward => Same
  BY DEF Forward
<1>11. Scalar => Calm
  BY <1>3, <1>5, Zenon DEF Scalar
<1>12. NoValue => Calm
  BY <1>3, Zenon DEF NoValue
<1>13. Container => Calm
  BY <1>3, <1>4, Zenon DEF Container, Goto
<1>14. Pop => Calm
  BY <1>5, Zenon DEF Pop
<1>15. Opened => Calm
  BY <1>4, <1>6, <1>7, <1>8, <1>14, Zenon DEF Opened, Goto, At
<1>16. Key => Calm
  BY <1>2, <1>3, <1>6, Zenon DEF Key, Goto, At
<1>17. Colon => Calm
  BY <1>3, <1>4, Zenon DEF Colon, Goto
<1>18. After => Calm
  BY <1>3, <1>4, <1>6, <1>7, <1>8, <1>14, Zenon DEF After, Element, Goto, At
<1>19. Finish => Calm
  BY <1>4, Zenon DEF Finish, Goto
<1>20. (\E t \in Tokens : More(t)) => Same
  BY DEF More
<1>21. End => Same
  BY DEF End
<1>22. UNCHANGED vars => Same
  BY DEF vars
<1>23. Same => Stage'
  BY <1>1, <1>2 DEF Stage, Top
<1>24. Calm => Stage'
  BY <1>1, Zenon DEF Stage
<1>. HIDE DEF Calm, Same
<1>. QED BY <1>9, <1>10, <1>11, <1>12, <1>13, <1>15, <1>16, <1>17, <1>18, <1>19, <1>20, <1>21,
            <1>22, <1>23, <1>24, Zenon DEF Next, Parse

\* Before the first token nothing is expected but a value.
LEMMA InitJudged == Init => Judged
<1>. SUFFICES ASSUME Init PROVE Judged
  OBVIOUS
<1>1. Stage
  BY EmptySeq DEF Init, Stage
<1>2. Outcome
  BY DEF Init, Outcome
<1>3. ASSUME NEW b, Whole(b) PROVE Right(b)
  <2>. DEFINE t == Stripped(b)
              e == << >>
              d == JSON_MAX_DEPTH
  <2>1. Len(t) \in Nat /\ Spot(b, 1) = 1
    BY <1>3, TextIs, Spots, Zenon DEF Whole
  <2>2. d \in Nat /\ Len(e) = 0 /\ d - Len(e) = d
    BY EmptySeq, JsonAssumption
  <2>3. Onward(t, e) = {Len(t) + 1}
    BY <2>1, OnwardEmpty, Zenon
  <2>4. ValueAt(t, e, 1) <=> \E k : <<1, k>> \in Values(t, d) /\ k + 1 = Len(t) + 1
    BY <2>2, <2>3, Zenon DEF ValueAt
  <2>5. Derives(t) <=> <<1, Len(t)>> \in Values(t, d)
    BY Zenon DEF Derives
  <2>6. \A k : <<1, k>> \in Values(t, d) => k \in 1 .. Len(t)
    BY <2>2, ValueIs, SpanIs, Zenon
  <2>7. Expects("start", e, t, 1) <=> ValueAt(t, e, 1)
    BY ExpectsIs
  <2>. HIDE DEF t, d
  <2>8. \A k \in 1 .. Len(t) : k + 1 = Len(t) + 1 => k = Len(t)
    BY <2>1
  <2>9. Derives(t) <=> ValueAt(t, e, 1)
    BY <2>4, <2>5, <2>6, <2>8, Zenon
  <2>10. pc = "start" /\ stack = e /\ off + 1 = 1 /\ ~(errors > 0)
    BY DEF Init
  <2>. QED BY <2>1, <2>7, <2>9, <2>10, Zenon DEF Right, t
<1>. QED BY <1>1, <1>2, <1>3, Zenon DEF Judged

\* Where nothing moves, every body keeps its sentence.
LEMMA RightStays ==
  ASSUME UNCHANGED <<errors, pc, stack, off>>, NEW b, Right(b)
  PROVE  Right(b)'
<1>1. /\ errors' = errors /\ Expects(pc', stack', Stripped(b), Spot(b, off' + 1))
                               = Expects(pc, stack, Stripped(b), Spot(b, off + 1))
  OBVIOUS
<1>. QED BY <1>1, Zenon DEF Right

\* The parse begins with a value.
LEMMA RightStart ==
  ASSUME Start, pc' = "val", NEW b, Right(b)
  PROVE  Right(b)'
<1>1. Expects("start", stack, Stripped(b), Spot(b, off + 1))
        <=> Expects("val", stack, Stripped(b), Spot(b, off + 1))
  BY ExpectsIs
<1>2. pc = "start" /\ stack' = stack /\ off' = off /\ errors' = errors
  BY DEF Start
<1>. QED BY <1>1, <1>2, Zenon DEF Right

\* Every step that is not the last keeps what is known of every body.
LEMMA RightNext ==
  ASSUME IInv, Stage, [Next]_vars, pc' # "done" \/ errors' > 0, pc # "done" \/ errors > 0,
         NEW b, Whole(b), Right(b)
  PROVE  Right(b)'
<1>1. CASE Start
  <2>1. errors' = 0
    BY <1>1, StateIs DEF Start
  <2>2. pc' = "val"
    BY <1>1, <2>1 DEF Start
  <2>. QED BY <1>1, <2>2, RightStart
<1>2. CASE Finish
  <2>1. pc' = "done"
    BY <1>2 DEF Finish, Goto
  <2>. QED BY <1>2, <2>1, RightFinish
<1>3. CASE UNCHANGED <<errors, pc, stack, off>>
  BY <1>3, RightStays
<1>4. \A t \in Tokens : More(t) => UNCHANGED <<errors, pc, stack, off>>
  BY DEF More
<1>5. End => UNCHANGED <<errors, pc, stack, off>>
  BY DEF End
<1>6. UNCHANGED vars => UNCHANGED <<errors, pc, stack, off>>
  BY DEF vars
<1>7. CASE Forward
  BY <1>7, RightForward
<1>8. CASE Scalar
  BY <1>8, RightScalar
<1>9. CASE NoValue
  BY <1>9, RightNoValue
<1>10. CASE Container
  BY <1>10, RightContainer
<1>11. CASE Opened
  BY <1>11, RightOpened
<1>12. CASE Key
  BY <1>12, RightKey
<1>13. CASE Colon
  BY <1>13, RightColon
<1>14. CASE After
  BY <1>14, RightAfter
<1>. QED BY <1>1, <1>2, <1>3, <1>4, <1>5, <1>6, <1>7, <1>8, <1>9, <1>10, <1>11, <1>12, <1>13,
            <1>14, Zenon DEF Next, Parse

\* A parser that is done does no more.
LEMMA DoneStays ==
  ASSUME pc = "done", [Next]_vars
  PROVE  UNCHANGED vars
  BY DEF Next, Parse, Start, Forward, Scalar, NoValue, Container, Opened, Key, Colon, After,
         Finish, More, End, At

\* Without an error it is done when it had no memory, or at the end of a value.
LEMMA OutcomeNext ==
  ASSUME IInv, Judged, [Next]_vars
  PROVE  Outcome'
<1>. SUFFICES ASSUME pc' = "done", errors' = 0
              PROVE  off' = 0 \/ (ended' /\ Derives(Stripped(body')))
  BY Zenon DEF Outcome
<1>1. CASE pc = "done"
  <2>1. body' = body /\ ended' = ended /\ off' = off /\ errors = 0
    BY <1>1, DoneStays, Zenon DEF vars
  <2>. QED BY <1>1, <2>1, Zenon DEF Judged, Outcome
<1>2. CASE Start
  BY <1>2 DEF Start, Judged, Stage
<1>3. CASE Finish
  <2>1. pc = "finish"
    BY <1>3, Zenon DEF Finish, At
  <2>2. \A b : Whole(b) => Right(b)
    BY <2>1 DEF Judged
  <2>3. ended /\ Derives(Stripped(body))
    BY <1>3, <2>2, EndIsJson, Zenon DEF Judged
  <2>4. ended' = ended /\ body' = body
    BY <1>3, Zenon DEF Finish, input
  <2>. QED BY <2>3, <2>4, Zenon
<1>4. CASE pc' # "done"
  BY <1>4
<1>5. Error => pc' # "done"
  BY DEF Error, Goto
<1>6. \A st : Returned(st) => pc' # "done"
  BY DEF Returned, Goto
<1>7. \A t \in Tokens : More(t) => pc' = pc
  BY DEF More
<1>8. End => pc' = pc
  BY DEF End
<1>9. UNCHANGED vars => pc' = pc
  BY DEF vars
<1>10. Forward => pc' = pc
  BY DEF Forward
<1>11. Scalar => pc' # "done"
  BY <1>5, <1>6, Zenon DEF Scalar
<1>12. NoValue => pc' # "done"
  BY <1>5, Zenon DEF NoValue
<1>13. /\ Goto("opened") \/ Goto("colon") \/ Goto("val") => pc' # "done"
       /\ (\E x : Goto(IF x = "[" THEN "val" ELSE "key")) => pc' # "done"
  BY DEF Goto
<1>14. Container => pc' # "done"
  BY <1>5, <1>13, Zenon DEF Container
<1>15. Opened => pc' # "done"
  BY <1>6, <1>13, Zenon DEF Opened, Pop
<1>16. Key => pc' # "done"
  BY <1>5, <1>13, Zenon DEF Key
<1>17. Colon => pc' # "done"
  BY <1>5, <1>13, Zenon DEF Colon
<1>18. After => pc' # "done"
  BY <1>5, <1>6, <1>13, Zenon DEF After, Element, Pop
<1>. QED BY <1>1, <1>2, <1>3, <1>4, <1>7, <1>8, <1>9, <1>10, <1>11, <1>12, <1>14, <1>15, <1>16,
            <1>17, <1>18, Zenon DEF Next, Parse

\* Every step keeps the invariant.
LEMMA NextJudged == IInv /\ Judged /\ [Next]_vars => Judged'
<1>. SUFFICES ASSUME IInv, Judged, [Next]_vars PROVE Judged'
  OBVIOUS
<1>1. Stage
  BY Zenon DEF Judged
<1>2. Stage'
  BY <1>1, StageNext
<1>3. Outcome'
  BY OutcomeNext
<1>4. ASSUME pc' # "done" \/ errors' > 0, NEW b, Whole(b)' PROVE Right(b)'
  <2>1. Whole(b)
    BY <1>4, WholeShrinks
  <2>2. pc # "done" \/ errors > 0
    <3>1. pc = "done" => pc' = pc /\ errors' = errors
      BY DoneStays, Zenon DEF vars
    <3>. QED BY <1>4, <3>1
  <2>3. Right(b)
    BY <2>1, <2>2, Zenon DEF Judged
  <2>. QED BY <1>1, <1>4, <2>1, <2>2, <2>3, RightNext
<1>. QED BY <1>2, <1>3, <1>4, Zenon DEF Judged

\* The invariant holds of every reachable state.
THEOREM SpecJudged == Spec => [](IInv /\ Judged)
<1>1. Init => IInv /\ Judged
  BY InitIInv, InitJudged
<1>2. IInv /\ Judged /\ [Next]_vars => (IInv /\ Judged)'
  BY NextIInv, NextJudged
<1>. QED BY <1>1, <1>2, PTL DEF Spec

\* Of bodies of any length, with any texts and any limit of the nesting, rule 15
\* is applied to those that are no JSON value, and to no other (naxsi_json.c).
THEOREM OnlyJsonAccepted == Spec => []AcceptsJson
<1>1. IInv /\ Judged => AcceptsJson
  <2>. SUFFICES ASSUME IInv, Judged, Parsed PROVE errors = 0 <=> ended /\ Derives(Text)
    BY Zenon DEF AcceptsJson
  <2>1. pc = "done" /\ errors \in Nat /\ off \in Nat /\ (errors > 0 \/ off > 0)
    BY StateIs DEF Parsed, Judged
  <2>2. CASE errors = 0
    <3>1. ~(off = 0)
      BY <2>1, <2>2
    <3>. QED BY <2>1, <2>2, <3>1, Zenon DEF Judged, Outcome, Text
  <2>3. CASE errors # 0
    <3>1. errors > 0
      BY <2>1, <2>3
    <3>2. Whole(body)
      BY StateIs DEF Judged, Whole
    <3>3. Right(body)
      BY <3>1, <3>2, Zenon DEF Judged
    <3>4. ~Derives(Text)
      BY <3>1, <3>3, Zenon DEF Right, Text
    <3>. QED BY <2>3, <3>4, Zenon
  <2>. QED BY <2>2, <2>3, Zenon
<1>. QED BY <1>1, SpecJudged, PTL
=============================================================================
