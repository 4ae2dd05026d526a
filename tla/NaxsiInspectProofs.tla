------------------------- MODULE NaxsiInspectProofs -------------------------
(***************************************************************************)
(* Proofs about NaxsiInspect, for any location, any CheckRules and rules,  *)
(* and requests of any length.                                             *)
(***************************************************************************)
EXTENDS NaxsiInspect, TLAPS, FiniteSetTheorems, SequenceTheorems,
  WellFoundedInduction

(***************************************************************************)
(* Loops                                                                   *)
(***************************************************************************)

\* What holds of 0, and of every i up to n if it holds of i - 1, holds of all.
LEMMA UpTo ==
  ASSUME NEW n \in Nat, NEW S, 0 \in S,
         \A i \in 1 .. n : i - 1 \in S => i \in S
  PROVE  \A i \in 0 .. n : i \in S
<1>. DEFINE T == {i \in 0 .. n : i \notin S}
            F == {0 .. i : i \in T}
<1>1. SUFFICES ASSUME T # {} PROVE FALSE
  OBVIOUS
<1>2. \A i \in T : i \in Nat /\ 0 .. i \in SUBSET (0 .. n)
  OBVIOUS
<1>3. F \subseteq SUBSET (0 .. n) /\ F # {}
  BY <1>1, <1>2, Zenon
<1>4. F \subseteq FiniteSubsetsOf(0 .. n)
  BY <1>3, FS_Interval, FS_Subset DEF FiniteSubsetsOf
<1>5. \E x \in F : \A y \in F : ~ (<<y, x>> \in StrictSubsetOrdering(0 .. n))
  BY <1>3, <1>4, FS_StrictSubsetOrderingWellFounded, WFMin
<1>6. PICK m \in T :
        \A i \in T : ~ (<<0 .. i, 0 .. m>> \in StrictSubsetOrdering(0 .. n))
  BY <1>5, Zenon
<1>7. m \in 1 .. n /\ m - 1 \in 0 .. n
  BY <1>6
<1>8. m - 1 \in T
  BY <1>6, <1>7
<1>9. 0 .. (m - 1) \subseteq 0 .. m /\ m \in 0 .. m /\ m \notin 0 .. (m - 1)
  BY <1>7
<1>10. <<0 .. (m - 1), 0 .. m>> \in StrictSubsetOrdering(0 .. n)
  BY <1>2, <1>6, <1>8, <1>9, Zenon DEF StrictSubsetOrdering
<1>. QED BY <1>6, <1>8, <1>10

\* F is the course of a loop of n turns from c: turn i takes F[i - 1] to F[i].
Course(F, G, c, n) ==
  F[0] = c /\ \A i \in 1 .. n : F[i] = G[<<F[i - 1], i>>]

\* A loop of n turns, each of which takes C to C, has a course.
LEMMA LoopExists ==
  ASSUME NEW C, NEW c \in C, NEW n \in Nat, NEW G \in [C \X (1 .. n) -> C]
  PROVE  \E F \in [0 .. n -> C] : Course(F, G, c, n)
<1>. DEFINE S == {m \in 0 .. n : \E F \in [0 .. m -> C] : Course(F, G, c, m)}
<1>1. 0 \in S
  <2>. DEFINE E == [i \in 0 .. 0 |-> c]
  <2>1. E \in [0 .. 0 -> C] /\ E[0] = c /\ \A i \in 1 .. 0 : FALSE
    OBVIOUS
  <2>2. Course(E, G, c, 0)
    BY <2>1 DEF Course
  <2>. QED BY <2>1, <2>2
<1>2. ASSUME NEW m \in 1 .. n, m - 1 \in S
      PROVE  m \in S
  <2>1. PICK F \in [0 .. (m - 1) -> C] :
          F[0] = c /\ \A i \in 1 .. (m - 1) : F[i] = G[<<F[i - 1], i>>]
    BY <1>2 DEF Course
  <2>. DEFINE E == [i \in 0 .. m |->
                      IF i = m THEN G[<<F[m - 1], m>>] ELSE F[i]]
  <2>2. G[<<F[m - 1], m>>] \in C
    OBVIOUS
  <2>3. E \in [0 .. m -> C]
    BY <2>2
  <2>4. E[0] = c
    BY <2>1
  <2>5. ASSUME NEW i \in 1 .. m
        PROVE  E[i] = G[<<E[i - 1], i>>]
    <3>1. i - 1 \in 0 .. m /\ i - 1 # m
      OBVIOUS
    <3>2. E[i - 1] = F[i - 1]
      BY <3>1
    <3>3. CASE i = m
      <4>1. E[m] = G[<<F[m - 1], m>>]
        OBVIOUS
      <4>. HIDE DEF E
      <4>. QED BY <3>2, <3>3, <4>1
    <3>4. CASE i # m
      <4>1. i \in 1 .. (m - 1)
        BY <3>4
      <4>. QED BY <2>1, <3>2, <3>4, <4>1
    <3>. QED BY <3>3, <3>4
  <2>. HIDE DEF E
  <2>6. Course(E, G, c, m)
    BY <2>4, <2>5 DEF Course
  <2>. QED BY <2>3, <2>6
<1>3. n \in S
  <2>. HIDE DEF S
  <2>. QED BY <1>1, <1>2, UpTo
<1>. QED BY <1>3

\* FlattenSeq appends one sequence after the other.
LEMMA FlattenCourse ==
  ASSUME NEW M, NEW ss \in Seq(Seq(M))
  PROVE  \E F \in [0 .. Len(ss) -> Seq(M)] :
           /\ F[0] = << >>
           /\ \A i \in 1 .. Len(ss) : F[i] = F[i - 1] \o ss[i]
           /\ Seqs!FlattenSeq(ss) = F[Len(ss)]
<1>. DEFINE n == Len(ss)
            G == [p \in Seq(M) \X (1 .. n) |-> p[1] \o ss[p[2]]]
<1>1. n \in Nat /\ \A i \in 1 .. n : ss[i] \in Seq(M)
  OBVIOUS
<1>2. G \in [Seq(M) \X (1 .. n) -> Seq(M)] /\ << >> \in Seq(M)
  BY <1>1
<1>3. \A s \in Seq(M), i \in 1 .. n : G[<<s, i>>] = s \o ss[i]
  OBVIOUS
<1>. HIDE DEF G
<1>. HIDE DEF n
<1>4. PICK F \in [0 .. n -> Seq(M)] : Course(F, G, << >>, n)
  BY <1>1, <1>2, LoopExists
<1>. USE DEF n
<1>5. ASSUME NEW i \in 1 .. n
      PROVE  F[i] = F[i - 1] \o ss[i]
  <2>1. i - 1 \in 0 .. n
    BY <1>1
  <2>2. F[i - 1] \in Seq(M)
    BY <1>4, <2>1
  <2>. QED BY <1>3, <1>4, <2>2 DEF Course
<1>6. CASE n = 0
  <2>1. ss = << >>
    BY <1>6
  <2>2. Seqs!FlattenSeq(ss) = << >>
    BY <2>1 DEF Seqs!FlattenSeq
  <2>. QED BY <1>4, <1>5, <1>6, <2>2 DEF Course
<1>7. CASE n # 0
  <2>. DEFINE g == [i \in 1 .. n |-> F[i]]
  <2>1. \A i \in 1 .. n : F[i] = IF i = 1 THEN ss[i] ELSE g[i - 1] \o ss[i]
    <3>1. 1 \in 1 .. n
      BY <1>1, <1>7
    <3>2. F[1] = F[1 - 1] \o ss[1]
      BY <1>5, <3>1
    <3>3. F[1] = << >> \o ss[1]
      <4>1. F[0] = << >> /\ 1 - 1 = 0
        BY <1>4 DEF Course
      <4>. QED BY <3>2, <4>1
    <3>4. F[1] = ss[1]
      BY <1>1, <3>1, <3>3
    <3>5. ASSUME NEW i \in 1 .. n, i # 1
          PROVE  F[i] = g[i - 1] \o ss[i]
      <4>1. i - 1 \in 1 .. n
        BY <3>5
      <4>. QED BY <1>5, <4>1
    <3>. QED BY <3>4, <3>5
  <2>2. g = [i \in 1 .. n |-> IF i = 1 THEN ss[i] ELSE g[i - 1] \o ss[i]]
    BY <2>1
  <2>. HIDE DEF g
  <2>3. PICK f : /\ f = [i \in 1 .. n |-> IF i = 1 THEN ss[i] ELSE f[i - 1] \o ss[i]]
                 /\ Seqs!FlattenSeq(ss) = f[n]
    BY <1>7, <2>2, Zenon DEF Seqs!FlattenSeq
  <2>. DEFINE E == [i \in 0 .. n |-> IF i = 0 THEN << >> ELSE f[i]]
              S == {i \in 0 .. n : E[i] = F[i]}
  <2>4. f[1] = ss[1] /\ \A i \in 2 .. n : f[i] = f[i - 1] \o ss[i]
    <3>. HIDE DEF n
    <3>1. n \in Nat /\ 1 \in 1 .. n
      BY <1>1, <1>7
    <3>2. \A i \in 1 .. n : f[i] = IF i = 1 THEN ss[i] ELSE f[i - 1] \o ss[i]
      BY <2>3, Zenon
    <3>3. f[1] = ss[1]
      BY <3>1, <3>2
    <3>4. ASSUME NEW i \in 2 .. n
          PROVE  f[i] = f[i - 1] \o ss[i]
      <4>1. i \in 1 .. n /\ i # 1
        BY <3>1
      <4>. QED BY <3>2, <4>1
    <3>. QED BY <3>3, <3>4
  <2>5. 0 \in S /\ \A i \in 1 .. n : i - 1 \in S => i \in S
    <3>1. 0 \in S
      BY <1>1, <1>4 DEF Course
    <3>2. 1 \in S
      BY <1>1, <1>7, <2>1, <2>4
    <3>3. ASSUME NEW i \in 2 .. n, i - 1 \in S
          PROVE  i \in S
      <4>1. i \in 1 .. n /\ i - 1 \in 1 .. n /\ i # 0 /\ i - 1 # 0
        BY <1>1
      <4>2. f[i - 1] = F[i - 1]
        BY <3>3, <4>1
      <4>3. f[i] = F[i]
        BY <1>5, <2>4, <4>1, <4>2
      <4>. QED BY <4>1, <4>3
    <3>. HIDE DEF S
    <3>. QED BY <1>1, <3>1, <3>2, <3>3
  <2>6. n \in S
    <3>. HIDE DEF S, n
    <3>1. \A i \in 0 .. n : i \in S
      BY <1>1, <2>5, UpTo
    <3>. QED BY <1>1, <3>1
  <2>. QED BY <1>1, <1>4, <1>5, <1>7, <2>3, <2>6 DEF Course
<1>. QED BY <1>6, <1>7

\* A sequence of sequences over M, flattened, is one over M.
LEMMA FlattenType ==
  ASSUME NEW M, NEW ss \in Seq(Seq(M))
  PROVE  Seqs!FlattenSeq(ss) \in Seq(M)
<1>1. PICK F \in [0 .. Len(ss) -> Seq(M)] : Seqs!FlattenSeq(ss) = F[Len(ss)]
  BY FlattenCourse
<1>. QED BY <1>1

\* A loop each turn of which keeps the relation A of contexts and what was
\* found before, ss[i] being found in turn i, keeps it as a whole.
LEMMA LoopRelates ==
  ASSUME NEW M, NEW A, NEW n, n \in Nat,
         NEW ss, \A i \in 1 .. n : ss[i] \in Seq(M),
         NEW F, \A i \in 0 .. n : F[i] \in Seq(M), F[0] = << >>,
         \A i \in 1 .. n : F[i] = F[i - 1] \o ss[i],
         NEW f, NEW H, H \in Seq(M), <<f[0], H>> \in A,
         \A i \in 1 .. n : \A K \in Seq(M) :
           <<f[i - 1], K>> \in A => <<f[i], K \o ss[i]>> \in A
  PROVE  <<f[n], H \o F[n]>> \in A
<1>. DEFINE S == {i \in 0 .. n : <<f[i], H \o F[i]>> \in A}
<1>1. 0 \in S
  <2>1. H \o << >> = H
    BY ONLY H \in Seq(M), ConcatEmptySeq
  <2>2. <<f[0], H \o F[0]>> \in A
    BY <2>1, Zenon
  <2>3. 0 \in 0 .. n
    BY ONLY n \in Nat
  <2>. QED BY <2>2, <2>3, Zenon
<1>2. ASSUME NEW i, i \in 1 .. n, i - 1 \in S
      PROVE  i \in S
  <2>. DEFINE s == F[i - 1]
              t == ss[i]
  <2>1. i - 1 \in 0 .. n /\ i \in 0 .. n
    BY <1>2
  <2>2. s \in Seq(M) /\ t \in Seq(M) /\ F[i] = s \o t
    BY <1>2, <2>1, Zenon
  <2>3. <<f[i - 1], H \o s>> \in A
    BY <1>2, Zenon
  <2>. HIDE DEF s, t
  <2>4. H \o (s \o t) = (H \o s) \o t
    BY ONLY <2>2, H \in Seq(M), ConcatAssociative, SMTT(30)
  <2>5. H \o s \in Seq(M)
    BY ONLY <2>2, H \in Seq(M), ConcatProperties
  <2>6. <<f[i], (H \o s) \o t>> \in A
    BY <1>2, <2>3, <2>5, Zenon DEF t
  <2>7. <<f[i], H \o F[i]>> \in A
    BY <2>2, <2>4, <2>6, Zenon
  <2>. QED BY <2>1, <2>7, Zenon
<1>3. \A i \in 0 .. n : i \in S
  <2>. HIDE DEF S
  <2>. QED BY ONLY n \in Nat, <1>1, <1>2, UpTo
<1>4. n \in 0 .. n
  BY ONLY n \in Nat
<1>. QED BY <1>3, <1>4, Zenon

LEMMA LoopKeeps ==
  ASSUME NEW M, NEW A, NEW ss \in Seq(Seq(M)),
         NEW f, NEW H \in Seq(M), <<f[0], H>> \in A,
         \A i \in 1 .. Len(ss) : \A K \in Seq(M) :
           <<f[i - 1], K>> \in A => <<f[i], K \o ss[i]>> \in A
  PROVE  <<f[Len(ss)], H \o Seqs!FlattenSeq(ss)>> \in A
<1>. DEFINE n == Len(ss)
<1>1. PICK F \in [0 .. n -> Seq(M)] :
        /\ F[0] = << >>
        /\ \A i \in 1 .. n : F[i] = F[i - 1] \o ss[i]
        /\ Seqs!FlattenSeq(ss) = F[n]
  BY FlattenCourse
<1>2. n \in Nat /\ \A i \in 1 .. n : ss[i] \in Seq(M)
  OBVIOUS
<1>3. <<f[n], H \o F[n]>> \in A
  <2>. HIDE DEF n
  <2>. QED BY <1>1, <1>2, LoopRelates DEF n
<1>. QED BY <1>1, <1>3
-----------------------------------------------------------------------------
(***************************************************************************)
(* Contexts and matches                                                    *)
(***************************************************************************)

Scores == UNION {[T -> Int] : T \in SUBSET Tags}

\* The contexts of an inspection at location k.
Context(k) ==
  [flags : SUBSET Flags, ignore : {FALSE, k.listed}, learning : {k.learning},
   special_scores : Scores, matched : Nat]

\* The matches of rules and of internal rules.
Match ==
  [effect : Effects \cup {Internal(id).effect : id \in InternalIds},
   nb_match : Nat]

LEMMA ScoresAre == \A s : s \in Scores <=> IsScores(s)
  BY DEF Scores, IsScores

LEMMA InternalMatches ==
  ASSUME NEW id \in InternalIds
  PROVE  /\ Internal(id) \in Match
         /\ IsEffect(Internal(id).effect)
         /\ "block" \in Internal(id).effect.flags \/ "drop" \in Internal(id).effect.flags
<1>. DEFINE e == Internal(id).effect
<1>1. IsScores(e.sscores)
  <2>1. CASE id = 17
    <3>1. e.sscores = [t \in {LIBINJECTION_SQL} |-> 8]
      BY <2>1 DEF Internal
    <3>. QED BY <3>1, InspectAssumption DEF IsScores
  <2>2. CASE id = 18
    <3>1. e.sscores = [t \in {LIBINJECTION_XSS} |-> 8]
      BY <2>2 DEF Internal
    <3>. QED BY <3>1, InspectAssumption DEF IsScores
  <2>3. CASE id # 17 /\ id # 18
    <3>1. e.sscores = [t \in {} |-> 0]
      BY <2>3 DEF Internal
    <3>. QED BY <3>1 DEF IsScores
  <2>. QED BY <2>1, <2>2, <2>3
<1>2. e.flags = IF id \in {19, 20, 21} THEN {"drop"} ELSE {"block"}
  BY DEF Internal
<1>3. Internal(id) = [effect |-> e, nb_match |-> 1]
  BY DEF Internal
<1>. HIDE DEF e
<1>4. Internal(id) \in Match
  BY <1>3 DEF Match, e
<1>. QED BY <1>1, <1>2, <1>4 DEF IsEffect, Flags, e

LEMMA MatchEffects == \A h \in Match : IsEffect(h.effect) /\ h.nb_match \in Nat
  BY InternalMatches, InspectAssumption DEF Match

LEMMA HitsMatch == Hit \subseteq Match
  BY DEF Hit, Match

LEMMA NewContextType ==
  ASSUME NEW k \in LocConf
  PROVE  NewContext(k.learning) \in Context(k)
<1>1. [t \in {} |-> 0] \in Scores
  BY ScoresAre DEF IsScores
<1>. QED BY <1>1 DEF NewContext, Context, Flags

\* Bringing the context up to date.
LEMMA UpdateType ==
  ASSUME NEW k \in LocConf, NEW c \in Context(k)
  PROVE  LET d == update_current_ctx_status(c, k.listed)
         IN /\ d \in Context(k)
            /\ d.matched = c.matched /\ d.special_scores = c.special_scores
            /\ d.flags = Spared(c.flags \cup CheckFlags(c.special_scores), k.listed)
<1>. DEFINE fl == Spared(c.flags \cup CheckFlags(c.special_scores), k.listed)
<1>1. CheckFlags(c.special_scores) \subseteq Flags
  BY DEF CheckFlags
<1>2. fl \in SUBSET Flags
  BY <1>1 DEF Spared, Context
<1>3. k.listed \in BOOLEAN /\ c.ignore \in {FALSE, k.listed}
  BY DEF LocConf, Context
<1>4. (c.ignore \/ k.listed) = k.listed
  BY <1>3
<1>. HIDE DEF fl
<1>5. update_current_ctx_status(c, k.listed) = [c EXCEPT !.ignore = k.listed, !.flags = fl]
  BY <1>4, Zenon DEF update_current_ctx_status, fl
<1>. QED BY <1>2, <1>5 DEF Context, fl

\* The context after a match.
LEMMA HitType ==
  ASSUME NEW k \in LocConf, NEW c \in Context(k), NEW h \in Match
  PROVE  LET d == hit(k, c, h)
         IN /\ d \in Context(k)
            /\ d.matched = c.matched + 1
            /\ d.flags = Spared(c.flags \cup h.effect.flags
                                  \cup CheckFlags(d.special_scores), k.listed)
<1>. DEFINE s == Added(c.special_scores, h.effect.sscores, Times(h.nb_match), Tags)
            b == [c EXCEPT !.matched = @ + 1, !.special_scores = s,
                           !.flags = @ \cup h.effect.flags]
<1>1. IsEffect(h.effect) /\ Times(h.nb_match) \in Nat
  BY MatchEffects DEF Times
<1>2. IsScores(c.special_scores)
  BY ScoresAre DEF Context
<1>3. IsScores(s)
  <2>1. \A t \in DOMAIN h.effect.sscores :
          h.effect.sscores[t] * Times(h.nb_match) \in Int
    BY <1>1 DEF IsEffect, IsScores
  <2>. QED BY <1>1, <1>2, <2>1 DEF Added, IsScores, IsEffect
<1>4. s \in Scores
  BY <1>3, ScoresAre
<1>. HIDE DEF s
<1>5. /\ b \in Context(k) /\ b.matched = c.matched + 1 /\ b.special_scores = s
      /\ b.flags = c.flags \cup h.effect.flags
  <2>1. h.effect.flags \subseteq Flags
    BY <1>1 DEF IsEffect
  <2>2. c.flags \cup h.effect.flags \in SUBSET Flags /\ c.matched + 1 \in Nat
    BY <2>1 DEF Context
  <2>. QED BY <1>4, <2>2 DEF Context
<1>6. hit(k, c, h) = update_current_ctx_status(b, k.listed)
  BY DEF hit, apply_rulematch, EnoughMemory, s
<1>. HIDE DEF b
<1>. QED BY <1>5, <1>6, UpdateType, ZenonT(60)
-----------------------------------------------------------------------------
(***************************************************************************)
(* What every parser keeps.  A relates contexts to the matches that were   *)
(* found.  It is kept by the parsers if it is kept by a match, if what is  *)
(* not looked at once the request is stopped may be added to the matches   *)
(* found, and what is not looked at behind the match of an internal rule.  *)
(***************************************************************************)
Keeps(k, A) ==
  /\ A \subseteq Context(k) \X Seq(Match)
  /\ \A c \in Context(k), H \in Seq(Match), h \in Match :
       <<c, H>> \in A => <<hit(k, c, h), H \o <<h>> >> \in A
  /\ \A c \in Context(k), H, K \in Seq(Match) :
       <<c, H>> \in A /\ ("block" \in c.flags \/ ~Going(c)) => <<c, H \o K>> \in A
  /\ \A c \in Context(k), H, K \in Seq(Match), id \in InternalIds :
       <<c, H>> \in A =>
         <<hit(k, c, Internal(id)), (H \o <<Internal(id)>>) \o K>> \in A

\* A step of a parser leads to the context d and finds the matches f.
Moves(A, H, d, f) == f \in Seq(Match) /\ <<d, H \o f>> \in A

\* Every pair of a context and matches.
Pairs(k) == Context(k) \X Seq(Match)

LEMMA PairsKept == ASSUME NEW k \in LocConf PROVE Keeps(k, Pairs(k))
<1>1. ASSUME NEW c \in Context(k), NEW H \in Seq(Match), NEW h \in Match
      PROVE  hit(k, c, h) \in Context(k) /\ H \o <<h>> \in Seq(Match)
  <2>1. <<h>> \in Seq(Match)
    OBVIOUS
  <2>. QED BY <2>1, HitType, ConcatProperties
<1>2. \A H, K \in Seq(Match) : H \o K \in Seq(Match)
  BY ConcatProperties
<1>. QED BY <1>1, <1>2, InternalMatches DEF Keeps, Pairs

LEMMA Nothing == ASSUME NEW M, NEW H \in Seq(M) PROVE H \o << >> = H /\ << >> \in Seq(M)
BY ConcatEmptySeq

\* Nothing is found, and nothing changes.
LEMMA Stays ==
  ASSUME NEW A, NEW c, NEW H \in Seq(Match), <<c, H>> \in A
  PROVE  Moves(A, H, c, << >>)
<1>1. H \o << >> = H /\ << >> \in Seq(Match)
  BY Nothing
<1>. QED BY <1>1, Zenon DEF Moves

\* Two steps, one after the other.
LEMMA ThenMoves ==
  ASSUME NEW k, NEW A, Keeps(k, A), NEW c, NEW H \in Seq(Match), NEW d, NEW f,
         Moves(A, H, d, f), NEW e, NEW g, Moves(A, H \o f, e, g)
  PROVE  Moves(A, H, e, f \o g)
<1>1. f \in Seq(Match) /\ g \in Seq(Match) /\ <<e, (H \o f) \o g>> \in A
  BY Zenon DEF Moves
<1>2. (H \o f) \o g = H \o (f \o g)
  BY ONLY <1>1, H \in Seq(Match), ConcatAssociative
<1>3. f \o g \in Seq(Match)
  BY ONLY <1>1, ConcatProperties
<1>. QED BY <1>1, <1>2, <1>3, Zenon DEF Moves

\* It does not matter where matches are put together first.
LEMMA MatchesConcat ==
  ASSUME NEW f \in Seq(Match), NEW g \in Seq(Match), NEW h \in Seq(Match)
  PROVE  (f \o g) \o h = f \o (g \o h)
BY ConcatAssociative

\* An internal rule is applied where it is due.
LEMMA InternalMoves ==
  ASSUME NEW k \in LocConf, NEW A, Keeps(k, A), NEW c \in Context(k),
         NEW H \in Seq(Match), <<c, H>> \in A, NEW id \in InternalIds,
         NEW due \in BOOLEAN
  PROVE  Moves(A, H, IF due THEN internal(k, c, id) ELSE c, FoundIf(k, due, id))
<1>1. CASE due /\ Applies(k, id)
  <2>1. FoundIf(k, due, id) = <<Internal(id)>>
    BY <1>1 DEF FoundIf
  <2>2. <<Internal(id)>> \in Seq(Match)
    BY InternalMatches
  <2>3. <<hit(k, c, Internal(id)), H \o <<Internal(id)>> >> \in A
    BY InternalMatches, Zenon DEF Keeps
  <2>4. (IF due THEN internal(k, c, id) ELSE c) = hit(k, c, Internal(id))
    BY <1>1 DEF internal
  <2>. QED BY <2>1, <2>2, <2>3, <2>4, Zenon DEF Moves
<1>2. CASE ~(due /\ Applies(k, id))
  <2>1. FoundIf(k, due, id) = << >>
    BY <1>2 DEF FoundIf
  <2>2. (IF due THEN internal(k, c, id) ELSE c) = c
    BY <1>2 DEF internal
  <2>. QED BY <2>1, <2>2, Stays, Zenon
<1>. QED BY <1>1, <1>2

\* The context of a step is one.
LEMMA MovesTyped ==
  ASSUME NEW k, NEW A, Keeps(k, A), NEW c, NEW H \in Seq(Match), NEW d, NEW f,
         Moves(A, H, d, f)
  PROVE  d \in Context(k) /\ f \in Seq(Match) /\ <<d, H \o f>> \in A
           /\ H \o f \in Seq(Match)
BY Zenon DEF Moves, Keeps

\* A loop of such steps is one.
LEMMA LoopMoves ==
  ASSUME NEW k, NEW A, Keeps(k, A), NEW c, NEW H \in Seq(Match), <<c, H>> \in A,
         NEW ss \in Seq(Seq(Match)), NEW n, n = Len(ss), NEW f, f[0] = c,
         \A i \in 1 .. n : \A d \in Context(k), K \in Seq(Match) :
           d = f[i - 1] /\ <<d, K>> \in A => Moves(A, K, f[i], ss[i])
  PROVE  Moves(A, H, f[n], Seqs!FlattenSeq(ss))
<1>1. ASSUME NEW i \in 1 .. Len(ss), NEW K \in Seq(Match), <<f[i - 1], K>> \in A
      PROVE  <<f[i], K \o ss[i]>> \in A
  <2>1. f[i - 1] \in Context(k)
    BY <1>1, Zenon DEF Keeps
  <2>. QED BY <1>1, <2>1, Zenon DEF Moves
<1>2. <<f[Len(ss)], H \o Seqs!FlattenSeq(ss)>> \in A
  BY <1>1, LoopKeeps
<1>3. Seqs!FlattenSeq(ss) \in Seq(Match)
  BY FlattenType
<1>. QED BY <1>2, <1>3, Zenon DEF Moves

\* The elements of a sequence.
LEMMA Elements ==
  ASSUME NEW X, NEW s \in Seq(X)
  PROVE  /\ Len(s) \in Nat /\ DOMAIN s = 1 .. Len(s)
         /\ \A i \in 1 .. Len(s) : s[i] \in X
OBVIOUS

\* A function on the places of a sequence is a sequence of the same length.
LEMMA Places ==
  ASSUME NEW M, NEW n \in Nat, NEW t \in [1 .. n -> M]
  PROVE  t \in Seq(M) /\ Len(t) = n
OBVIOUS

\* Every context is one of Pairs.
LEMMA PairsAll ==
  ASSUME NEW k, NEW d \in Context(k)
  PROVE  <<d, << >> >> \in Pairs(k) /\ << >> \in Seq(Match)
BY EmptySeq DEF Pairs

\* A sequence of internal rules.
LEMMA InternalsMoves ==
  ASSUME NEW k \in LocConf, NEW A, Keeps(k, A), NEW c \in Context(k),
         NEW H \in Seq(Match), <<c, H>> \in A, NEW ids \in Seq(InternalIds)
  PROVE  Moves(A, H, internals(k, c, ids), Found(k, ids))
<1>. DEFINE n == Len(ids)
            C == Context(k)
            G == [p \in C \X (1 .. n) |-> internal(k, p[1], ids[p[2]])]
            ss == [i \in DOMAIN ids |-> FoundIf(k, TRUE, ids[i])]
<1>1. n \in Nat /\ DOMAIN ids = 1 .. n /\ \A i \in 1 .. n : ids[i] \in InternalIds
  BY Elements
<1>. HIDE DEF n
<1>2. ASSUME NEW B, Keeps(k, B), NEW d \in C, NEW K \in Seq(Match), <<d, K>> \in B,
             NEW i \in 1 .. n
      PROVE  Moves(B, K, internal(k, d, ids[i]), FoundIf(k, TRUE, ids[i]))
  BY <1>1, <1>2, InternalMoves, Zenon
<1>3. ASSUME NEW d \in C, NEW i \in 1 .. n
      PROVE  internal(k, d, ids[i]) \in C /\ FoundIf(k, TRUE, ids[i]) \in Seq(Match)
  <2>1. Moves(Pairs(k), << >>, internal(k, d, ids[i]), FoundIf(k, TRUE, ids[i]))
    BY <1>2, PairsAll, PairsKept, Zenon
  <2>. QED BY <2>1, PairsAll, PairsKept, MovesTyped, Zenon
<1>4. G \in [C \X (1 .. n) -> C]
  BY <1>3
<1>5. \A d \in C, i \in 1 .. n : G[<<d, i>>] = internal(k, d, ids[i])
  OBVIOUS
<1>6. ss \in [1 .. n -> Seq(Match)] /\ \A i \in 1 .. n : ss[i] = FoundIf(k, TRUE, ids[i])
  BY <1>1, <1>3
<1>. HIDE DEF G, C, ss
<1>7. PICK F \in [0 .. n -> C] : Course(F, G, c, n)
  BY <1>1, <1>4, LoopExists DEF C
<1>8. F = [i \in 0 .. n |-> IF i = 0 THEN c ELSE internal(k, F[i - 1], ids[i])]
  <2>1. ASSUME NEW i \in 0 .. n, i # 0
        PROVE  F[i - 1] \in C /\ i \in 1 .. n
    BY <1>1, <2>1
  <2>. QED BY <1>5, <1>7, <2>1 DEF Course
<1>9. PICK f : /\ f = [i \in 0 .. n |-> IF i = 0 THEN c ELSE internal(k, f[i - 1], ids[i])]
               /\ internals(k, c, ids) = f[n]
  BY <1>8, Zenon DEF internals, Fold, n
<1>10. f[0] = c /\ \A i \in 1 .. n : f[i] = internal(k, f[i - 1], ids[i])
  BY <1>1, <1>9
<1>11. ss \in Seq(Seq(Match)) /\ n = Len(ss)
  BY <1>1, <1>6, Places
<1>12. Moves(A, H, f[n], Seqs!FlattenSeq(ss))
  <2>1. ASSUME NEW i \in 1 .. n, NEW d \in Context(k), NEW K \in Seq(Match),
               d = f[i - 1], <<d, K>> \in A
        PROVE  Moves(A, K, f[i], ss[i])
    BY <1>2, <1>6, <1>10, <2>1, Zenon DEF C
  <2>. QED BY <1>10, <1>11, <2>1, LoopMoves, Zenon
<1>. QED BY <1>9, <1>12, Zenon DEF Found, ss

\* Matches of rules are matches.
LEMMA HitSeqs ==
  /\ \A s \in Seq(Hit) : s \in Seq(Match)
  /\ \A ss \in Seq(Seq(Hit)) : ss \in Seq(Seq(Match))
BY HitsMatch, SeqMonotonic

\* What an item holds.
LEMMA ItemFields ==
  ASSUME NEW item \in Item
  PROVE  /\ item.zeros \in Seq(InternalIds) /\ item.injections \in Seq(InternalIds)
         /\ item.bad_utf8 \in BOOLEAN
         /\ item.hits["local"] \in Seq(Seq(Hit)) /\ item.hits["main"] \in Seq(Seq(Hit))
BY DEF Item

\* The matches of one rule.
LEMMA HitsMove ==
  ASSUME NEW k \in LocConf, NEW A, Keeps(k, A), NEW c \in Context(k),
         NEW H \in Seq(Match), <<c, H>> \in A, NEW hits \in Seq(Match)
  PROVE  Moves(A, H, Fold(LAMBDA d, h : hit(k, d, h), c, hits), hits)
<1>. DEFINE n == Len(hits)
            C == Context(k)
            G == [p \in C \X (1 .. n) |-> hit(k, p[1], hits[p[2]])]
            L == Fold(LAMBDA d, h : hit(k, d, h), c, hits)
            E == [i \in 0 .. n |-> SubSeq(hits, 1, i)]
            ss == [i \in 1 .. n |-> <<hits[i]>>]
<1>1. n \in Nat /\ DOMAIN hits = 1 .. n /\ \A i \in 1 .. n : hits[i] \in Match
  BY Elements
<1>2. /\ \A i \in 1 .. n : ss[i] = <<hits[i]>> /\ ss[i] \in Seq(Match)
      /\ \A i \in 0 .. n : E[i] = SubSeq(hits, 1, i) /\ E[i] \in Seq(Match)
  OBVIOUS
<1>3. /\ E[0] = << >> /\ E[n] = hits
      /\ \A i \in 1 .. n : E[i] = E[i - 1] \o ss[i]
  <2>1. SubSeq(hits, 1, 0) = << >> /\ SubSeq(hits, 1, n) = hits
    BY SubSeqEmpty, SubSeqFull
  <2>2. ASSUME NEW i \in 1 .. n
        PROVE  SubSeq(hits, 1, i) = SubSeq(hits, 1, i - 1) \o <<hits[i]>>
    <3>1. i \in 1 .. Len(hits) /\ 1 \in 1 .. Len(hits) /\ i \in 1 .. Len(hits)
      BY <1>1
    <3>. QED BY <3>1, SubSeqRecursiveSecond
  <2>3. \A i \in 1 .. n : i \in 0 .. n /\ i - 1 \in 0 .. n
    BY <1>1
  <2>4. 0 \in 0 .. n /\ n \in 0 .. n
    BY <1>1
  <2>. QED BY <1>2, <2>1, <2>2, <2>3, <2>4, Zenon
<1>. HIDE DEF n, E, ss
<1>4. G \in [C \X (1 .. n) -> C]
  BY <1>1, HitType
<1>5. \A d \in C, i \in 1 .. n : G[<<d, i>>] = hit(k, d, hits[i])
  OBVIOUS
<1>. HIDE DEF G, C, L
<1>6. PICK F \in [0 .. n -> C] : Course(F, G, c, n)
  BY <1>1, <1>4, LoopExists DEF C
<1>7. F = [i \in 0 .. n |-> IF i = 0 THEN c ELSE hit(k, F[i - 1], hits[i])]
  <2>1. ASSUME NEW i \in 0 .. n, i # 0
        PROVE  F[i - 1] \in C /\ i \in 1 .. n
    BY <1>1, <2>1
  <2>. QED BY <1>5, <1>6, <2>1 DEF Course
<1>8. PICK f : /\ f = [i \in 0 .. n |-> IF i = 0 THEN c ELSE hit(k, f[i - 1], hits[i])]
               /\ L = f[n]
  BY <1>7, Zenon DEF L, Fold, n
<1>9. f[0] = c /\ \A i \in 1 .. n : f[i] = hit(k, f[i - 1], hits[i])
  BY <1>1, <1>8
<1>10. ASSUME NEW i \in 1 .. n, NEW K \in Seq(Match), <<f[i - 1], K>> \in A
       PROVE  <<f[i], K \o ss[i]>> \in A
  <2>1. f[i - 1] \in Context(k)
    BY <1>10, Zenon DEF Keeps
  <2>. QED BY <1>1, <1>2, <1>9, <1>10, <2>1, Zenon DEF Keeps
<1>11. <<f[n], H \o E[n]>> \in A
  BY <1>1, <1>2, <1>3, <1>9, <1>10, LoopRelates
<1>. QED BY <1>3, <1>8, <1>11, Zenon DEF Moves, L

\* One rule is run unless inspection has stopped.
LEMMA RuleMoves ==
  ASSUME NEW k \in LocConf, NEW A, Keeps(k, A), NEW c \in Context(k),
         NEW H \in Seq(Match), <<c, H>> \in A, NEW hits \in Seq(Match)
  PROVE  Moves(A, H, rule(k, c, hits), hits)
<1>1. CASE Going(c)
  BY <1>1, HitsMove, Zenon DEF rule
<1>2. CASE ~Going(c)
  BY <1>2, Zenon DEF rule, Moves, Keeps
<1>. QED BY <1>1, <1>2

\* A set of rules, one after the other.
LEMMA RulesMove ==
  ASSUME NEW k \in LocConf, NEW A, Keeps(k, A), NEW c \in Context(k),
         NEW H \in Seq(Match), <<c, H>> \in A, NEW rs \in Seq(Seq(Hit))
  PROVE  Moves(A, H, Fold(LAMBDA d, hits : rule(k, d, hits), c, rs), Seqs!FlattenSeq(rs))
<1>. DEFINE n == Len(rs)
            C == Context(k)
            G == [p \in C \X (1 .. n) |-> rule(k, p[1], rs[p[2]])]
            L == Fold(LAMBDA d, hits : rule(k, d, hits), c, rs)
            ss == [i \in DOMAIN rs |-> rs[i]]
<1>1. n \in Nat /\ DOMAIN rs = 1 .. n /\ \A i \in 1 .. n : rs[i] \in Seq(Match)
  BY Elements, HitSeqs
<1>. HIDE DEF n
<1>2. ASSUME NEW B, Keeps(k, B), NEW d \in C, NEW K \in Seq(Match), <<d, K>> \in B,
             NEW i \in 1 .. n
      PROVE  Moves(B, K, rule(k, d, rs[i]), rs[i])
  BY <1>1, <1>2, RuleMoves, Zenon
<1>3. ASSUME NEW d \in C, NEW i \in 1 .. n
      PROVE  rule(k, d, rs[i]) \in C /\ rs[i] \in Seq(Match)
  <2>1. Moves(Pairs(k), << >>, rule(k, d, rs[i]), rs[i])
    BY <1>2, PairsAll, PairsKept, Zenon
  <2>. QED BY <2>1, PairsAll, PairsKept, MovesTyped, Zenon
<1>4. G \in [C \X (1 .. n) -> C]
  BY <1>3
<1>5. \A d \in C, i \in 1 .. n : G[<<d, i>>] = rule(k, d, rs[i])
  OBVIOUS
<1>6. ss \in [1 .. n -> Seq(Match)] /\ \A i \in 1 .. n : ss[i] = rs[i]
  BY <1>1, <1>3
<1>. HIDE DEF G, C, ss, L
<1>7. PICK F \in [0 .. n -> C] : Course(F, G, c, n)
  BY <1>1, <1>4, LoopExists DEF C
<1>8. F = [i \in 0 .. n |-> IF i = 0 THEN c ELSE rule(k, F[i - 1], rs[i])]
  <2>1. ASSUME NEW i \in 0 .. n, i # 0
        PROVE  F[i - 1] \in C /\ i \in 1 .. n
    BY <1>1, <2>1
  <2>. QED BY <1>5, <1>7, <2>1 DEF Course
<1>9. PICK f : /\ f = [i \in 0 .. n |-> IF i = 0 THEN c ELSE rule(k, f[i - 1], rs[i])]
               /\ L = f[n]
  BY <1>8, Zenon DEF L, Fold, n
<1>10. f[0] = c /\ \A i \in 1 .. n : f[i] = rule(k, f[i - 1], rs[i])
  BY <1>1, <1>9
<1>11. ss \in Seq(Seq(Match)) /\ n = Len(ss)
  BY <1>1, <1>6, Places
<1>12. Moves(A, H, f[n], Seqs!FlattenSeq(ss))
  <2>1. ASSUME NEW i \in 1 .. n, NEW d \in Context(k), NEW K \in Seq(Match),
               d = f[i - 1], <<d, K>> \in A
        PROVE  Moves(A, K, f[i], ss[i])
    BY <1>2, <1>6, <1>10, <2>1, Zenon DEF C
  <2>. QED BY <1>10, <1>11, <2>1, LoopMoves, Zenon
<1>13. ss = rs
  BY <1>1, <1>6 DEF ss
<1>. QED BY <1>9, <1>12, <1>13, Zenon DEF L

\* An item against a set of rules.
LEMMA BasestrMoves ==
  ASSUME NEW k \in LocConf, NEW A, Keeps(k, A), NEW c \in Context(k),
         NEW H \in Seq(Match), <<c, H>> \in A, NEW item \in Item,
         NEW set \in {"local", "main"}
  PROVE  Moves(A, H, basestr_ruleset(k, c, item, set), FoundInSet(k, item, set))
<1>. DEFINE utf8 == FoundIf(k, item.bad_utf8, 20)
            inj == Found(k, item.injections)
            rs == item.hits[set]
            d == internals(k, c, item.injections)
<1>1. /\ item.bad_utf8 \in BOOLEAN /\ item.injections \in Seq(InternalIds)
      /\ rs \in Seq(Seq(Hit)) /\ 20 \in InternalIds
  BY ItemFields DEF InternalIds
<1>2. CASE ~(item.bad_utf8 /\ Applies(k, 20))
  <2>1. basestr_ruleset(k, c, item, set)
          = Fold(LAMBDA x, hits : rule(k, x, hits), d, rs)
    BY <1>2 DEF basestr_ruleset
  <2>2. Moves(A, H, c, utf8)
    <3>1. utf8 = << >>
      BY <1>2 DEF FoundIf
    <3>. QED BY <3>1, Stays, Zenon
  <2>. HIDE DEF utf8, inj, rs, d
  <2>3. <<c, H \o utf8>> \in A /\ H \o utf8 \in Seq(Match)
    BY <2>2, MovesTyped, Zenon
  <2>4. Moves(A, H \o utf8, d, inj)
    BY <1>1, <2>3, InternalsMoves, Zenon DEF inj, d
  <2>5. Moves(A, H, d, utf8 \o inj)
    BY <2>2, <2>4, ThenMoves, Zenon
  <2>6. d \in Context(k) /\ <<d, H \o (utf8 \o inj)>> \in A
          /\ H \o (utf8 \o inj) \in Seq(Match)
    BY <2>5, MovesTyped, Zenon
  <2>7. Moves(A, H \o (utf8 \o inj), basestr_ruleset(k, c, item, set), Seqs!FlattenSeq(rs))
    BY <1>1, <2>1, <2>6, RulesMove
  <2>8. Moves(A, H, basestr_ruleset(k, c, item, set), (utf8 \o inj) \o Seqs!FlattenSeq(rs))
    BY <2>5, <2>7, ThenMoves, Zenon
  <2>. QED BY <2>8 DEF FoundInSet, utf8, inj, rs
<1>3. CASE item.bad_utf8 /\ Applies(k, 20)
  <2>. DEFINE m == <<Internal(20)>>
              K == inj \o Seqs!FlattenSeq(rs)
  <2>1. basestr_ruleset(k, c, item, set) = hit(k, c, Internal(20)) /\ utf8 = m
    BY <1>3 DEF basestr_ruleset, internal, FoundIf
  <2>2. m \in Seq(Match) /\ inj \in Seq(Match) /\ Seqs!FlattenSeq(rs) \in Seq(Match)
    <3>1. Internal(20) \in Match
      BY <1>1, InternalMatches
    <3>2. inj \in Seq(Match)
      <4>1. Moves(A, H, d, inj)
        BY <1>1, InternalsMoves
      <4>. HIDE DEF d, inj
      <4>. QED BY <4>1, MovesTyped, Zenon
    <3>3. rs \in Seq(Seq(Match))
      BY <1>1, HitSeqs, Zenon
    <3>. HIDE DEF rs
    <3>. QED BY <3>1, <3>2, <3>3, FlattenType
  <2>. HIDE DEF inj
  <2>3. K \in Seq(Match) /\ m \o K \in Seq(Match)
    <3>. DEFINE fl == Seqs!FlattenSeq(rs)
    <3>. HIDE DEF m, fl
    <3>. QED BY <2>2, ConcatProperties DEF fl
  <2>4. (m \o inj) \o Seqs!FlattenSeq(rs) = m \o K
    <3>. DEFINE fl == Seqs!FlattenSeq(rs)
    <3>. HIDE DEF m, fl
    <3>. QED BY <2>2, ConcatAssociative, SMTT(30) DEF fl
  <2>5. <<hit(k, c, Internal(20)), (H \o m) \o K>> \in A
    <3>. HIDE DEF K
    <3>. QED BY <1>1, <2>3, Zenon DEF Keeps
  <2>6. (H \o m) \o K = H \o (m \o K)
    <3>. HIDE DEF m, K
    <3>1. m \in Seq(Match) /\ K \in Seq(Match) /\ H \in Seq(Match)
      BY <2>2, <2>3, Zenon
    <3>. QED BY <3>1, MatchesConcat, Zenon
  <2>7. Moves(A, H, hit(k, c, Internal(20)), m \o K)
    BY <2>3, <2>5, <2>6, Zenon DEF Moves
  <2>. QED BY <2>1, <2>4, <2>7, Zenon DEF FoundInSet, inj
<1>. QED BY <1>2, <1>3

\* An item against the location's set, then against the main one.
LEMMA RulesetsMove ==
  ASSUME NEW k \in LocConf, NEW A, Keeps(k, A), NEW c \in Context(k),
         NEW H \in Seq(Match), <<c, H>> \in A, NEW item \in Item,
         NEW sets \in RuleSets
  PROVE  Moves(A, H, rulesets(k, c, item, sets), FoundInItem(k, item, sets))
<1>. DEFINE d == IF "local" \in sets THEN basestr_ruleset(k, c, item, "local") ELSE c
            f == IF "local" \in sets THEN FoundInSet(k, item, "local") ELSE << >>
            e == IF "main" \in sets THEN basestr_ruleset(k, d, item, "main") ELSE d
            g == IF "main" \in sets THEN FoundInSet(k, item, "main") ELSE << >>
<1>1. Moves(A, H, d, f)
  BY BasestrMoves, Stays
<1>. HIDE DEF d, f
<1>2. d \in Context(k) /\ <<d, H \o f>> \in A /\ H \o f \in Seq(Match)
  BY <1>1, MovesTyped, Zenon
<1>3. Moves(A, H \o f, e, g)
  <2>. DEFINE h == H \o f
  <2>. HIDE DEF h
  <2>1. d \in Context(k) /\ <<d, h>> \in A /\ h \in Seq(Match)
    BY <1>2 DEF h
  <2>2. Moves(A, h, e, g)
    BY <2>1, BasestrMoves, Stays
  <2>. QED BY <2>2 DEF h
<1>. HIDE DEF e, g
<1>4. Moves(A, H, e, f \o g)
  BY <1>1, <1>3, ThenMoves, Zenon
<1>. QED BY <1>4 DEF rulesets, FoundInItem, d, e, f, g

\* An item is decoded first.
LEMMA DecodedMoves ==
  ASSUME NEW k \in LocConf, NEW A, Keeps(k, A), NEW c \in Context(k),
         NEW H \in Seq(Match), <<c, H>> \in A, NEW item \in Item,
         NEW sets \in RuleSets
  PROVE  Moves(A, H, decoded(k, c, item, sets), FoundDecoded(k, item, sets))
<1>. DEFINE d == internals(k, c, item.zeros)
            f == Found(k, item.zeros)
<1>1. Moves(A, H, d, f)
  BY ItemFields, InternalsMoves
<1>. HIDE DEF d, f
<1>2. d \in Context(k) /\ <<d, H \o f>> \in A /\ H \o f \in Seq(Match)
  BY <1>1, MovesTyped, Zenon
<1>3. Moves(A, H \o f, rulesets(k, d, item, sets), FoundInItem(k, item, sets))
  BY <1>2, RulesetsMove, Zenon
<1>4. Moves(A, H, rulesets(k, d, item, sets), f \o FoundInItem(k, item, sets))
  BY <1>1, <1>3, ThenMoves, Zenon
<1>. QED BY <1>4 DEF decoded, FoundDecoded, d, f

\* One header, unless one before has blocked the request.
LEMMA HeaderMoves ==
  ASSUME NEW k \in LocConf, NEW A, Keeps(k, A), NEW c \in Context(k),
         NEW H \in Seq(Match), <<c, H>> \in A, NEW item \in Item
  PROVE  Moves(A, H, header(k, c, item), FoundDecoded(k, item, k.header_rules))
<1>1. k.header_rules \in RuleSets
  BY DEF LocConf
<1>2. Moves(A, H, decoded(k, c, item, k.header_rules),
            FoundDecoded(k, item, k.header_rules))
  BY <1>1, DecodedMoves, Zenon
<1>3. CASE "block" \notin c.flags
  BY <1>2, <1>3, Zenon DEF header
<1>4. CASE "block" \in c.flags
  BY <1>2, <1>4, MovesTyped, Zenon DEF header, Moves, Keeps
<1>. QED BY <1>3, <1>4

\* The loop over the headers.
LEMMA HeadersMove ==
  ASSUME NEW k \in LocConf, NEW A, Keeps(k, A), NEW c \in Context(k),
         NEW H \in Seq(Match), <<c, H>> \in A, NEW hs \in Seq(Item)
  PROVE  Moves(A, H, all_headers(k, c, hs), Seqs!FlattenSeq([i \in DOMAIN hs |->
                          FoundDecoded(k, hs[i], k.header_rules)]))
<1>. DEFINE n == Len(hs)
            C == Context(k)
            G == [p \in C \X (1 .. n) |-> header(k, p[1], hs[p[2]])]
            ss == [i \in DOMAIN hs |-> FoundDecoded(k, hs[i], k.header_rules)]
<1>1. n \in Nat /\ DOMAIN hs = 1 .. n /\ \A i \in 1 .. n : hs[i] \in Item
  BY Elements
<1>. HIDE DEF n
<1>2. ASSUME NEW B, Keeps(k, B), NEW d \in C, NEW K \in Seq(Match), <<d, K>> \in B,
             NEW i \in 1 .. n
      PROVE  Moves(B, K, header(k, d, hs[i]), FoundDecoded(k, hs[i], k.header_rules))
  BY <1>1, <1>2, HeaderMoves, Zenon
<1>3. ASSUME NEW d \in C, NEW i \in 1 .. n
      PROVE  header(k, d, hs[i]) \in C /\ FoundDecoded(k, hs[i], k.header_rules) \in Seq(Match)
  <2>1. Moves(Pairs(k), << >>, header(k, d, hs[i]), FoundDecoded(k, hs[i], k.header_rules))
    BY <1>2, PairsAll, PairsKept, Zenon
  <2>. QED BY <2>1, PairsAll, PairsKept, MovesTyped, Zenon
<1>4. G \in [C \X (1 .. n) -> C]
  BY <1>3
<1>5. \A d \in C, i \in 1 .. n : G[<<d, i>>] = header(k, d, hs[i])
  OBVIOUS
<1>6. ss \in [1 .. n -> Seq(Match)] /\ \A i \in 1 .. n : ss[i] = FoundDecoded(k, hs[i], k.header_rules)
  BY <1>1, <1>3
<1>. HIDE DEF G, C, ss
<1>7. PICK F \in [0 .. n -> C] : Course(F, G, c, n)
  BY <1>1, <1>4, LoopExists DEF C
<1>8. F = [i \in 0 .. n |-> IF i = 0 THEN c ELSE header(k, F[i - 1], hs[i])]
  <2>1. ASSUME NEW i \in 0 .. n, i # 0
        PROVE  F[i - 1] \in C /\ i \in 1 .. n
    BY <1>1, <2>1
  <2>. QED BY <1>5, <1>7, <2>1 DEF Course
<1>9. PICK f : /\ f = [i \in 0 .. n |-> IF i = 0 THEN c ELSE header(k, f[i - 1], hs[i])]
               /\ all_headers(k, c, hs) = f[n]
  BY <1>8, Zenon DEF all_headers, Fold, n
<1>10. f[0] = c /\ \A i \in 1 .. n : f[i] = header(k, f[i - 1], hs[i])
  BY <1>1, <1>9
<1>11. ss \in Seq(Seq(Match)) /\ n = Len(ss)
  BY <1>1, <1>6, Places
<1>12. Moves(A, H, f[n], Seqs!FlattenSeq(ss))
  <2>1. ASSUME NEW i \in 1 .. n, NEW d \in Context(k), NEW K \in Seq(Match),
               d = f[i - 1], <<d, K>> \in A
        PROVE  Moves(A, K, f[i], ss[i])
    BY <1>2, <1>6, <1>10, <2>1, Zenon DEF C
  <2>. QED BY <1>10, <1>11, <2>1, LoopMoves, Zenon
<1>. QED BY <1>9, <1>12, Zenon DEF ss

\* What a piece holds.
LEMMA PieceFields == ASSUME NEW p \in Piece PROVE p = << >> \/ p[1] \in Item
<1>1. p \in Seq(Item)
  BY DEF Piece
<1>. QED BY <1>1

\* A piece of a query, unless inspection has stopped.
LEMMA PieceMoves ==
  ASSUME NEW k \in LocConf, NEW A, Keeps(k, A), NEW c \in Context(k),
         NEW H \in Seq(Match), <<c, H>> \in A, NEW p \in Piece,
         NEW sets \in RuleSets
  PROVE  Moves(A, H, piece(k, c, p, sets), FoundInPiece(k, p, sets))
<1>1. CASE p = << >>
  <2>1. 12 \in InternalIds /\ TRUE \in BOOLEAN
    BY DEF InternalIds
  <2>2. Moves(A, H, IF TRUE THEN internal(k, c, 12) ELSE c, FoundIf(k, TRUE, 12))
    BY <2>1, InternalMoves, Zenon
  <2>. QED BY <1>1, <2>2, Zenon DEF piece, FoundInPiece
<1>2. CASE p # << >>
  <2>1. Moves(A, H, decoded(k, c, p[1], sets), FoundDecoded(k, p[1], sets))
    BY <1>2, PieceFields, DecodedMoves, Zenon
  <2>2. CASE Going(c)
    BY <1>2, <2>1, <2>2, Zenon DEF piece, FoundInPiece
  <2>3. CASE ~Going(c)
    BY <1>2, <2>1, <2>3, MovesTyped, Zenon DEF piece, FoundInPiece, Moves, Keeps
  <2>. QED BY <2>2, <2>3
<1>. QED BY <1>1, <1>2

\* The loop over the pieces of a query.
LEMMA PiecesMove ==
  ASSUME NEW k \in LocConf, NEW A, Keeps(k, A), NEW c \in Context(k),
         NEW H \in Seq(Match), <<c, H>> \in A, NEW ps \in Seq(Piece),
         NEW sets \in RuleSets
  PROVE  Moves(A, H, Fold(LAMBDA x, p : piece(k, x, p, sets), c, ps),
               FoundInPieces(k, ps, sets))
<1>. DEFINE n == Len(ps)
            C == Context(k)
            G == [p \in C \X (1 .. n) |-> piece(k, p[1], ps[p[2]], sets)]
            L == Fold(LAMBDA x, p : piece(k, x, p, sets), c, ps)
            ss == [i \in DOMAIN ps |-> FoundInPiece(k, ps[i], sets)]
<1>1. n \in Nat /\ DOMAIN ps = 1 .. n /\ \A i \in 1 .. n : ps[i] \in Piece
  BY Elements
<1>. HIDE DEF n
<1>2. ASSUME NEW B, Keeps(k, B), NEW d \in C, NEW K \in Seq(Match), <<d, K>> \in B,
             NEW i \in 1 .. n
      PROVE  Moves(B, K, piece(k, d, ps[i], sets), FoundInPiece(k, ps[i], sets))
  BY <1>1, <1>2, PieceMoves, Zenon
<1>3. ASSUME NEW d \in C, NEW i \in 1 .. n
      PROVE  piece(k, d, ps[i], sets) \in C /\ FoundInPiece(k, ps[i], sets) \in Seq(Match)
  <2>1. Moves(Pairs(k), << >>, piece(k, d, ps[i], sets), FoundInPiece(k, ps[i], sets))
    BY <1>2, PairsAll, PairsKept, Zenon
  <2>. QED BY <2>1, PairsAll, PairsKept, MovesTyped, Zenon
<1>4. G \in [C \X (1 .. n) -> C]
  BY <1>3
<1>5. \A d \in C, i \in 1 .. n : G[<<d, i>>] = piece(k, d, ps[i], sets)
  OBVIOUS
<1>6. ss \in [1 .. n -> Seq(Match)] /\ \A i \in 1 .. n : ss[i] = FoundInPiece(k, ps[i], sets)
  BY <1>1, <1>3
<1>. HIDE DEF G, C, ss, L
<1>7. PICK F \in [0 .. n -> C] : Course(F, G, c, n)
  BY <1>1, <1>4, LoopExists DEF C
<1>8. F = [i \in 0 .. n |-> IF i = 0 THEN c ELSE piece(k, F[i - 1], ps[i], sets)]
  <2>1. ASSUME NEW i \in 0 .. n, i # 0
        PROVE  F[i - 1] \in C /\ i \in 1 .. n
    BY <1>1, <2>1
  <2>. QED BY <1>5, <1>7, <2>1 DEF Course
<1>9. PICK f : /\ f = [i \in 0 .. n |-> IF i = 0 THEN c ELSE piece(k, f[i - 1], ps[i], sets)]
               /\ L = f[n]
  BY <1>8, Zenon DEF L, Fold, n
<1>10. f[0] = c /\ \A i \in 1 .. n : f[i] = piece(k, f[i - 1], ps[i], sets)
  BY <1>1, <1>9
<1>11. ss \in Seq(Seq(Match)) /\ n = Len(ss)
  BY <1>1, <1>6, Places
<1>12. Moves(A, H, f[n], Seqs!FlattenSeq(ss))
  <2>1. ASSUME NEW i \in 1 .. n, NEW d \in Context(k), NEW K \in Seq(Match),
               d = f[i - 1], <<d, K>> \in A
        PROVE  Moves(A, K, f[i], ss[i])
    BY <1>2, <1>6, <1>10, <2>1, Zenon DEF C
  <2>. QED BY <1>10, <1>11, <2>1, LoopMoves, Zenon
<1>. QED BY <1>9, <1>12, Zenon DEF FoundInPieces, ss, L

\* A part of a multipart body.
LEMMA PartMoves ==
  ASSUME NEW k \in LocConf, NEW A, Keeps(k, A), NEW c \in Context(k),
         NEW H \in Seq(Match), <<c, H>> \in A, NEW p \in Piece, p # << >>
  PROVE  Moves(A, H, decoded(k, c, p[1], k.body_rules),
               FoundInPiece(k, p, k.body_rules))
<1>1. k.body_rules \in RuleSets
  BY DEF LocConf
<1>. QED BY <1>1, PieceFields, DecodedMoves, Zenon DEF FoundInPiece

\* The parts of a multipart body.
LEMMA PartsMove ==
  ASSUME NEW k \in LocConf, NEW A, Keeps(k, A), NEW c \in Context(k),
         NEW H \in Seq(Match), <<c, H>> \in A, NEW ps \in Seq(Piece),
         \A i \in DOMAIN ps : ps[i] # << >>
  PROVE  Moves(A, H, parts(k, c, ps), FoundInPieces(k, ps, k.body_rules))
<1>. DEFINE n == Len(ps)
            C == Context(k)
            G == [p \in C \X (1 .. n) |-> decoded(k, p[1], ps[p[2]][1], k.body_rules)]
            ss == [i \in DOMAIN ps |-> FoundInPiece(k, ps[i], k.body_rules)]
<1>1. n \in Nat /\ DOMAIN ps = 1 .. n /\ \A i \in 1 .. n : ps[i] \in Piece /\ ps[i] # << >>
  BY Elements
<1>. HIDE DEF n
<1>2. ASSUME NEW B, Keeps(k, B), NEW d \in C, NEW K \in Seq(Match), <<d, K>> \in B,
             NEW i \in 1 .. n
      PROVE  Moves(B, K, decoded(k, d, ps[i][1], k.body_rules), FoundInPiece(k, ps[i], k.body_rules))
  BY <1>1, <1>2, PartMoves, Zenon
<1>3. ASSUME NEW d \in C, NEW i \in 1 .. n
      PROVE  decoded(k, d, ps[i][1], k.body_rules) \in C /\ FoundInPiece(k, ps[i], k.body_rules) \in Seq(Match)
  <2>1. Moves(Pairs(k), << >>, decoded(k, d, ps[i][1], k.body_rules), FoundInPiece(k, ps[i], k.body_rules))
    BY <1>2, PairsAll, PairsKept, Zenon
  <2>. QED BY <2>1, PairsAll, PairsKept, MovesTyped, Zenon
<1>4. G \in [C \X (1 .. n) -> C]
  BY <1>3
<1>5. \A d \in C, i \in 1 .. n : G[<<d, i>>] = decoded(k, d, ps[i][1], k.body_rules)
  OBVIOUS
<1>6. ss \in [1 .. n -> Seq(Match)] /\ \A i \in 1 .. n : ss[i] = FoundInPiece(k, ps[i], k.body_rules)
  BY <1>1, <1>3
<1>. HIDE DEF G, C, ss
<1>7. PICK F \in [0 .. n -> C] : Course(F, G, c, n)
  BY <1>1, <1>4, LoopExists DEF C
<1>8. F = [i \in 0 .. n |-> IF i = 0 THEN c ELSE decoded(k, F[i - 1], ps[i][1], k.body_rules)]
  <2>1. ASSUME NEW i \in 0 .. n, i # 0
        PROVE  F[i - 1] \in C /\ i \in 1 .. n
    BY <1>1, <2>1
  <2>. QED BY <1>5, <1>7, <2>1 DEF Course
<1>9. PICK f : /\ f = [i \in 0 .. n |-> IF i = 0 THEN c ELSE decoded(k, f[i - 1], ps[i][1], k.body_rules)]
               /\ parts(k, c, ps) = f[n]
  BY <1>8, Zenon DEF parts, Fold, n
<1>10. f[0] = c /\ \A i \in 1 .. n : f[i] = decoded(k, f[i - 1], ps[i][1], k.body_rules)
  BY <1>1, <1>9
<1>11. ss \in Seq(Seq(Match)) /\ n = Len(ss)
  BY <1>1, <1>6, Places
<1>12. Moves(A, H, f[n], Seqs!FlattenSeq(ss))
  <2>1. ASSUME NEW i \in 1 .. n, NEW d \in Context(k), NEW K \in Seq(Match),
               d = f[i - 1], <<d, K>> \in A
        PROVE  Moves(A, K, f[i], ss[i])
    BY <1>2, <1>6, <1>10, <2>1, Zenon DEF C
  <2>. QED BY <1>10, <1>11, <2>1, LoopMoves, Zenon
<1>. QED BY <1>9, <1>12, Zenon DEF FoundInPieces, ss

\* A value that is not decoded.
LEMMA ValueMoves ==
  ASSUME NEW k \in LocConf, NEW A, Keeps(k, A), NEW c \in Context(k),
         NEW H \in Seq(Match), <<c, H>> \in A, NEW p \in Piece, p # << >>,
         NEW sets \in RuleSets
  PROVE  Moves(A, H, rulesets(k, c, p[1], sets), FoundInItem(k, p[1], sets))
BY PieceFields, RulesetsMove, Zenon

\* The values of a JSON body, or the raw body.
LEMMA ValuesMove ==
  ASSUME NEW k \in LocConf, NEW A, Keeps(k, A), NEW c \in Context(k),
         NEW H \in Seq(Match), <<c, H>> \in A, NEW ps \in Seq(Piece),
         \A i \in DOMAIN ps : ps[i] # << >>,
         NEW sets \in RuleSets
  PROVE  Moves(A, H, values(k, c, ps, sets), FoundInValues(k, ps, sets))
<1>. DEFINE n == Len(ps)
            C == Context(k)
            G == [p \in C \X (1 .. n) |-> rulesets(k, p[1], ps[p[2]][1], sets)]
            ss == [i \in DOMAIN ps |-> FoundInItem(k, ps[i][1], sets)]
<1>1. n \in Nat /\ DOMAIN ps = 1 .. n /\ \A i \in 1 .. n : ps[i] \in Piece /\ ps[i] # << >>
  BY Elements
<1>. HIDE DEF n
<1>2. ASSUME NEW B, Keeps(k, B), NEW d \in C, NEW K \in Seq(Match), <<d, K>> \in B,
             NEW i \in 1 .. n
      PROVE  Moves(B, K, rulesets(k, d, ps[i][1], sets), FoundInItem(k, ps[i][1], sets))
  BY <1>1, <1>2, ValueMoves, Zenon
<1>3. ASSUME NEW d \in C, NEW i \in 1 .. n
      PROVE  rulesets(k, d, ps[i][1], sets) \in C /\ FoundInItem(k, ps[i][1], sets) \in Seq(Match)
  <2>1. Moves(Pairs(k), << >>, rulesets(k, d, ps[i][1], sets), FoundInItem(k, ps[i][1], sets))
    BY <1>2, PairsAll, PairsKept, Zenon
  <2>. QED BY <2>1, PairsAll, PairsKept, MovesTyped, Zenon
<1>4. G \in [C \X (1 .. n) -> C]
  BY <1>3
<1>5. \A d \in C, i \in 1 .. n : G[<<d, i>>] = rulesets(k, d, ps[i][1], sets)
  OBVIOUS
<1>6. ss \in [1 .. n -> Seq(Match)] /\ \A i \in 1 .. n : ss[i] = FoundInItem(k, ps[i][1], sets)
  BY <1>1, <1>3
<1>. HIDE DEF G, C, ss
<1>7. PICK F \in [0 .. n -> C] : Course(F, G, c, n)
  BY <1>1, <1>4, LoopExists DEF C
<1>8. F = [i \in 0 .. n |-> IF i = 0 THEN c ELSE rulesets(k, F[i - 1], ps[i][1], sets)]
  <2>1. ASSUME NEW i \in 0 .. n, i # 0
        PROVE  F[i - 1] \in C /\ i \in 1 .. n
    BY <1>1, <2>1
  <2>. QED BY <1>5, <1>7, <2>1 DEF Course
<1>9. PICK f : /\ f = [i \in 0 .. n |-> IF i = 0 THEN c ELSE rulesets(k, f[i - 1], ps[i][1], sets)]
               /\ values(k, c, ps, sets) = f[n]
  BY <1>8, Zenon DEF values, Fold, n
<1>10. f[0] = c /\ \A i \in 1 .. n : f[i] = rulesets(k, f[i - 1], ps[i][1], sets)
  BY <1>1, <1>9
<1>11. ss \in Seq(Seq(Match)) /\ n = Len(ss)
  BY <1>1, <1>6, Places
<1>12. Moves(A, H, f[n], Seqs!FlattenSeq(ss))
  <2>1. ASSUME NEW i \in 1 .. n, NEW d \in Context(k), NEW K \in Seq(Match),
               d = f[i - 1], <<d, K>> \in A
        PROVE  Moves(A, K, f[i], ss[i])
    BY <1>2, <1>6, <1>10, <2>1, Zenon DEF C
  <2>. QED BY <1>10, <1>11, <2>1, LoopMoves, Zenon
<1>. QED BY <1>9, <1>12, Zenon DEF FoundInValues, ss

\* A query: null bytes, a last '&', then the pieces.
LEMMA QueryMoves ==
  ASSUME NEW k \in LocConf, NEW A, Keeps(k, A), NEW c \in Context(k),
         NEW H \in Seq(Match), <<c, H>> \in A, NEW q,
         q.zeros \in Seq(InternalIds), q.trailing \in BOOLEAN,
         q.pieces \in Seq(Piece), NEW sets \in RuleSets
  PROVE  Moves(A, H, spliturl_ruleset(k, c, q, sets), FoundInQuery(k, q, sets))
<1>. DEFINE d == internals(k, c, q.zeros)
            e == IF q.trailing THEN internal(k, d, 12) ELSE d
            x == spliturl_ruleset(k, c, q, sets)
            f == Found(k, q.zeros)
            g == FoundIf(k, q.trailing, 12)
            h == FoundInPieces(k, q.pieces, sets)
<1>1. 12 \in InternalIds
  BY DEF InternalIds
<1>2. Moves(A, H, d, f)
  BY InternalsMoves
<1>3. x = Fold(LAMBDA y, p : piece(k, y, p, sets), e, q.pieces)
  BY Zenon DEF spliturl_ruleset
<1>4. FoundInQuery(k, q, sets) = (f \o g) \o h
  BY DEF FoundInQuery
<1>. HIDE DEF d, f, x, h
<1>5. d \in Context(k) /\ <<d, H \o f>> \in A /\ H \o f \in Seq(Match)
  BY <1>2, MovesTyped, Zenon
<1>6. Moves(A, H \o f, e, g)
  BY <1>1, <1>5, InternalMoves, Zenon
<1>. HIDE DEF e, g
<1>7. Moves(A, H, e, f \o g)
  BY <1>2, <1>6, ThenMoves, Zenon
<1>8. e \in Context(k) /\ <<e, H \o (f \o g)>> \in A /\ H \o (f \o g) \in Seq(Match)
  BY <1>7, MovesTyped, Zenon
<1>9. Moves(A, H \o (f \o g), x, h)
  BY <1>3, <1>8, PiecesMove DEF h
<1>10. Moves(A, H, x, (f \o g) \o h)
  BY <1>7, <1>9, ThenMoves, Zenon
<1>. QED BY <1>4, <1>10 DEF x

\* What a request holds.
LEMMA RequestFields ==
  ASSUME NEW r \in Request
  PROVE  /\ r.headers \in Seq(Item) /\ r.illegal_host \in BOOLEAN /\ r.uri \in Item
         /\ r.args \in Query /\ r.body \in Body
         /\ r.args.zeros \in Seq(InternalIds) /\ r.args.trailing \in BOOLEAN
         /\ r.args.pieces \in Seq(Piece)
BY DEF Request, Query

LEMMA BodyFields ==
  ASSUME NEW b \in Body
  PROVE  /\ b.bufs \in BOOLEAN /\ b.temp_file \in BOOLEAN /\ b.mismatch \in BOOLEAN
         /\ b.type \in {"none", "urlencoded", "multipart", "json", "other"}
         /\ b.ending \in {"closed", "boundary", "disposition", "format", "line"}
         /\ b.zeros \in Seq(InternalIds) /\ b.trailing \in BOOLEAN
         /\ b.pieces \in Seq(Piece) /\ b.errors \in Seq(InternalIds)
         /\ b.type # "urlencoded" => \A i \in DOMAIN b.pieces : b.pieces[i] # << >>
BY DEF Body

LEMMA ConfFields ==
  ASSUME NEW k \in LocConf
  PROVE  /\ k.learning \in BOOLEAN /\ k.listed \in BOOLEAN
         /\ k.header_rules \in RuleSets /\ k.generic_rules \in RuleSets
         /\ k.get_rules \in RuleSets /\ k.body_rules \in RuleSets
         /\ k.raw_body_rules \in RuleSets
BY DEF LocConf

\* The headers.
LEMMA HeadersParsed ==
  ASSUME NEW k \in LocConf, NEW A, Keeps(k, A), NEW c \in Context(k),
         NEW H \in Seq(Match), <<c, H>> \in A, NEW r \in Request
  PROVE  Moves(A, H, headers_parse(k, c, r), FoundInHeaders(k, r))
<1>1. CASE k.header_rules = {}
  BY <1>1, Stays, Zenon DEF headers_parse, FoundInHeaders
<1>2. CASE k.header_rules # {}
  <2>. DEFINE d == all_headers(k, c, r.headers)
              f == Seqs!FlattenSeq([i \in DOMAIN r.headers |->
                                      FoundDecoded(k, r.headers[i], k.header_rules)])
              e == IF r.illegal_host THEN internal(k, d, 21) ELSE d
              g == FoundIf(k, r.illegal_host, 21)
  <2>1. Moves(A, H, d, f)
    BY RequestFields, HeadersMove
  <2>2. headers_parse(k, c, r) = e /\ FoundInHeaders(k, r) = f \o g
    BY <1>2 DEF headers_parse, FoundInHeaders
  <2>. HIDE DEF d, f
  <2>3. d \in Context(k) /\ <<d, H \o f>> \in A /\ H \o f \in Seq(Match)
    BY <2>1, MovesTyped, Zenon
  <2>4. 21 \in InternalIds
    BY DEF InternalIds
  <2>5. Moves(A, H \o f, e, g)
    BY <2>3, <2>4, RequestFields, InternalMoves, Zenon
  <2>. HIDE DEF e, g
  <2>. QED BY <2>1, <2>2, <2>5, ThenMoves, Zenon
<1>. QED BY <1>1, <1>2

\* The URI, while inspection goes on.
LEMMA UriParsed ==
  ASSUME NEW k \in LocConf, NEW A, Keeps(k, A), NEW c \in Context(k),
         NEW H \in Seq(Match), <<c, H>> \in A, NEW r \in Request
  PROVE  Moves(A, H, IF Going(c) THEN uri_parse(k, c, r) ELSE c, FoundInUri(k, r))
<1>1. Moves(A, H, uri_parse(k, c, r), FoundInUri(k, r))
  <2>1. CASE k.generic_rules = {}
    <3>1. 19 \in InternalIds /\ TRUE \in BOOLEAN
      BY DEF InternalIds
    <3>2. Moves(A, H, IF TRUE THEN internal(k, c, 19) ELSE c, FoundIf(k, TRUE, 19))
      BY <3>1, InternalMoves, Zenon
    <3>. QED BY <2>1, <3>2, Zenon DEF uri_parse, FoundInUri
  <2>2. CASE k.generic_rules # {}
    BY <2>2, RequestFields, ConfFields, DecodedMoves, Zenon DEF uri_parse, FoundInUri
  <2>. QED BY <2>1, <2>2
<1>2. CASE Going(c)
  BY <1>1, <1>2, Zenon
<1>3. CASE ~Going(c)
  BY <1>1, <1>3, MovesTyped, Zenon DEF Moves, Keeps
<1>. QED BY <1>2, <1>3

\* The arguments, while inspection goes on.
LEMMA ArgsParsed ==
  ASSUME NEW k \in LocConf, NEW A, Keeps(k, A), NEW c \in Context(k),
         NEW H \in Seq(Match), <<c, H>> \in A, NEW r \in Request
  PROVE  Moves(A, H, IF Going(c) /\ r.args.present /\ k.get_rules # {}
                     THEN spliturl_ruleset(k, c, r.args, k.get_rules) ELSE c,
               FoundInArgs(k, r))
<1>1. Moves(A, H, spliturl_ruleset(k, c, r.args, k.get_rules),
            FoundInQuery(k, r.args, k.get_rules))
  BY RequestFields, ConfFields, QueryMoves, Zenon
<1>2. CASE ~(r.args.present /\ k.get_rules # {})
  BY <1>2, Stays, Zenon DEF FoundInArgs
<1>3. CASE r.args.present /\ k.get_rules # {} /\ Going(c)
  BY <1>1, <1>3, Zenon DEF FoundInArgs
<1>4. CASE r.args.present /\ k.get_rules # {} /\ ~Going(c)
  BY <1>1, <1>4, MovesTyped, Zenon DEF FoundInArgs, Moves, Keeps
<1>. QED BY <1>2, <1>3, <1>4
-----------------------------------------------------------------------------
(***************************************************************************)
(* The body                                                                *)
(***************************************************************************)

\* What is not looked at behind an internal rule may be anything.
LEMMA EndsWith ==
  ASSUME NEW k \in LocConf, NEW A, Keeps(k, A), NEW c \in Context(k),
         NEW H \in Seq(Match), <<c, H>> \in A, NEW id \in InternalIds,
         Applies(k, id), NEW g \in Seq(Match)
  PROVE  Moves(A, H, internal(k, c, id), <<Internal(id)>> \o g)
<1>. DEFINE h == <<Internal(id)>>
<1>1. internal(k, c, id) = hit(k, c, Internal(id))
  BY DEF internal
<1>2. h \in Seq(Match)
  BY InternalMatches
<1>3. <<hit(k, c, Internal(id)), (H \o h) \o g>> \in A
  BY Zenon DEF Keeps
<1>. HIDE DEF h
<1>4. (H \o h) \o g = H \o (h \o g) /\ h \o g \in Seq(Match)
  BY ONLY <1>2, g \in Seq(Match), H \in Seq(Match), ConcatAssociative, ConcatProperties, SMTT(30)
<1>5. Moves(A, H, internal(k, c, id), h \o g)
  BY <1>1, <1>3, <1>4, Zenon DEF Moves
<1>. QED BY <1>5 DEF h

LEMMA MultipartMoves ==
  ASSUME NEW k \in LocConf, NEW A, Keeps(k, A), NEW c \in Context(k),
         NEW H \in Seq(Match), <<c, H>> \in A, NEW b \in Body,
         b.type = "multipart", b.ending # "line",
         b.ending = "format" => ~Applies(k, 13)
  PROVE  Moves(A, H, multipart_parse(k, c, b), FoundTyped(k, b))
<1>. DEFINE d == parts(k, c, b.pieces)
            f == FoundInPieces(k, b.pieces, k.body_rules)
            atBoundary == b.ending = "boundary"
            e == IF atBoundary THEN internal(k, d, 14) ELSE d
            g == FoundIf(k, atBoundary, 14)
            badPart == b.ending \in {"format", "disposition"}
            x == IF badPart THEN internal(k, e, 13) ELSE e
            h == FoundIf(k, badPart, 13)
<1>1. Moves(A, H, d, f)
  BY BodyFields, PartsMove
<1>2. FoundTyped(k, b) = (f \o g) \o h
  BY DEF FoundTyped
<1>3. multipart_parse(k, c, b) = x
  <2>1. b.ending \in {"closed", "boundary", "disposition", "format"}
    BY BodyFields
  <2>2. CASE b.ending = "closed"
    BY <2>2 DEF multipart_parse
  <2>3. CASE b.ending = "boundary"
    BY <2>3 DEF multipart_parse
  <2>4. CASE b.ending = "disposition"
    BY <2>4 DEF multipart_parse
  <2>5. CASE b.ending = "format"
    BY <2>5 DEF multipart_parse
  <2>. QED BY <2>1, <2>2, <2>3, <2>4, <2>5
<1>4. 13 \in InternalIds /\ 14 \in InternalIds
  BY DEF InternalIds
<1>5. atBoundary \in BOOLEAN /\ badPart \in BOOLEAN
  OBVIOUS
<1>. HIDE DEF d, f, atBoundary, badPart
<1>6. d \in Context(k) /\ <<d, H \o f>> \in A /\ H \o f \in Seq(Match)
  BY <1>1, MovesTyped, Zenon
<1>7. Moves(A, H \o f, e, g)
  BY <1>4, <1>5, <1>6, InternalMoves, Zenon
<1>. HIDE DEF e, g
<1>8. Moves(A, H, e, f \o g)
  BY <1>1, <1>7, ThenMoves, Zenon
<1>9. e \in Context(k) /\ <<e, H \o (f \o g)>> \in A /\ H \o (f \o g) \in Seq(Match)
  BY <1>8, MovesTyped, Zenon
<1>10. Moves(A, H \o (f \o g), x, h)
  BY <1>4, <1>5, <1>9, InternalMoves, Zenon
<1>. HIDE DEF x, h
<1>11. Moves(A, H, x, (f \o g) \o h)
  BY <1>8, <1>10, ThenMoves, Zenon
<1>. QED BY <1>2, <1>3, <1>11

LEMMA JsonMoves ==
  ASSUME NEW k \in LocConf, NEW A, Keeps(k, A), NEW c \in Context(k),
         NEW H \in Seq(Match), <<c, H>> \in A, NEW b \in Body,
         b.type = "json"
  PROVE  Moves(A, H, json_parse(k, c, b), FoundTyped(k, b))
<1>. DEFINE d == values(k, c, b.pieces, k.body_rules)
            f == FoundInValues(k, b.pieces, k.body_rules)
            e == internals(k, d, b.errors)
            g == Found(k, b.errors)
<1>1. Moves(A, H, d, f)
  BY BodyFields, ConfFields, ValuesMove
<1>2. FoundTyped(k, b) = f \o g
  BY DEF FoundTyped
<1>3. json_parse(k, c, b) = e
  BY DEF json_parse
<1>. HIDE DEF d, f
<1>4. d \in Context(k) /\ <<d, H \o f>> \in A /\ H \o f \in Seq(Match)
  BY <1>1, MovesTyped, Zenon
<1>5. Moves(A, H \o f, e, g)
  BY <1>4, BodyFields, InternalsMoves
<1>. HIDE DEF e, g
<1>. QED BY <1>1, <1>2, <1>3, <1>5, ThenMoves, Zenon

\* What there is to find in a body is a sequence of matches.
LEMMA FoundTypedType ==
  ASSUME NEW k \in LocConf, NEW c \in Context(k), NEW b \in Body
  PROVE  FoundTyped(k, b) \in Seq(Match)
<1>. DEFINE A == Pairs(k)
<1>1. Keeps(k, A) /\ <<c, << >> >> \in A /\ << >> \in Seq(Match)
  BY PairsKept, PairsAll
<1>. HIDE DEF A
<1>2. CASE b.type = "urlencoded"
  <2>1. Moves(A, << >>, spliturl_ruleset(k, c, b, k.body_rules), FoundInQuery(k, b, k.body_rules))
    BY <1>1, BodyFields, ConfFields, QueryMoves, Zenon
  <2>2. FoundTyped(k, b) = FoundInQuery(k, b, k.body_rules)
    BY <1>2 DEF FoundTyped
  <2>. QED BY <2>1, <2>2, Zenon DEF Moves
<1>3. CASE b.type = "multipart"
  <2>. DEFINE f == FoundInPieces(k, b.pieces, k.body_rules)
              g == FoundIf(k, b.ending = "boundary", 14)
              h == FoundIf(k, b.ending \in {"format", "disposition"}, 13)
  <2>1. \A i \in DOMAIN b.pieces : b.pieces[i] # << >>
    BY <1>3, BodyFields
  <2>2. Moves(A, << >>, parts(k, c, b.pieces), f)
    BY <1>1, <2>1, BodyFields, PartsMove, Zenon
  <2>3. f \in Seq(Match)
    BY <2>2, Zenon DEF Moves
  <2>4. Internal(13) \in Match /\ Internal(14) \in Match
    BY InternalMatches DEF InternalIds
  <2>5. g \in Seq(Match) /\ h \in Seq(Match)
    BY <2>4 DEF FoundIf
  <2>6. FoundTyped(k, b) = (f \o g) \o h
    BY <1>3 DEF FoundTyped
  <2>. HIDE DEF f, g, h
  <2>. QED BY ONLY <2>3, <2>5, <2>6, ConcatProperties
<1>4. CASE b.type = "json"
  <2>1. Moves(A, << >>, json_parse(k, c, b), FoundTyped(k, b))
    BY <1>1, <1>4, JsonMoves, Zenon
  <2>. QED BY <2>1, Zenon DEF Moves
<1>5. CASE b.type \in {"none", "other"}
  <2>. DEFINE f == FoundIf(k, b.type = "other", 11)
              g == FoundInValues(k, b.pieces, k.raw_body_rules)
  <2>1. \A i \in DOMAIN b.pieces : b.pieces[i] # << >>
    BY <1>5, BodyFields
  <2>2. Moves(A, << >>, values(k, c, b.pieces, k.raw_body_rules), g)
    BY <1>1, <2>1, BodyFields, ConfFields, ValuesMove, Zenon
  <2>3. g \in Seq(Match)
    BY <2>2, Zenon DEF Moves
  <2>4. Internal(11) \in Match
    BY InternalMatches DEF InternalIds
  <2>5. f \in Seq(Match)
    BY <2>4 DEF FoundIf
  <2>6. FoundTyped(k, b) = f \o g
    BY <1>5 DEF FoundTyped
  <2>. HIDE DEF f, g
  <2>. QED BY ONLY <2>3, <2>5, <2>6, ConcatProperties
<1>. QED BY <1>2, <1>3, <1>4, <1>5, BodyFields

\* The body by content type, when it can be parsed.
LEMMA TypedMoves ==
  ASSUME NEW k \in LocConf, NEW A, Keeps(k, A), NEW c \in Context(k), Going(c),
         NEW H \in Seq(Match), <<c, H>> \in A, NEW b \in Body,
         b.type = "multipart" =>
           b.ending # "line" /\ (b.ending = "format" => ~Applies(k, 13)),
         b.type = "none" => ~Applies(k, 11)
  PROVE  Moves(A, H, typed_body(k, c, b), FoundTyped(k, b))
<1>1. CASE b.type = "urlencoded"
  <2>1. Moves(A, H, spliturl_ruleset(k, c, b, k.body_rules), FoundInQuery(k, b, k.body_rules))
    BY BodyFields, ConfFields, QueryMoves, Zenon
  <2>2. FoundTyped(k, b) = FoundInQuery(k, b, k.body_rules)
    BY <1>1 DEF FoundTyped
  <2>3. typed_body(k, c, b) = spliturl_ruleset(k, c, b, k.body_rules)
    BY <1>1 DEF typed_body
  <2>. QED BY <2>1, <2>2, <2>3, Zenon
<1>2. CASE b.type = "multipart"
  <2>1. typed_body(k, c, b) = multipart_parse(k, c, b)
    BY <1>2 DEF typed_body
  <2>. QED BY <1>2, <2>1, MultipartMoves, Zenon
<1>3. CASE b.type = "json"
  <2>1. typed_body(k, c, b) = json_parse(k, c, b)
    BY <1>3 DEF typed_body
  <2>. QED BY <1>3, <2>1, JsonMoves, Zenon
<1>4. CASE b.type \in {"none", "other"}
  <2>. DEFINE g == FoundInValues(k, b.pieces, k.raw_body_rules)
  <2>1. \A i \in DOMAIN b.pieces : b.pieces[i] # << >>
    BY <1>4, BodyFields
  <2>2. Moves(A, H, values(k, c, b.pieces, k.raw_body_rules), g)
    BY <2>1, BodyFields, ConfFields, ValuesMove, Zenon
  <2>3. g \in Seq(Match)
    BY <2>2, Zenon DEF Moves
  <2>4. FoundTyped(k, b) = FoundIf(k, b.type = "other", 11) \o g
    BY <1>4 DEF FoundTyped
  <2>. HIDE DEF g
  <2>5. CASE Applies(k, 11)
    <3>1. FoundIf(k, b.type = "other", 11) = <<Internal(11)>>
      BY <1>4, <2>5 DEF FoundIf
    <3>2. typed_body(k, c, b) = internal(k, c, 11)
      BY <1>4, <2>5 DEF typed_body
    <3>3. 11 \in InternalIds
      BY DEF InternalIds
    <3>4. Moves(A, H, internal(k, c, 11), <<Internal(11)>> \o g)
      BY <2>3, <2>5, <3>3, EndsWith
    <3>. QED BY <2>4, <3>1, <3>2, <3>4
  <2>6. CASE ~Applies(k, 11)
    <3>1. FoundIf(k, b.type = "other", 11) = << >>
      BY <2>6 DEF FoundIf
    <3>2. typed_body(k, c, b) = values(k, c, b.pieces, k.raw_body_rules)
      BY <1>4, <2>6 DEF typed_body, rawbody_parse
    <3>3. FoundTyped(k, b) = g
      BY <2>3, <2>4, <3>1, ConcatEmptySeq
    <3>. QED BY <2>2, <3>2, <3>3
  <2>. QED BY <2>5, <2>6
<1>. QED BY <1>1, <1>2, <1>3, <1>4, BodyFields

\* The body, while inspection goes on, when it can be parsed.
LEMMA BodyMoves ==
  ASSUME NEW k \in LocConf, NEW A, Keeps(k, A), NEW c \in Context(k), Going(c),
         NEW H \in Seq(Match), <<c, H>> \in A, NEW r \in Request,
         HasBody(k, r), ~Unparsable(k, r)
  PROVE  Moves(A, H, body_parse(k, c, r.body), FoundInBody(k, r))
<1>. DEFINE b == r.body
            g == FoundTyped(k, b)
            f == FoundIf(k, b.temp_file \/ b.mismatch, 2)
            e == FoundIf(k, b.type = "none", 11)
<1>1. b \in Body /\ b.bufs \in BOOLEAN
  BY RequestFields, BodyFields
<1>2. g \in Seq(Match)
  BY <1>1, FoundTypedType
<1>3. CASE ~b.bufs
  <2>1. body_parse(k, c, b) = internal(k, c, 16) /\ FoundInBody(k, r) = FoundIf(k, TRUE, 16)
    BY <1>3 DEF body_parse, FoundInBody
  <2>2. 16 \in InternalIds /\ TRUE \in BOOLEAN
    BY DEF InternalIds
  <2>3. Moves(A, H, IF TRUE THEN internal(k, c, 16) ELSE c, FoundIf(k, TRUE, 16))
    BY <2>2, InternalMoves, Zenon
  <2>. QED BY <2>1, <2>3, Zenon
<1>4. CASE b.bufs
  <2>1. FoundInBody(k, r) = (e \o f) \o g
    BY <1>4 DEF FoundInBody
  <2>2. 2 \in InternalIds /\ 11 \in InternalIds
    BY DEF InternalIds
  <2>3. f \in Seq(Match) /\ e \in Seq(Match) /\ << >> \in Seq(Match)
    <3>1. Internal(2) \in Match /\ Internal(11) \in Match
      BY <2>2, InternalMatches
    <3>. QED BY <3>1 DEF FoundIf
  <2>4. CASE b.type = "none" /\ Applies(k, 11)
    <3>1. body_parse(k, c, b) = internal(k, c, 11)
      BY <1>4, <2>4 DEF body_parse
    <3>2. e = <<Internal(11)>>
      BY <2>4 DEF FoundIf
    <3>. HIDE DEF e, f, g
    <3>3. (e \o f) \o g = e \o (f \o g) /\ f \o g \in Seq(Match)
      BY ONLY <1>2, <2>3, ConcatAssociative, ConcatProperties
    <3>4. Moves(A, H, internal(k, c, 11), <<Internal(11)>> \o (f \o g))
      BY <2>2, <2>4, <3>3, EndsWith
    <3>. QED BY <2>1, <3>1, <3>2, <3>3, <3>4
  <2>5. CASE ~(b.type = "none" /\ Applies(k, 11)) /\ TooBig(k, b)
    <3>1. body_parse(k, c, b) = internal(k, c, 2)
      BY <1>4, <2>5 DEF body_parse
    <3>2. e = << >> /\ f = <<Internal(2)>>
      BY <2>5 DEF FoundIf, TooBig
    <3>3. Applies(k, 2)
      BY <2>5 DEF TooBig
    <3>. HIDE DEF e, f, g
    <3>4. e \o f = f
      BY ONLY <2>3, <3>2, ConcatEmptySeq
    <3>5. Moves(A, H, internal(k, c, 2), <<Internal(2)>> \o g)
      BY <1>2, <2>2, <3>3, EndsWith
    <3>. QED BY <2>1, <3>1, <3>2, <3>4, <3>5
  <2>6. CASE ~(b.type = "none" /\ Applies(k, 11)) /\ ~TooBig(k, b)
    <3>1. body_parse(k, c, b) = typed_body(k, c, b)
      BY <1>4, <2>6 DEF body_parse
    <3>2. e = << >> /\ f = << >>
      BY <2>6 DEF FoundIf, TooBig
    <3>3. b.type = "multipart" =>
            b.ending # "line" /\ (b.ending = "format" => ~Applies(k, 13))
      BY <1>4, <2>6 DEF Unparsable
    <3>. HIDE DEF b
    <3>4. Moves(A, H, typed_body(k, c, b), g)
      BY <1>1, <2>6, <3>3, TypedMoves
    <3>. HIDE DEF e, f, g
    <3>5. (e \o f) \o g = g
      BY ONLY <1>2, <2>3, <3>2, ConcatEmptySeq
    <3>. QED BY <2>1, <3>1, <3>4, <3>5 DEF b
  <2>. QED BY <2>4, <2>5, <2>6
<1>. QED BY <1>1, <1>3, <1>4

\* What there is to find in the body is a sequence of matches.
LEMMA FoundBodyType ==
  ASSUME NEW k \in LocConf, NEW r \in Request
  PROVE  FoundInBody(k, r) \in Seq(Match)
<1>. DEFINE b == r.body
            g == FoundTyped(k, b)
            f == FoundIf(k, b.temp_file \/ b.mismatch, 2)
            e == FoundIf(k, b.type = "none", 11)
            h == FoundIf(k, TRUE, 16)
<1>1. b \in Body
  BY RequestFields
<1>2. g \in Seq(Match)
  BY <1>1, NewContextType, FoundTypedType
<1>3. e \in Seq(Match) /\ f \in Seq(Match) /\ h \in Seq(Match) /\ << >> \in Seq(Match)
  <2>1. Internal(2) \in Match /\ Internal(11) \in Match /\ Internal(16) \in Match
    BY InternalMatches DEF InternalIds
  <2>. QED BY <2>1 DEF FoundIf
<1>4. FoundInBody(k, r) \in {<< >>, h, (e \o f) \o g}
  BY DEF FoundInBody
<1>. HIDE DEF e, f, g, h
<1>5. (e \o f) \o g \in Seq(Match)
  BY ONLY <1>2, <1>3, ConcatProperties
<1>. QED BY <1>3, <1>4, <1>5

\* The body, or none, when it can be parsed.
LEMMA BodyParsed ==
  ASSUME NEW k \in LocConf, NEW A, Keeps(k, A), NEW c \in Context(k),
         NEW H \in Seq(Match), <<c, H>> \in A, NEW r \in Request, ~Unparsable(k, r)
  PROVE  Moves(A, H, IF HasBody(k, r) /\ Going(c) THEN body_parse(k, c, r.body) ELSE c,
               FoundInBody(k, r))
<1>1. CASE ~HasBody(k, r)
  BY <1>1, Stays, Zenon DEF FoundInBody
<1>2. CASE HasBody(k, r) /\ Going(c)
  BY <1>2, BodyMoves, Zenon
<1>3. CASE HasBody(k, r) /\ ~Going(c)
  <2>1. FoundInBody(k, r) \in Seq(Match)
    BY FoundBodyType
  <2>. QED BY <1>3, <2>1, Zenon DEF Moves, Keeps
<1>. QED BY <1>1, <1>2, <1>3

\* An internal error.
LEMMA FatalType ==
  ASSUME NEW k, NEW c \in Context(k)
  PROVE  error_fatal(c) \in Context(k) /\ "drop" \in error_fatal(c).flags
<1>1. c.flags \cup {"block", "drop"} \in SUBSET Flags
  BY DEF Context, Flags
<1>. QED BY <1>1 DEF Context, error_fatal

\* A body that cannot be parsed stops the request.
LEMMA BodyFails ==
  ASSUME NEW k \in LocConf, NEW c \in Context(k), NEW r \in Request,
         Unparsable(k, r)
  PROVE  /\ HasBody(k, r)
         /\ body_parse(k, c, r.body) \in Context(k)
         /\ "drop" \in body_parse(k, c, r.body).flags
<1>. DEFINE b == r.body
            d == parts(k, c, b.pieces)
            e == internal(k, d, 13)
<1>1. b \in Body /\ b.type = "multipart" /\ \A i \in DOMAIN b.pieces : b.pieces[i] # << >>
  BY RequestFields, BodyFields DEF Unparsable
<1>2. d \in Context(k)
  <2>1. Keeps(k, Pairs(k)) /\ <<c, << >> >> \in Pairs(k) /\ << >> \in Seq(Match)
    BY PairsKept, PairsAll
  <2>2. Moves(Pairs(k), << >>, d, FoundInPieces(k, b.pieces, k.body_rules))
    BY <1>1, <2>1, BodyFields, PartsMove, Zenon
  <2>. QED BY <2>1, <2>2, MovesTyped, Zenon
<1>. HIDE DEF d
<1>3. e \in Context(k)
  <2>1. Keeps(k, Pairs(k)) /\ <<d, << >> >> \in Pairs(k) /\ << >> \in Seq(Match)
    BY <1>2, PairsKept, PairsAll
  <2>2. 13 \in InternalIds /\ TRUE \in BOOLEAN
    BY DEF InternalIds
  <2>3. Moves(Pairs(k), << >>, IF TRUE THEN internal(k, d, 13) ELSE d, FoundIf(k, TRUE, 13))
    BY <1>2, <2>1, <2>2, InternalMoves, Zenon
  <2>. QED BY <2>1, <2>3, MovesTyped, Zenon
<1>. HIDE DEF e
<1>4. \A x \in Context(k) : error_fatal(x) \in Context(k) /\ "drop" \in error_fatal(x).flags
  BY FatalType
<1>5. body_parse(k, c, b) = multipart_parse(k, c, b)
  BY <1>1 DEF Unparsable, body_parse, typed_body
<1>6. multipart_parse(k, c, b) = error_fatal(d) \/ multipart_parse(k, c, b) = error_fatal(e)
  <2>1. CASE b.ending = "line"
    BY <2>1 DEF multipart_parse, d
  <2>2. CASE b.ending = "format" /\ Applies(k, 13)
    BY <2>2 DEF multipart_parse, d, e
  <2>. QED BY <2>1, <2>2 DEF Unparsable
<1>. QED BY <1>2, <1>3, <1>4, <1>5, <1>6 DEF Unparsable
-----------------------------------------------------------------------------
(***************************************************************************)
(* The context when a sequence of matches is applied                       *)
(***************************************************************************)

\* f[i] is the context after the first i matches.
Applied(k, hits, f) ==
  /\ f[0] = NewContext(k.learning)
  /\ \A i \in 1 .. Len(hits) : f[i] = hit(k, f[i - 1], hits[i])

LEMMA RunApplies ==
  ASSUME NEW k \in LocConf, NEW hits \in Seq(Match)
  PROVE  \E f : Applied(k, hits, f) /\ Run(k, hits) = f[Len(hits)]
<1>. DEFINE n == Len(hits)
            C == Context(k)
            c == NewContext(k.learning)
            G == [p \in C \X (1 .. n) |-> hit(k, p[1], hits[p[2]])]
<1>1. n \in Nat /\ \A i \in 1 .. n : hits[i] \in Match
  BY Elements
<1>2. c \in C
  BY NewContextType
<1>. HIDE DEF n, c
<1>3. G \in [C \X (1 .. n) -> C]
  BY <1>1, HitType
<1>4. \A d \in C, i \in 1 .. n : G[<<d, i>>] = hit(k, d, hits[i])
  OBVIOUS
<1>. HIDE DEF G, C
<1>5. PICK F \in [0 .. n -> C] : Course(F, G, c, n)
  BY <1>1, <1>2, <1>3, LoopExists
<1>6. F = [i \in 0 .. n |-> IF i = 0 THEN c ELSE hit(k, F[i - 1], hits[i])]
  <2>1. ASSUME NEW i \in 0 .. n, i # 0
        PROVE  F[i - 1] \in C /\ i \in 1 .. n
    BY <1>1, <2>1
  <2>. QED BY <1>4, <1>5, <2>1 DEF Course
<1>7. PICK f : /\ f = [i \in 0 .. n |-> IF i = 0 THEN c ELSE hit(k, f[i - 1], hits[i])]
               /\ Run(k, hits) = f[n]
  BY <1>6, Zenon DEF Run, Fold, n, c
<1>8. f[0] = c /\ \A i \in 1 .. n : f[i] = hit(k, f[i - 1], hits[i])
  BY <1>1, <1>7
<1>. QED BY <1>7, <1>8, Zenon DEF Applied, n, c

\* Sequences of matches that begin alike lead to the same contexts.
LEMMA AppliedPrefix ==
  ASSUME NEW k, NEW H \in Seq(Match), NEW K \in Seq(Match),
         NEW f, Applied(k, H \o K, f), NEW g, Applied(k, H, g)
  PROVE  \A i \in 0 .. Len(H) : f[i] = g[i]
<1>. DEFINE S == {i \in 0 .. Len(H) : f[i] = g[i]}
<1>1. Len(H) \in Nat /\ Len(K) \in Nat /\ Len(H \o K) = Len(H) + Len(K)
  OBVIOUS
<1>2. \A i \in 1 .. Len(H) : (H \o K)[i] = H[i] /\ i \in 1 .. Len(H \o K)
  OBVIOUS
<1>3. 0 \in S
  BY DEF Applied
<1>4. ASSUME NEW i \in 1 .. Len(H), i - 1 \in S
      PROVE  i \in S
  BY <1>2, <1>4 DEF Applied
<1>. HIDE DEF S
<1>5. \A i \in 0 .. Len(H) : i \in S
  BY <1>1, <1>3, <1>4, UpTo
<1>. QED BY <1>5 DEF S

\* Every context on the way is one, counts the matches, and has the flags of
\* the CheckRules its scores meet unless the client is on an ignore list.
LEMMA AppliedType ==
  ASSUME NEW k \in LocConf, NEW hits \in Seq(Match), NEW f, Applied(k, hits, f)
  PROVE  \A i \in 0 .. Len(hits) :
           /\ f[i] \in Context(k) /\ f[i].matched = i
           /\ k.listed => ~Denied(f[i])
           /\ ~k.listed => CheckFlags(f[i].special_scores) \subseteq f[i].flags
<1>. DEFINE n == Len(hits)
            P(i) == /\ f[i] \in Context(k) /\ f[i].matched = i
                    /\ k.listed => ~Denied(f[i])
                    /\ ~k.listed => CheckFlags(f[i].special_scores) \subseteq f[i].flags
            S == {i \in 0 .. n : P(i)}
<1>1. n \in Nat /\ \A i \in 1 .. n : hits[i] \in Match
  BY Elements
<1>2. 0 \in S
  <2>1. f[0] \in Context(k)
    BY NewContextType DEF Applied
  <2>2. f[0].matched = 0 /\ f[0].flags = {} /\ DOMAIN f[0].special_scores = {}
    BY DEF Applied, NewContext
  <2>. QED BY <1>1, <2>1, <2>2 DEF Denied, CheckFlags
<1>3. ASSUME NEW i \in 1 .. n, i - 1 \in S
      PROVE  i \in S
  <2>1. /\ f[i - 1] \in Context(k) /\ f[i - 1].matched = i - 1
        /\ f[i] = hit(k, f[i - 1], hits[i])
    BY <1>3 DEF Applied
  <2>. HIDE DEF n
  <2>2. /\ f[i] \in Context(k)
        /\ f[i].matched = f[i - 1].matched + 1
        /\ f[i].flags = Spared(f[i - 1].flags \cup hits[i].effect.flags
                                 \cup CheckFlags(f[i].special_scores), k.listed)
    <3>. DEFINE c == f[i - 1]
                h == hits[i]
    <3>1. c \in Context(k) /\ h \in Match /\ f[i] = hit(k, c, h)
      BY <1>1, <2>1
    <3>. HIDE DEF c, h
    <3>2. /\ hit(k, c, h) \in Context(k)
          /\ hit(k, c, h).matched = c.matched + 1
          /\ hit(k, c, h).flags = Spared(c.flags \cup h.effect.flags
                                   \cup CheckFlags(hit(k, c, h).special_scores), k.listed)
      BY <3>1, HitType
    <3>. QED BY <3>1, <3>2 DEF c, h
  <2>3. f[i].matched = i
    BY <1>1, <2>1, <2>2
  <2>4. k.listed => ~Denied(f[i])
    BY <2>2 DEF Spared, Denied
  <2>5. ~k.listed => CheckFlags(f[i].special_scores) \subseteq f[i].flags
    BY <2>2 DEF Spared
  <2>6. P(i)
    BY <2>2, <2>3, <2>4, <2>5
  <2>. HIDE DEF P
  <2>. QED BY <1>1, <2>6
<1>. HIDE DEF S
<1>4. \A i \in 0 .. n : i \in S
  BY <1>1, <1>2, <1>3, UpTo
<1>. QED BY <1>4 DEF S

LEMMA RunType ==
  ASSUME NEW k \in LocConf, NEW hits \in Seq(Match)
  PROVE  /\ Run(k, hits) \in Context(k) /\ Run(k, hits).matched = Len(hits)
         /\ k.listed => ~Denied(Run(k, hits))
         /\ ~k.listed =>
              CheckFlags(Run(k, hits).special_scores) \subseteq Run(k, hits).flags
<1>1. PICK f : Applied(k, hits, f) /\ Run(k, hits) = f[Len(hits)]
  BY RunApplies
<1>2. Len(hits) \in 0 .. Len(hits)
  OBVIOUS
<1>. QED BY <1>1, <1>2, AppliedType

LEMMA RunEmpty ==
  ASSUME NEW k \in LocConf
  PROVE  Run(k, << >>) = NewContext(k.learning) /\ << >> \in Seq(Match)
<1>1. << >> \in Seq(Match) /\ Len(<< >>) = 0
  OBVIOUS
<1>2. PICK f : Applied(k, << >>, f) /\ Run(k, << >>) = f[Len(<< >>)]
  BY <1>1, RunApplies
<1>. QED BY <1>1, <1>2 DEF Applied

\* One more match.
LEMMA RunAppend ==
  ASSUME NEW k \in LocConf, NEW H \in Seq(Match), NEW h \in Match
  PROVE  Run(k, H \o <<h>>) = hit(k, Run(k, H), h) /\ H \o <<h>> \in Seq(Match)
<1>. DEFINE K == <<h>>
            n == Len(H)
<1>1. K \in Seq(Match) /\ n \in Nat /\ Len(H \o K) = n + 1 /\ (H \o K)[n + 1] = h
  OBVIOUS
<1>2. H \o K \in Seq(Match)
  BY <1>1, ConcatProperties
<1>. HIDE DEF K
<1>3. PICK f : Applied(k, H \o K, f) /\ Run(k, H \o K) = f[Len(H \o K)]
  BY <1>2, RunApplies
<1>4. PICK g : Applied(k, H, g) /\ Run(k, H) = g[n]
  BY RunApplies
<1>5. f[n] = g[n]
  <2>1. \A i \in 0 .. Len(H) : f[i] = g[i]
    BY <1>1, <1>3, <1>4, AppliedPrefix
  <2>. QED BY <1>1, <2>1
<1>6. f[n + 1] = hit(k, f[n], h)
  <2>1. n + 1 \in 1 .. Len(H \o K) /\ (n + 1) - 1 = n
    BY <1>1
  <2>. QED BY <1>1, <1>3, <2>1 DEF Applied
<1>. QED BY <1>1, <1>2, <1>3, <1>4, <1>5, <1>6 DEF K

\* A request that is denied stays so, whatever else matches.
LEMMA DeniedStays ==
  ASSUME NEW k \in LocConf, ~k.listed, NEW c \in Context(k), Denied(c), NEW h \in Match
  PROVE  Denied(hit(k, c, h))
<1>1. LET d == hit(k, c, h) IN d \in Context(k) /\ c.flags \subseteq d.flags
  BY HitType, ZenonT(60) DEF Spared
<1>. QED BY <1>1 DEF Denied, Context

LEMMA RunDenied ==
  ASSUME NEW k \in LocConf, ~k.listed, NEW H \in Seq(Match), NEW K \in Seq(Match),
         Denied(Run(k, H))
  PROVE  Denied(Run(k, H \o K)) /\ H \o K \in Seq(Match)
<1>. DEFINE n == Len(H)
            m == Len(K)
            HK == H \o K
<1>1. n \in Nat /\ m \in Nat /\ Len(HK) = n + m
  OBVIOUS
<1>2. HK \in Seq(Match)
  BY ConcatProperties
<1>3. PICK f : Applied(k, HK, f) /\ Run(k, HK) = f[Len(HK)]
  BY <1>2, RunApplies
<1>4. PICK g : Applied(k, H, g) /\ Run(k, H) = g[n]
  BY RunApplies
<1>5. f[n] = g[n]
  BY <1>1, <1>3, <1>4, AppliedPrefix
<1>. DEFINE S == {i \in 0 .. m : Denied(f[n + i])}
<1>. HIDE DEF HK, n, m
<1>6. 0 \in S
  BY <1>1, <1>4, <1>5
<1>7. ASSUME NEW i \in 1 .. m, i - 1 \in S
      PROVE  i \in S
  <2>1. /\ n + i \in 1 .. Len(HK) /\ (n + i) - 1 = n + (i - 1)
        /\ (n + i) - 1 \in 0 .. Len(HK)
    BY <1>1
  <2>2. f[n + i] = hit(k, f[n + (i - 1)], HK[n + i])
    BY <1>3, <2>1 DEF Applied
  <2>3. f[n + (i - 1)] \in Context(k)
    BY <1>2, <1>3, <2>1, AppliedType
  <2>4. HK[n + i] \in Match
    BY <1>2, <2>1, Elements
  <2>5. Denied(f[n + (i - 1)])
    BY <1>7
  <2>. QED BY <2>2, <2>3, <2>4, <2>5, DeniedStays
<1>. HIDE DEF S
<1>8. \A i \in 0 .. m : i \in S
  BY <1>1, <1>6, <1>7, UpTo
<1>9. m \in S
  BY <1>1, <1>8
<1>. QED BY <1>1, <1>2, <1>3, <1>9 DEF S, HK

\* The inspection agrees with what was found: its context is what all of it
\* leads to, unless the request is denied either way.
Agrees(k) ==
  {p \in Pairs(k) : p[1] = Run(k, p[2]) \/ (Denied(p[1]) /\ Denied(Run(k, p[2])))}

LEMMA AgreesIs ==
  ASSUME NEW k, NEW c, NEW H
  PROVE  <<c, H>> \in Agrees(k) <=>
           /\ c \in Context(k) /\ H \in Seq(Match)
           /\ c = Run(k, H) \/ (Denied(c) /\ Denied(Run(k, H)))
BY DEF Agrees, Pairs

\* The match of an internal rule denies the request.
LEMMA InternalDenies ==
  ASSUME NEW k \in LocConf, ~k.learning, ~k.listed, NEW c \in Context(k),
         NEW id \in InternalIds
  PROVE  Denied(hit(k, c, Internal(id)))
<1>. DEFINE h == Internal(id)
            d == hit(k, c, h)
<1>1. h \in Match /\ ("block" \in h.effect.flags \/ "drop" \in h.effect.flags)
  BY InternalMatches
<1>. HIDE DEF h
<1>2. d \in Context(k) /\ h.effect.flags \subseteq d.flags
  <2>. DEFINE fl == c.flags \cup h.effect.flags \cup CheckFlags(d.special_scores)
  <2>1. d \in Context(k) /\ d.flags = Spared(fl, k.listed)
    BY <1>1, HitType, Zenon
  <2>2. h.effect.flags \subseteq fl
    OBVIOUS
  <2>. HIDE DEF fl, d
  <2>. QED BY <2>1, <2>2 DEF Spared
<1>3. d.learning = k.learning
  BY <1>2 DEF Context
<1>. QED BY <1>1, <1>2, <1>3 DEF Denied, h

\* The parsers keep the agreement outside learning mode.
LEMMA AgreesKept ==
  ASSUME NEW k \in LocConf, ~k.learning, ~k.listed
  PROVE  Keeps(k, Agrees(k))
<1>1. Agrees(k) \subseteq Context(k) \X Seq(Match)
  BY DEF Agrees, Pairs
<1>2. ASSUME NEW c \in Context(k), NEW H \in Seq(Match), NEW h \in Match,
             <<c, H>> \in Agrees(k)
      PROVE  <<hit(k, c, h), H \o <<h>> >> \in Agrees(k)
  <2>1. hit(k, c, h) \in Context(k) /\ Run(k, H) \in Context(k)
    BY HitType, RunType
  <2>2. Run(k, H \o <<h>>) = hit(k, Run(k, H), h) /\ H \o <<h>> \in Seq(Match)
    BY RunAppend
  <2>3. CASE c = Run(k, H)
    BY <2>1, <2>2, <2>3, AgreesIs, Zenon
  <2>4. CASE Denied(c) /\ Denied(Run(k, H))
    <3>1. Denied(hit(k, c, h))
      BY <2>4, DeniedStays
    <3>2. Denied(hit(k, Run(k, H), h))
      BY <2>1, <2>4, DeniedStays
    <3>. QED BY <2>1, <2>2, <3>1, <3>2, AgreesIs, Zenon
  <2>. QED BY <1>2, <2>3, <2>4, AgreesIs, Zenon
<1>3. ASSUME NEW c \in Context(k), NEW H \in Seq(Match), NEW K \in Seq(Match),
             <<c, H>> \in Agrees(k), "block" \in c.flags \/ ~Going(c)
      PROVE  <<c, H \o K>> \in Agrees(k)
  <2>1. Denied(c)
    BY <1>3 DEF Denied, Going, Context
  <2>2. Denied(Run(k, H))
    BY <1>3, <2>1, AgreesIs, Zenon
  <2>3. Denied(Run(k, H \o K)) /\ H \o K \in Seq(Match)
    BY <2>2, RunDenied
  <2>. QED BY <2>1, <2>3, AgreesIs, Zenon
<1>4. ASSUME NEW c \in Context(k), NEW H \in Seq(Match), NEW K \in Seq(Match),
             NEW id \in InternalIds, <<c, H>> \in Agrees(k)
      PROVE  <<hit(k, c, Internal(id)), (H \o <<Internal(id)>>) \o K>> \in Agrees(k)
  <2>. DEFINE h == Internal(id)
              HH == H \o <<h>>
  <2>1. h \in Match
    BY InternalMatches
  <2>2. hit(k, c, h) \in Context(k) /\ Run(k, H) \in Context(k)
    BY <2>1, HitType, RunType
  <2>3. Run(k, HH) = hit(k, Run(k, H), h) /\ HH \in Seq(Match)
    BY <2>1, RunAppend
  <2>4. Denied(hit(k, c, h)) /\ Denied(Run(k, HH))
    BY <2>2, <2>3, InternalDenies, Zenon
  <2>. HIDE DEF HH
  <2>5. Denied(Run(k, HH \o K)) /\ HH \o K \in Seq(Match)
    BY <2>3, <2>4, RunDenied
  <2>6. <<hit(k, c, h), HH \o K>> \in Agrees(k)
    BY <2>2, <2>4, <2>5, AgreesIs, Zenon
  <2>. QED BY <2>6 DEF HH
<1>. QED BY <1>1, <1>2, <1>3, <1>4, Zenon DEF Keeps

\* Bringing the context up to date at the end changes nothing in it.
LEMMA UpdateAgrees ==
  ASSUME NEW k \in LocConf, ~k.listed, NEW c \in Context(k), NEW H \in Seq(Match),
         <<c, H>> \in Agrees(k)
  PROVE  <<update_current_ctx_status(c, k.listed), H>> \in Agrees(k)
<1>. DEFINE d == update_current_ctx_status(c, k.listed)
<1>1. /\ d \in Context(k)
      /\ d.flags = c.flags \cup CheckFlags(c.special_scores)
  BY UpdateType DEF Spared
<1>2. CASE c = Run(k, H)
  <2>1. CheckFlags(c.special_scores) \subseteq c.flags
    BY <1>2, RunType
  <2>2. c.flags \cup CheckFlags(c.special_scores) = c.flags
    BY <2>1
  <2>3. c.ignore = FALSE /\ (c.ignore \/ k.listed) = FALSE
    BY DEF Context, LocConf
  <2>4. d = [c EXCEPT !.ignore = FALSE, !.flags = c.flags]
    BY <2>2, <2>3 DEF update_current_ctx_status, Spared
  <2>5. d = c
    BY <2>3, <2>4 DEF Context
  <2>. QED BY <2>5
<1>3. CASE Denied(c) /\ Denied(Run(k, H))
  <2>1. Denied(d)
    BY <1>1, <1>3 DEF Denied, Context
  <2>. HIDE DEF d
  <2>2. <<d, H>> \in Agrees(k)
    BY <1>1, <1>3, <2>1, AgreesIs, Zenon
  <2>. QED BY <2>2 DEF d
<1>. QED BY <1>2, <1>3, AgreesIs, Zenon
-----------------------------------------------------------------------------
(***************************************************************************)
(* The inspection as a whole                                               *)
(***************************************************************************)

\* What there is to find before the parser p.
FoundBefore(p, k, r) ==
  CASE p = "headers" -> << >>
    [] p = "uri"     -> FoundInHeaders(k, r)
    [] p = "args"    -> FoundInHeaders(k, r) \o FoundInUri(k, r)
    [] p = "body"    -> FoundInHeaders(k, r) \o FoundInUri(k, r) \o FoundInArgs(k, r)
    [] OTHER         -> FoundInHeaders(k, r) \o FoundInUri(k, r) \o FoundInArgs(k, r)
                        \o FoundInBody(k, r)

\* The context agrees with it; a body that cannot be parsed denies.
Agreement(p, k, r, c) ==
  IF p \in {"update", "done"} /\ Unparsable(k, r) THEN Denied(c)
  ELSE <<c, FoundBefore(p, k, r)>> \in Agrees(k)

\* The inductive invariant.
InspectInv ==
  /\ pc \in {"headers", "uri", "args", "body", "update", "done"}
  /\ req \in Requests /\ cf \in LocConfs /\ ctx \in Context(cf)
  /\ failed \in {"none", "uri", "args", "body", "json"}
  /\ pc = "headers" => failed = "none"
  /\ failed \in {"uri", "args", "body"} /\ ~cf.listed => "drop" \in ctx.flags
  /\ ~cf.learning /\ ~cf.listed /\ failed = "none" => Agreement(pc, cf, req, ctx)
  /\ pc = "done" /\ cf.listed => ~Denied(ctx)

LEMMA RequestsAre == Requests \subseteq Request /\ LocConfs \subseteq LocConf
BY InspectAssumption

\* Every parser leaves a context.
LEMMA ParsersTyped ==
  ASSUME NEW k \in LocConf, NEW c \in Context(k), NEW r \in Request
  PROVE  /\ headers_parse(k, c, r) \in Context(k)
         /\ (IF Going(c) THEN uri_parse(k, c, r) ELSE c) \in Context(k)
         /\ (IF Going(c) /\ r.args.present /\ k.get_rules # {}
             THEN spliturl_ruleset(k, c, r.args, k.get_rules) ELSE c) \in Context(k)
         /\ (IF HasBody(k, r) /\ Going(c) THEN body_parse(k, c, r.body) ELSE c)
              \in Context(k)
         /\ error_fatal(c) \in Context(k) /\ "drop" \in error_fatal(c).flags
<1>. DEFINE A == Pairs(k)
<1>1. Keeps(k, A) /\ <<c, << >> >> \in A /\ << >> \in Seq(Match)
  BY PairsKept, PairsAll
<1>. HIDE DEF A
<1>2. headers_parse(k, c, r) \in Context(k)
  BY <1>1, HeadersParsed, MovesTyped, Zenon
<1>3. (IF Going(c) THEN uri_parse(k, c, r) ELSE c) \in Context(k)
  BY <1>1, UriParsed, MovesTyped, Zenon
<1>4. (IF Going(c) /\ r.args.present /\ k.get_rules # {}
       THEN spliturl_ruleset(k, c, r.args, k.get_rules) ELSE c) \in Context(k)
  <2>. DEFINE d == IF Going(c) /\ r.args.present /\ k.get_rules # {}
                   THEN spliturl_ruleset(k, c, r.args, k.get_rules) ELSE c
  <2>1. Moves(A, << >>, d, FoundInArgs(k, r))
    BY <1>1, ArgsParsed, Zenon
  <2>. HIDE DEF d
  <2>2. d \in Context(k)
    BY <1>1, <2>1, MovesTyped, Zenon
  <2>. QED BY <2>2 DEF d
<1>5. (IF HasBody(k, r) /\ Going(c) THEN body_parse(k, c, r.body) ELSE c)
        \in Context(k)
  <2>1. CASE Unparsable(k, r)
    BY <2>1, BodyFails
  <2>2. CASE ~Unparsable(k, r)
    <3>. DEFINE d == IF HasBody(k, r) /\ Going(c) THEN body_parse(k, c, r.body) ELSE c
    <3>1. Moves(A, << >>, d, FoundInBody(k, r))
      BY <1>1, <2>2, BodyParsed, Zenon
    <3>. HIDE DEF d
    <3>2. d \in Context(k)
      BY <1>1, <3>1, MovesTyped, Zenon
    <3>. QED BY <3>2 DEF d
  <2>. QED BY <2>1, <2>2
<1>. QED BY <1>2, <1>3, <1>4, <1>5, FatalType

\* A step that moves the agreement from what was found before to what it finds.
LEMMA MovesAgree ==
  ASSUME NEW k, NEW r, NEW p, NEW q, p \notin {"update", "done"},
         q \notin {"update", "done"} \/ ~Unparsable(k, r), NEW d, NEW f,
         Moves(Agrees(k), FoundBefore(p, k, r), d, f),
         FoundBefore(q, k, r) = FoundBefore(p, k, r) \o f
  PROVE  Agreement(q, k, r, d)
<1>1. <<d, FoundBefore(q, k, r)>> \in Agrees(k)
  BY Zenon DEF Moves
<1>. QED BY <1>1, Zenon DEF Agreement

\* What the agreement says before a parser.
LEMMA AgreementBefore ==
  ASSUME NEW k, NEW r, NEW p, p \notin {"update", "done"}, NEW c,
         Agreement(p, k, r, c)
  PROVE  <<c, FoundBefore(p, k, r)>> \in Agrees(k)
           /\ c \in Context(k) /\ FoundBefore(p, k, r) \in Seq(Match)
<1>1. <<c, FoundBefore(p, k, r)>> \in Agrees(k)
  BY Zenon DEF Agreement
<1>. QED BY <1>1, AgreesIs, Zenon

LEMMA HeadersAgree ==
  ASSUME NEW k \in LocConf, ~k.learning, ~k.listed, NEW r \in Request, NEW c,
         Agreement("headers", k, r, c)
  PROVE  Agreement("uri", k, r, headers_parse(k, c, r))
<1>. DEFINE H == FoundBefore("headers", k, r)
            f == FoundInHeaders(k, r)
            d == headers_parse(k, c, r)
<1>1. <<c, H>> \in Agrees(k) /\ c \in Context(k) /\ H \in Seq(Match)
  BY AgreementBefore
<1>2. Moves(Agrees(k), H, d, f)
  BY <1>1, AgreesKept, HeadersParsed, Zenon
<1>3. H = << >> /\ FoundBefore("uri", k, r) = f
  BY DEF FoundBefore
<1>. HIDE DEF f
<1>4. f \in Seq(Match)
  BY <1>2, Zenon DEF Moves
<1>5. H \o f = f
  BY <1>3, <1>4, ConcatEmptySeq
<1>. HIDE DEF H, d
<1>6. FoundBefore("uri", k, r) = FoundBefore("headers", k, r) \o f
  BY <1>3, <1>5 DEF H
<1>. QED BY <1>2, <1>6, MovesAgree DEF H, d

LEMMA UriAgrees ==
  ASSUME NEW k \in LocConf, ~k.learning, ~k.listed, NEW r \in Request, NEW c,
         Agreement("uri", k, r, c)
  PROVE  Agreement("args", k, r, IF Going(c) THEN uri_parse(k, c, r) ELSE c)
<1>. DEFINE H == FoundBefore("uri", k, r)
            d == IF Going(c) THEN uri_parse(k, c, r) ELSE c
<1>1. <<c, H>> \in Agrees(k) /\ c \in Context(k) /\ H \in Seq(Match)
  BY AgreementBefore
<1>2. Moves(Agrees(k), H, d, FoundInUri(k, r))
  BY <1>1, AgreesKept, UriParsed, Zenon
<1>3. FoundBefore("args", k, r) = FoundBefore("uri", k, r) \o FoundInUri(k, r)
  BY DEF FoundBefore
<1>. HIDE DEF H, d
<1>. QED BY <1>2, <1>3, MovesAgree DEF H, d

LEMMA ArgsAgree ==
  ASSUME NEW k \in LocConf, ~k.learning, ~k.listed, NEW r \in Request, NEW c,
         Agreement("args", k, r, c)
  PROVE  Agreement("body", k, r,
           IF Going(c) /\ r.args.present /\ k.get_rules # {}
           THEN spliturl_ruleset(k, c, r.args, k.get_rules) ELSE c)
<1>. DEFINE H == FoundBefore("args", k, r)
            d == IF Going(c) /\ r.args.present /\ k.get_rules # {}
                 THEN spliturl_ruleset(k, c, r.args, k.get_rules) ELSE c
<1>1. <<c, H>> \in Agrees(k) /\ c \in Context(k) /\ H \in Seq(Match)
  BY AgreementBefore
<1>2. Moves(Agrees(k), H, d, FoundInArgs(k, r))
  BY <1>1, AgreesKept, ArgsParsed, Zenon
<1>3. FoundBefore("body", k, r) = FoundBefore("args", k, r) \o FoundInArgs(k, r)
  BY DEF FoundBefore
<1>. HIDE DEF H, d
<1>. QED BY <1>2, <1>3, MovesAgree DEF H, d

LEMMA BodyAgrees ==
  ASSUME NEW k \in LocConf, ~k.learning, ~k.listed, NEW r \in Request, NEW c,
         Agreement("body", k, r, c)
  PROVE  Agreement("update", k, r,
           IF HasBody(k, r) /\ Going(c) THEN body_parse(k, c, r.body) ELSE c)
<1>. DEFINE H == FoundBefore("body", k, r)
            d == IF HasBody(k, r) /\ Going(c) THEN body_parse(k, c, r.body) ELSE c
<1>1. <<c, H>> \in Agrees(k) /\ c \in Context(k) /\ H \in Seq(Match)
  BY AgreementBefore
<1>2. CASE Unparsable(k, r)
  <2>1. HasBody(k, r) /\ "drop" \in body_parse(k, c, r.body).flags
    BY <1>1, <1>2, BodyFails
  <2>2. ~Going(c) => Denied(c)
    BY <1>1 DEF Going, Denied, Context
  <2>3. Denied(d)
    BY <2>1, <2>2 DEF Denied
  <2>. QED BY <1>2, <2>3 DEF Agreement
<1>3. CASE ~Unparsable(k, r)
  <2>1. Moves(Agrees(k), H, d, FoundInBody(k, r))
    BY <1>1, <1>3, AgreesKept, BodyParsed, Zenon
  <2>2. FoundBefore("update", k, r) = FoundBefore("body", k, r) \o FoundInBody(k, r)
    BY DEF FoundBefore
  <2>. HIDE DEF H, d
  <2>. QED BY <1>3, <2>1, <2>2, MovesAgree DEF H, d
<1>. QED BY <1>2, <1>3

LEMMA LastAgrees ==
  ASSUME NEW k \in LocConf, ~k.learning, ~k.listed, NEW r \in Request,
         NEW c \in Context(k), Agreement("update", k, r, c)
  PROVE  Agreement("done", k, r, update_current_ctx_status(c, k.listed))
<1>1. CASE Unparsable(k, r)
  <2>1. Denied(c)
    BY <1>1 DEF Agreement
  <2>2. Denied(update_current_ctx_status(c, k.listed))
    BY <2>1, UpdateType DEF Denied, Spared, Context
  <2>. QED BY <1>1, <2>2 DEF Agreement
<1>2. CASE ~Unparsable(k, r)
  <2>1. <<c, FoundBefore("update", k, r)>> \in Agrees(k)
    BY <1>2, Zenon DEF Agreement
  <2>2. FoundBefore("update", k, r) \in Seq(Match)
    BY <2>1, AgreesIs, Zenon
  <2>3. <<update_current_ctx_status(c, k.listed), FoundBefore("update", k, r)>>
          \in Agrees(k)
    BY <2>1, <2>2, UpdateAgrees
  <2>4. FoundBefore("done", k, r) = FoundBefore("update", k, r)
    BY DEF FoundBefore
  <2>. QED BY <1>2, <2>3, <2>4 DEF Agreement
<1>. QED BY <1>1, <1>2

LEMMA InitInspects == Init => InspectInv
<1>. SUFFICES ASSUME Init PROVE InspectInv
  OBVIOUS
<1>1. /\ pc = "headers" /\ req \in Requests /\ cf \in LocConfs /\ cf \in LocConf
      /\ ctx = NewContext(cf.learning) /\ failed = "none"
  BY RequestsAre DEF Init
<1>2. ctx \in Context(cf)
  BY <1>1, NewContextType
<1>3. Agreement(pc, cf, req, ctx)
  <2>1. ctx = Run(cf, << >>) /\ << >> \in Seq(Match)
    BY <1>1, RunEmpty
  <2>2. <<ctx, << >> >> \in Agrees(cf)
    BY <1>2, <2>1, AgreesIs, Zenon
  <2>3. FoundBefore("headers", cf, req) = << >>
    BY DEF FoundBefore
  <2>. QED BY <1>1, <2>2, <2>3 DEF Agreement
<1>. QED BY <1>1, <1>2, <1>3 DEF InspectInv

LEMMA StepInspects == InspectInv /\ [Next]_vars => InspectInv'
<1>. SUFFICES ASSUME InspectInv, [Next]_vars PROVE InspectInv'
  OBVIOUS
<1>1. /\ req \in Request /\ cf \in LocConf /\ ctx \in Context(cf)
      /\ req \in Requests /\ cf \in LocConfs
      /\ failed \in {"none", "uri", "args", "body", "json"}
  BY RequestsAre DEF InspectInv
<1>2. error_fatal(ctx) \in Context(cf) /\ "drop" \in error_fatal(ctx).flags
  BY <1>1, ParsersTyped
<1>3. ASSUME failed \in {"uri", "args", "body"}, ~cf.listed
      PROVE  "drop" \in ctx.flags /\ ~Going(ctx)
  BY <1>3 DEF InspectInv, Going
\* A parser that runs to its end.
<1>4. ASSUME NEW p \in {"uri", "args", "body", "update"}, NEW d \in Context(cf),
             pc' = p, ctx' = d, UNCHANGED <<req, cf, failed>>,
             failed \in {"uri", "args", "body"} /\ ~cf.listed => "drop" \in d.flags,
             ~cf.learning /\ ~cf.listed /\ failed = "none" => Agreement(p, cf, req, d)
      PROVE  InspectInv'
  BY <1>1, <1>4 DEF InspectInv
\* A parser whose copy fails.
<1>5. ASSUME NEW p \in {"uri", "args", "body"}, NEW q \in {"args", "body", "update"},
             pc' = q, CopyFails(p)
      PROVE  InspectInv'
  <2>1. /\ ctx' = error_fatal(ctx) /\ failed' = p /\ req' = req /\ cf' = cf
    BY <1>5 DEF CopyFails
  <2>2. /\ req' \in Requests /\ cf' \in LocConfs /\ ctx' \in Context(cf')
        /\ "drop" \in ctx'.flags
    BY <1>1, <1>2, <2>1
  <2>3. pc' \in {"args", "body", "update"} /\ failed' \in {"uri", "args", "body"}
    BY <1>5, <2>1
  <2>. QED BY <2>2, <2>3 DEF InspectInv
<1>6. CASE Headers
  <2>. DEFINE d == headers_parse(cf, ctx, req)
  <2>1. failed = "none"
    BY <1>6 DEF Headers, InspectInv
  <2>2. ctx' = d /\ pc' = "uri" /\ UNCHANGED <<req, cf, failed>>
    BY <1>6 DEF Headers
  <2>3. d \in Context(cf)
    BY <1>1, ParsersTyped
  <2>4. ASSUME ~cf.learning, ~cf.listed
        PROVE  Agreement("uri", cf, req, d)
    <3>1. Agreement("headers", cf, req, ctx)
      BY <1>6, <2>1, <2>4 DEF InspectInv, Headers
    <3>. QED BY <1>1, <2>4, <3>1, HeadersAgree
  <2>. HIDE DEF d
  <2>. QED BY <1>4, <2>1, <2>2, <2>3, <2>4
<1>7. CASE Uri
  <2>. DEFINE d == IF Going(ctx) THEN uri_parse(cf, ctx, req) ELSE ctx
  <2>1. CASE Going(ctx) /\ cf.generic_rules # {} /\ CopyFails("uri")
    BY <1>5, <1>7, <2>1 DEF Uri
  <2>2. CASE ctx' = d /\ UNCHANGED <<req, cf, failed>>
    <3>1. d \in Context(cf)
      BY <1>1, ParsersTyped
    <3>2. ASSUME ~cf.learning, ~cf.listed, failed = "none"
          PROVE  Agreement("args", cf, req, d)
      <4>1. Agreement("uri", cf, req, ctx)
        BY <1>7, <3>2 DEF InspectInv, Uri
      <4>. QED BY <1>1, <3>2, <4>1, UriAgrees
    <3>3. pc' = "args"
      BY <1>7 DEF Uri
    <3>4. failed \in {"uri", "args", "body"} /\ ~cf.listed => "drop" \in d.flags
      BY <1>3
    <3>. HIDE DEF d
    <3>. QED BY <1>4, <2>2, <3>1, <3>2, <3>3, <3>4
  <2>. QED BY <1>7, <2>1, <2>2 DEF Uri
<1>8. CASE Args
  <2>. DEFINE d == IF Going(ctx) /\ req.args.present /\ cf.get_rules # {}
                   THEN spliturl_ruleset(cf, ctx, req.args, cf.get_rules) ELSE ctx
  <2>1. CASE ArgsDue /\ CopyFails("args")
    BY <1>5, <1>8, <2>1 DEF Args
  <2>2. CASE ctx' = d /\ UNCHANGED <<req, cf, failed>>
    <3>1. d \in Context(cf)
      BY <1>1, ParsersTyped
    <3>2. ASSUME ~cf.learning, ~cf.listed, failed = "none"
          PROVE  Agreement("body", cf, req, d)
      <4>1. Agreement("args", cf, req, ctx)
        BY <1>8, <3>2 DEF InspectInv, Args
      <4>. QED BY <1>1, <3>2, <4>1, ArgsAgree
    <3>3. pc' = "body"
      BY <1>8 DEF Args
    <3>4. failed \in {"uri", "args", "body"} /\ ~cf.listed => "drop" \in d.flags
      BY <1>3
    <3>. HIDE DEF d
    <3>. QED BY <1>4, <2>2, <3>1, <3>2, <3>3, <3>4
  <2>. QED BY <1>8, <2>1, <2>2 DEF Args, ArgsDue
<1>9. CASE BodyStep
  <2>. DEFINE d == IF HasBody(cf, req) /\ Going(ctx) THEN body_parse(cf, ctx, req.body)
                   ELSE ctx
  <2>1. pc = "body" /\ pc' = "update"
    BY <1>9 DEF BodyStep
  <2>2. CASE BodyDue /\ Copied(cf, req.body) /\ CopyFails("body")
    BY <1>5, <2>1, <2>2
  <2>3. CASE BodyDue /\ JsonFails
    <3>1. /\ failed' = "json" /\ ctx' = ctx /\ req' = req /\ cf' = cf
      BY <2>3 DEF JsonFails
    <3>. QED BY <1>1, <2>1, <3>1 DEF InspectInv
  <2>4. CASE ctx' = d /\ UNCHANGED <<req, cf, failed>>
    <3>1. d \in Context(cf)
      BY <1>1, ParsersTyped
    <3>2. ASSUME ~cf.learning, ~cf.listed, failed = "none"
          PROVE  Agreement("update", cf, req, d)
      <4>1. Agreement("body", cf, req, ctx)
        BY <2>1, <3>2 DEF InspectInv
      <4>. QED BY <1>1, <3>2, <4>1, BodyAgrees
    <3>3. failed \in {"uri", "args", "body"} /\ ~cf.listed => "drop" \in d.flags
      BY <1>3
    <3>. HIDE DEF d
    <3>. QED BY <1>4, <2>1, <2>4, <3>1, <3>2, <3>3
  <2>. QED BY <1>9, <2>2, <2>3, <2>4 DEF BodyStep, BodyDue
<1>10. CASE Update
  <2>. DEFINE d == update_current_ctx_status(ctx, cf.listed)
  <2>1. /\ pc = "update" /\ pc' = "done" /\ ctx' = d
        /\ req' = req /\ cf' = cf /\ failed' = failed
    BY <1>10 DEF Update
  <2>2. /\ d \in Context(cf)
        /\ d.flags = Spared(ctx.flags \cup CheckFlags(ctx.special_scores), cf.listed)
    BY <1>1, UpdateType
  <2>3. failed \in {"uri", "args", "body"} /\ ~cf.listed => "drop" \in d.flags
    BY <1>3, <2>2 DEF Spared
  <2>4. cf.listed => ~Denied(d)
    BY <2>2 DEF Spared, Denied
  <2>5. ASSUME ~cf.learning, ~cf.listed, failed = "none"
        PROVE  Agreement("done", cf, req, d)
    <3>1. Agreement("update", cf, req, ctx)
      BY <2>1, <2>5 DEF InspectInv
    <3>. QED BY <1>1, <2>5, <3>1, LastAgrees
  <2>. HIDE DEF d
  <2>. QED BY <1>1, <2>1, <2>2, <2>3, <2>4, <2>5 DEF InspectInv
<1>11. CASE UNCHANGED vars
  BY <1>11 DEF InspectInv, vars
<1>. QED BY <1>6, <1>7, <1>8, <1>9, <1>10, <1>11 DEF Next

\* The invariant: outside learning mode, for a client that is on no ignore
\* list, the context agrees at every step with what was to be found so far.
THEOREM AgreesThroughout == Spec => []InspectInv
<1>. QED BY InitInspects, StepInspects, PTL DEF Spec

\* What the agreement is at the end of an inspection in which no copy failed.
LEMMA AgreesInTheEnd ==
  ASSUME InspectInv, pc = "done", ~cf.learning, ~cf.listed, failed = "none",
         ~Unparsable(cf, req)
  PROVE  /\ cf \in LocConf /\ Findings \in Seq(Match)
         /\ ctx = Full \/ (Denied(ctx) /\ Denied(Full))
<1>1. Agreement("done", cf, req, ctx)
  BY DEF InspectInv
<1>2. Findings = FoundBefore("done", cf, req)
  BY DEF FoundBefore, Findings
<1>3. <<ctx, Findings>> \in Agrees(cf)
  BY <1>1, <1>2, Zenon DEF Agreement
<1>4. Findings \in Seq(Match) /\ (ctx = Full \/ (Denied(ctx) /\ Denied(Full)))
  BY <1>3, AgreesIs, Zenon DEF Full
<1>. QED BY <1>4, RequestsAre DEF InspectInv

\* What there is to find is a sequence of matches.
LEMMA FindingsType ==
  ASSUME NEW k \in LocConf, NEW r \in Request
  PROVE  FoundBefore("done", k, r) \in Seq(Match)
<1>. DEFINE A == Pairs(k)
            c == NewContext(k.learning)
            d == headers_parse(k, c, r)
            f == FoundInHeaders(k, r)
            e == IF Going(c) THEN uri_parse(k, c, r) ELSE c
            g == FoundInUri(k, r)
            x == IF Going(c) /\ r.args.present /\ k.get_rules # {}
                 THEN spliturl_ruleset(k, c, r.args, k.get_rules) ELSE c
            h == FoundInArgs(k, r)
            y == FoundInBody(k, r)
<1>1. Keeps(k, A) /\ c \in Context(k) /\ <<c, << >> >> \in A /\ << >> \in Seq(Match)
  BY NewContextType, PairsKept, PairsAll
<1>. HIDE DEF A, c
<1>2. Moves(A, << >>, d, f) /\ Moves(A, << >>, e, g) /\ Moves(A, << >>, x, h)
  BY <1>1, HeadersParsed, UriParsed, ArgsParsed, Zenon
<1>3. y \in Seq(Match)
  BY FoundBodyType
<1>4. FoundBefore("done", k, r) = ((f \o g) \o h) \o y
  BY DEF FoundBefore
<1>. HIDE DEF d, e, f, g, h, x, y
<1>5. f \in Seq(Match) /\ g \in Seq(Match) /\ h \in Seq(Match)
  BY <1>2, Zenon DEF Moves
<1>6. f \o g \in Seq(Match)
  BY ONLY <1>5, ConcatProperties
<1>7. (f \o g) \o h \in Seq(Match)
  BY ONLY <1>5, <1>6, ConcatProperties
<1>. QED BY ONLY <1>3, <1>4, <1>7, ConcatProperties

\* Stopping early never changes the verdict outside learning mode: whatever
\* the rules, the whitelisted internal rules and the request, it is denied
\* exactly when all it holds denies it.
THEOREM EarlyExitIsSound == Spec => []EarlyExitSound
<1>1. InspectInv => EarlyExitSound
  <2>. SUFFICES ASSUME InspectInv, pc = "done", ~cf.learning, failed = "none"
                PROVE  Denied(ctx) <=> FullyDenied
    BY DEF EarlyExitSound
  <2>1. CASE cf.listed
    <3>1. ~Denied(ctx)
      BY <2>1 DEF InspectInv
    <3>2. ~Denied(Full)
      <4>1. Findings = FoundBefore("done", cf, req)
        BY DEF FoundBefore, Findings
      <4>2. cf \in LocConf /\ req \in Request
        BY RequestsAre DEF InspectInv
      <4>3. Findings \in Seq(Match)
        BY <4>1, <4>2, FindingsType
      <4>. QED BY <2>1, <4>2, <4>3, RunType DEF Full
    <3>. QED BY <2>1, <3>1, <3>2 DEF FullyDenied
  <2>2. CASE ~cf.listed /\ Unparsable(cf, req)
    BY <2>2 DEF InspectInv, Agreement, FullyDenied
  <2>3. CASE ~cf.listed /\ ~Unparsable(cf, req)
    BY <2>3, AgreesInTheEnd DEF FullyDenied
  <2>. QED BY <2>1, <2>2, <2>3
<1>. QED BY <1>1, AgreesThroughout, PTL

\* A request passes only when all there was to find in it has been found and
\* recorded, each match once.
THEOREM PassHasSeenEverything == Spec => []PassSeesEverything
<1>1. InspectInv => PassSeesEverything
  <2>. SUFFICES ASSUME InspectInv, pc = "done", ~cf.learning, ~cf.listed,
                       ~Denied(ctx), failed # "json"
                PROVE  ctx.matched = Len(Findings)
    BY DEF PassSeesEverything
  <2>1. failed = "none"
    BY DEF InspectInv, Denied
  <2>2. ~Unparsable(cf, req)
    BY <2>1 DEF InspectInv, Agreement
  <2>3. ctx = Full /\ cf \in LocConf /\ Findings \in Seq(Match)
    BY <2>1, <2>2, AgreesInTheEnd
  <2>. QED BY <2>3, RunType DEF Full
<1>. QED BY <1>1, AgreesThroughout, PTL

\* When a copy fails the request does not pass uninspected, learning or not.
THEOREM FailsClosed == Spec => []FailClosed
<1>1. InspectInv => FailClosed
  BY DEF InspectInv, FailClosed
<1>. QED BY <1>1, AgreesThroughout, PTL
=============================================================================
