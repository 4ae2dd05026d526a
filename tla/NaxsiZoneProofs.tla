--------------------------- MODULE NaxsiZoneProofs ---------------------------
(***************************************************************************)
(* Proofs about what a match zone does: in a whitelist (NaxsiWhitelist),   *)
(* for any number of whitelists, and in a rule (NaxsiRules), for any       *)
(* number of rules and texts of any length; match zones are of any length  *)
(* in both.  Both rest on naxsi_zone and share the constants and the       *)
(* lemmas of its keywords; the variables of one do not occur in the other. *)
(*                                                                         *)
(* A match zone that is accepted is Coherent: its flags and its locations  *)
(* say the same.  It HoldsOf its keywords: it has the flag of each and a   *)
(* location for each that is Located, and no other.                        *)
(*                                                                         *)
(* Whitelists.  At turn n of create_hashtables the tables are Built from   *)
(* the n - 1 whitelists before: each entry StandsFor the whitelists of its *)
(* key, and each of these has its entry.  What the tables exempt some      *)
(* whitelist Exempts alone when those of one key look alike: Clear ones do *)
(* (ClearAlike), and so do those that do not compete (ApartAlike), which   *)
(* moreover lose nothing in the tables (TheTablesTo).                      *)
(*                                                                         *)
(* Rules.  A search finds the first place of a string (StrFound) or of an  *)
(* expression (RxFirst); the counts are therefore the number of places     *)
(* (CountsPlaces) or of disjoint ones (CountsCaptures).  Each list holds   *)
(* its lines once and in order (ListHolds), so that the matches of a line  *)
(* are those of at most one run of it (OneRun), which finds what a clear   *)
(* rule asks for (ClearRun).                                               *)
(***************************************************************************)
EXTENDS NaxsiWhitelist, NaxsiRules, TLAPS, FiniteSetTheorems, SequenceTheorems,
        WellFoundedInduction

(***************************************************************************)
(* Loops                                                                   *)
(***************************************************************************)

\* What holds of 0, and of every i up to n if it holds of i - 1, holds of all.
LEMMA UpTo ==
  ASSUME NEW n \in Nat, NEW S, 0 \in S,
         \A i \in 1 .. n : i - 1 \in S => i \in S
  PROVE  \A i \in 0 .. n : i \in S
<1>. DEFINE T == {i \in 0 .. n : i \notin S}
            F == {0 .. i : i \in T}
<1>1. SUFFICES ASSUME T # {} PROVE FALSE
  OBVIOUS
<1>2. \A i \in T : i \in Nat /\ 0 .. i \in SUBSET (0 .. n)
  OBVIOUS
<1>3. F \subseteq SUBSET (0 .. n) /\ F # {}
  BY <1>1, <1>2, Zenon
<1>4. F \subseteq FiniteSubsetsOf(0 .. n)
  BY <1>3, FS_Interval, FS_Subset DEF FiniteSubsetsOf
<1>5. \E x \in F : \A y \in F : ~ (<<y, x>> \in StrictSubsetOrdering(0 .. n))
  BY <1>3, <1>4, FS_StrictSubsetOrderingWellFounded, WFMin
<1>6. PICK m \in T :
        \A i \in T : ~ (<<0 .. i, 0 .. m>> \in StrictSubsetOrdering(0 .. n))
  BY <1>5, Zenon
<1>7. m \in 1 .. n /\ m - 1 \in 0 .. n
  BY <1>6
<1>8. m - 1 \in T
  BY <1>6, <1>7
<1>9. 0 .. (m - 1) \subseteq 0 .. m /\ m \in 0 .. m /\ m \notin 0 .. (m - 1)
  BY <1>7
<1>10. <<0 .. (m - 1), 0 .. m>> \in StrictSubsetOrdering(0 .. n)
  BY <1>2, <1>6, <1>8, <1>9, Zenon DEF StrictSubsetOrdering
<1>. QED BY <1>6, <1>8, <1>10

\* F is the course of a loop of n turns from c: turn i takes F[i - 1] to F[i].
Course(F, G, c, n) ==
  F[0] = c /\ \A i \in 1 .. n : F[i] = G[<<F[i - 1], i>>]

\* A loop of n turns, each of which takes C to C, has a course.
LEMMA LoopExists ==
  ASSUME NEW C, NEW c \in C, NEW n \in Nat, NEW G \in [C \X (1 .. n) -> C]
  PROVE  \E F \in [0 .. n -> C] : Course(F, G, c, n)
<1>. DEFINE S == {m \in 0 .. n : \E F \in [0 .. m -> C] : Course(F, G, c, m)}
<1>1. 0 \in S
  <2>. DEFINE E == [i \in 0 .. 0 |-> c]
  <2>1. E \in [0 .. 0 -> C] /\ E[0] = c /\ \A i \in 1 .. 0 : FALSE
    OBVIOUS
  <2>2. Course(E, G, c, 0)
    BY <2>1 DEF Course
  <2>. QED BY <2>1, <2>2
<1>2. ASSUME NEW m \in 1 .. n, m - 1 \in S
      PROVE  m \in S
  <2>1. PICK F \in [0 .. (m - 1) -> C] :
          F[0] = c /\ \A i \in 1 .. (m - 1) : F[i] = G[<<F[i - 1], i>>]
    BY <1>2 DEF Course
  <2>. DEFINE E == [i \in 0 .. m |->
                      IF i = m THEN G[<<F[m - 1], m>>] ELSE F[i]]
  <2>2. G[<<F[m - 1], m>>] \in C
    OBVIOUS
  <2>3. E \in [0 .. m -> C]
    BY <2>2
  <2>4. E[0] = c
    BY <2>1
  <2>5. ASSUME NEW i \in 1 .. m
        PROVE  E[i] = G[<<E[i - 1], i>>]
    <3>1. i - 1 \in 0 .. m /\ i - 1 # m
      OBVIOUS
    <3>2. E[i - 1] = F[i - 1]
      BY <3>1
    <3>3. CASE i = m
      <4>1. E[m] = G[<<F[m - 1], m>>]
        OBVIOUS
      <4>. HIDE DEF E
      <4>. QED BY <3>2, <3>3, <4>1
    <3>4. CASE i # m
      <4>1. i \in 1 .. (m - 1)
        BY <3>4
      <4>. QED BY <2>1, <3>2, <3>4, <4>1
    <3>. QED BY <3>3, <3>4
  <2>. HIDE DEF E
  <2>6. Course(E, G, c, m)
    BY <2>4, <2>5 DEF Course
  <2>. QED BY <2>3, <2>6
<1>3. n \in S
  <2>. HIDE DEF S
  <2>. QED BY <1>1, <1>2, UpTo
<1>. QED BY <1>3

\* What holds of each i from which on it holds, down from the last, holds of all.
LEMMA DownFrom ==
  ASSUME NEW lo \in Nat, NEW hi \in Nat, NEW S,
         \A i \in lo .. hi : (\A j \in (i + 1) .. hi : j \in S) => i \in S
  PROVE  \A i \in lo .. hi : i \in S
<1>1. CASE hi < lo
  BY <1>1
<1>2. CASE lo <= hi
  <2>. DEFINE n == hi - lo + 1
              T == {k \in 0 .. n : \A j \in (hi + 1 - k) .. hi : j \in S}
  <2>1. n \in Nat
    BY <1>2
  <2>2. 0 \in T
    BY <2>1
  <2>3. ASSUME NEW k \in 1 .. n, k - 1 \in T
        PROVE  k \in T
    <3>. DEFINE i == hi + 1 - k
    <3>1. i \in lo .. hi
      BY <1>2
    <3>2. \A j \in (i + 1) .. hi : j \in S
      BY <2>3
    <3>3. i \in S
      BY <3>1, <3>2
    <3>. QED BY <3>2, <3>3
  <2>4. \A k \in 0 .. n : k \in T
    <3>. HIDE DEF T, n
    <3>. QED BY <2>1, <2>2, <2>3, UpTo
  <2>5. n \in T
    BY <2>1, <2>4
  <2>. QED BY <2>5
<1>. QED BY <1>1, <1>2

\* G[<<i, f>>] depends on the values of f behind i only.
Backward(lo, hi, C, G) ==
  /\ lo \in Nat /\ hi \in Nat /\ C # {}
  /\ G \in [(lo .. hi) \X [lo .. hi -> C] -> C]
  /\ \A i \in lo .. hi : \A f, g \in [lo .. hi -> C] :
       (\A j \in (i + 1) .. hi : f[j] = g[j]) => G[<<i, f>>] = G[<<i, g>>]

\* A recursion in which each value depends on later ones only has a solution.
LEMMA BackwardExists ==
  ASSUME NEW lo, NEW hi, NEW C, NEW G, Backward(lo, hi, C, G)
  PROVE  \E f \in [lo .. hi -> C] : \A i \in lo .. hi : f[i] = G[<<i, f>>]
<1>. DEFINE D == lo .. hi
            FS == [D -> C]
            Solved(f, k) == \A i \in D : i >= k => f[i] = G[<<i, f>>]
            S == {k \in D : \E f \in FS : Solved(f, k)}
<1>0. /\ lo \in Nat /\ hi \in Nat
      /\ G \in [(lo .. hi) \X [lo .. hi -> C] -> C]
      /\ \A i \in lo .. hi : \A f, g \in [lo .. hi -> C] :
           (\A j \in (i + 1) .. hi : f[j] = g[j]) => G[<<i, f>>] = G[<<i, g>>]
  BY DEF Backward
<1>. PICK c \in C : TRUE
  BY DEF Backward
<1>1. /\ \A i \in D : i \in Nat /\ lo <= i /\ i <= hi
      /\ \A i \in D : \A j \in (i + 1) .. hi : j \in D /\ j > i
      /\ \A i, j \in D : j > i => j \in (i + 1) .. hi
      /\ \A i, j \in D : ~(j > i) /\ j >= i => j = i
      /\ \A i, j \in D : j > i => j >= i /\ j >= i + 1 /\ j # i
      /\ \A i \in D : i # hi => i + 1 \in D
      /\ \A i \in D : i >= lo
  BY <1>0
<1>2. /\ \A i \in D, f \in FS : G[<<i, f>>] \in C
      /\ \A i \in D, f, g \in FS :
           (\A j \in D : j > i => f[j] = g[j]) => G[<<i, f>>] = G[<<i, g>>]
      /\ \A f \in FS, m \in D, x \in C :
           \E g \in FS : g[m] = x /\ \A i \in D : i # m => g[i] = f[i]
      /\ [i \in D |-> c] \in FS
  <2>1. ASSUME NEW i \in D, NEW f \in FS, NEW g \in FS, \A j \in D : j > i => f[j] = g[j]
        PROVE  G[<<i, f>>] = G[<<i, g>>]
    <3>1. \A j \in (i + 1) .. hi : f[j] = g[j]
      BY <1>1, <2>1
    <3>. QED BY <1>0, <3>1
  <2>2. ASSUME NEW f \in FS, NEW m \in D, NEW x \in C
        PROVE  \E g \in FS : g[m] = x /\ \A i \in D : i # m => g[i] = f[i]
    <3>. DEFINE g == [f EXCEPT ![m] = x]
    <3>1. g \in FS /\ g[m] = x /\ \A i \in D : i # m => g[i] = f[i]
      OBVIOUS
    <3>. QED BY <3>1
  <2>. QED BY <1>0, <2>1, <2>2
<1>. HIDE DEF D, FS
<1>3. ASSUME NEW m \in D, \A j \in (m + 1) .. hi : j \in S
      PROVE  m \in S
  <2>1. PICK f \in FS : \A i \in D : i > m => f[i] = G[<<i, f>>]
    <3>1. CASE m = hi
      <4>1. \A i \in D : ~(i > m)
        BY <1>1, <3>1
      <4>. QED BY <1>2, <4>1, Zenon
    <3>2. CASE m # hi
      <4>1. m + 1 \in S
        <5>1. m + 1 \in (m + 1) .. hi
          BY <1>1, <3>2 DEF D
        <5>. QED BY <1>3, <5>1
      <4>2. PICK f \in FS : Solved(f, m + 1)
        BY <4>1
      <4>3. \A i \in D : i > m => i >= m + 1
        BY <1>1
      <4>. QED BY <4>2, <4>3, Zenon
    <3>. QED BY <3>1, <3>2
  <2>. DEFINE x == G[<<m, f>>]
  <2>2. x \in C
    BY <1>2
  <2>. HIDE DEF x
  <2>3. PICK g \in FS : g[m] = x /\ \A i \in D : i # m => g[i] = f[i]
    BY <1>2, <2>2
  <2>4. ASSUME NEW i \in D, i >= m
        PROVE  g[i] = G[<<i, g>>]
    <3>0. \A j \in D : j > i => j # m
      BY <1>1, <2>4
    <3>1. \A j \in D : j > i => g[j] = f[j]
      BY <2>3, <3>0, Zenon
    <3>2. G[<<i, g>>] = G[<<i, f>>]
      BY <1>2, <2>3, <3>1, ZenonT(60)
    <3>3. i = m \/ (i > m /\ i # m)
      BY <1>1, <2>4
    <3>4. CASE i = m
      BY <2>3, <3>2, <3>4, Zenon DEF x
    <3>5. CASE i > m /\ i # m
      BY <2>1, <2>3, <3>2, <3>5, Zenon
    <3>. QED BY <3>3, <3>4, <3>5
  <2>. QED BY <2>3, <2>4
<1>4. \A m \in D : m \in S
  <2>. HIDE DEF S
  <2>1. \A m \in lo .. hi : (\A j \in (m + 1) .. hi : j \in S) => m \in S
    BY <1>3 DEF D
  <2>. QED BY <1>0, <2>1, DownFrom DEF D
<1>5. CASE lo \in D
  <2>1. PICK f \in FS : Solved(f, lo)
    BY <1>4, <1>5
  <2>. QED BY <1>1, <2>1, Zenon DEF D, FS
<1>6. CASE lo \notin D
  <2>1. \A i \in D : FALSE
    BY <1>0, <1>6 DEF D
  <2>. QED BY <1>2, <2>1, Zenon DEF D, FS
<1>. QED BY <1>5, <1>6

-----------------------------------------------------------------------------
(***************************************************************************)
(* Match zones                                                             *)
(***************************************************************************)
BasicFlags ==
  {"any", "raw_body", "body", "body_rule", "headers", "url", "args", "file_ext",
   "target_name", "args_var", "body_var", "headers_var"}

Location == [var : Located, target : Strings, target_rx : BOOLEAN]

\* A rule while its match zone is read.
BasicRules ==
  [ids : Seq(Int), flags : SUBSET BasicFlags, rx_mz : BOOLEAN,
   locations : Seq(Location), refused : BOOLEAN]

\* The flag of a named variable.
VarFlag(var) ==
  CASE var = "$ARGS_VAR"    -> "args_var"
    [] var = "$BODY_VAR"    -> "body_var"
    [] var = "$HEADERS_VAR" -> "headers_var"

\* What flags and locations have to do with one another.
Coherent(r) ==
  /\ "any" \in r.flags => r.flags = FlagsOf("ANY") /\ NamedIdx(r) = {}
  /\ "file_ext" \in r.flags => "body" \in r.flags
  /\ \A i \in NamedIdx(r) : VarFlag(r.locations[i].var) \in r.flags
  /\ \A var \in Located \ {"$URL"} :
       VarFlag(var) \in r.flags => \E i \in NamedIdx(r) : r.locations[i].var = var

LEMMA KeywordType ==
  ASSUME NEW r \in BasicRules, NEW k \in Keyword
  PROVE  keyword(r, k) \in BasicRules
<1>1. FlagsOf(k.mz) \subseteq BasicFlags
  BY DEF FlagsOf, BasicFlags, Keyword, Located
<1>2. [var |-> k.mz, target |-> k.target, target_rx |-> r.rx_mz \/ k.rx] \in Location
        \/ k.mz \notin Located
  BY DEF Keyword, Location, BasicRules
<1>3. (r.rx_mz \/ k.rx) \in BOOLEAN
  OBVIOUS
<1>4. k.mz \in Located =>
        Append(r.locations, [var |-> k.mz, target |-> k.target,
                             target_rx |-> r.rx_mz \/ k.rx]) \in Seq(Location)
  BY <1>2 DEF BasicRules
<1>5. r.flags \cup FlagsOf(k.mz) \in SUBSET BasicFlags
  BY <1>1 DEF BasicRules
<1>. QED BY <1>3, <1>4, <1>5 DEF keyword, BasicRules

\* A keyword that is not refused keeps a rule coherent.
LEMMA KeywordCoherent ==
  ASSUME NEW r \in BasicRules, Coherent(r), NEW k \in Keyword,
         ~keyword(r, k).refused
  PROVE  ~r.refused /\ Coherent(keyword(r, k))
<1>. DEFINE q == keyword(r, k)
            loc == [var |-> k.mz, target |-> k.target, target_rx |-> r.rx_mz \/ k.rx]
<1>1. /\ ~(k.mz = "ANY" /\ r.flags # {})
      /\ ~("any" \in r.flags /\ (k.mz # "$URL" \/ k.rx))
      /\ q = [r EXCEPT
                !.flags = @ \cup FlagsOf(k.mz),
                !.rx_mz = @ \/ k.rx,
                !.locations = IF k.mz \in Located THEN Append(@, loc) ELSE @]
  BY DEF keyword, BasicRules
<1>2. /\ q.flags = r.flags \cup FlagsOf(k.mz) /\ q.refused = r.refused
      /\ q.locations = IF k.mz \in Located THEN Append(r.locations, loc) ELSE r.locations
  BY <1>1 DEF BasicRules
<1>. DEFINE n == Len(r.locations)
<1>3. n \in Nat /\ DOMAIN r.locations = 1 .. n
  BY DEF BasicRules
<1>. HIDE DEF q
<1>4. ASSUME k.mz \in Located
      PROVE  /\ DOMAIN q.locations = 1 .. (n + 1)
             /\ \A i \in 1 .. n : q.locations[i] = r.locations[i]
             /\ q.locations[n + 1].var = k.mz
  <2>1. q.locations = Append(r.locations, loc)
    BY <1>2, <1>4
  <2>2. r.locations \in Seq(Location)
    BY DEF BasicRules
  <2>. HIDE DEF loc
  <2>3. /\ DOMAIN q.locations = 1 .. (n + 1)
        /\ \A i \in 1 .. n : q.locations[i] = r.locations[i]
        /\ q.locations[n + 1] = loc
    BY <2>1, <2>2
  <2>. QED BY <2>3 DEF loc
<1>5. NamedIdx(q) = NamedIdx(r) \cup (IF k.mz \in Located \ {"$URL"} THEN {n + 1} ELSE {})
  <2>1. CASE k.mz \in Located
    BY <1>3, <1>4, <2>1, SMTT(30) DEF NamedIdx
  <2>2. CASE k.mz \notin Located
    BY <1>2, <2>2 DEF NamedIdx
  <2>. QED BY <2>1, <2>2
<1>6. \A i \in NamedIdx(r) : q.locations[i].var = r.locations[i].var
  BY <1>2, <1>3, <1>4 DEF NamedIdx
<1>7. k.mz \in Located \ {"$URL"} => FlagsOf(k.mz) = {VarFlag(k.mz)}
  BY DEF FlagsOf, VarFlag, Located
<1>8. \A var \in Located \ {"$URL"} :
        /\ VarFlag(var) \in FlagsOf(k.mz) => k.mz = var
        /\ VarFlag(var) \notin FlagsOf("ANY")
  BY DEF FlagsOf, VarFlag, Located, Keyword
<1>9. "any" \in q.flags => q.flags = FlagsOf("ANY") /\ NamedIdx(q) = {}
  <2>1. CASE k.mz = "ANY"
    <3>1. r.flags = {}
      BY <1>1, <2>1
    <3>2. NamedIdx(r) = {}
      BY <3>1 DEF Coherent
    <3>. QED BY <1>2, <1>5, <2>1, <3>1, <3>2 DEF Located
  <2>2. CASE k.mz # "ANY" /\ "any" \in r.flags
    <3>1. k.mz = "$URL"
      BY <1>1, <2>2
    <3>2. FlagsOf(k.mz) = {}
      BY <3>1 DEF FlagsOf
    <3>. QED BY <1>2, <1>5, <2>2, <3>1, <3>2 DEF Coherent
  <2>3. CASE k.mz # "ANY" /\ "any" \notin r.flags
    <3>1. "any" \notin FlagsOf(k.mz)
      BY <2>3 DEF FlagsOf, Keyword, Located
    <3>. QED BY <1>2, <2>3, <3>1
  <2>. QED BY <2>1, <2>2, <2>3
<1>10. "file_ext" \in q.flags => "body" \in q.flags
  BY <1>2 DEF FlagsOf, Keyword, Located, Coherent
<1>11. \A i \in NamedIdx(q) : VarFlag(q.locations[i].var) \in q.flags
  BY <1>2, <1>4, <1>5, <1>6, <1>7 DEF Coherent
<1>12. ASSUME NEW var \in Located \ {"$URL"}, VarFlag(var) \in q.flags
       PROVE  \E i \in NamedIdx(q) : q.locations[i].var = var
  <2>1. CASE VarFlag(var) \in r.flags
    BY <1>5, <1>6, <2>1 DEF Coherent
  <2>2. CASE VarFlag(var) \in FlagsOf(k.mz)
    BY <1>4, <1>5, <1>8, <2>2
  <2>. QED BY <1>2, <1>12, <2>1, <2>2
<1>13. Coherent(q) /\ ~q.refused
  BY <1>9, <1>10, <1>11, <1>12 DEF Coherent, q
<1>. QED BY <1>2, <1>13 DEF q

\* A whitelist or rule whose match zone is accepted.
Accepted ==
  {r \in BasicRules :
     ~r.refused /\ Coherent(r) /\ (r.flags = {} => r.locations = << >>)}

\* The rule that naxsi_zone reads keyword by keyword.
LEMMA ZoneCourse ==
  ASSUME NEW ids \in Seq(Int), NEW mz \in Seq(Keyword)
  PROVE  \E f : /\ f[0] = EmptyRule(ids)
                /\ \A i \in 1 .. Len(mz) : f[i] = keyword(f[i - 1], mz[i])
                /\ naxsi_zone(ids, mz)
                     = [f[Len(mz)] EXCEPT
                          !.refused = @ \/ (mz # << >> /\ f[Len(mz)].flags = {})]
<1>. DEFINE n == Len(mz)
            C == BasicRules
            c == EmptyRule(ids)
            G == [p \in C \X (1 .. n) |-> keyword(p[1], mz[p[2]])]
<1>1. n \in Nat /\ \A i \in 1 .. n : mz[i] \in Keyword
  OBVIOUS
<1>2. c \in C
  BY DEF EmptyRule, BasicRules
<1>. HIDE DEF n
<1>3. G \in [C \X (1 .. n) -> C]
  BY <1>1, KeywordType
<1>4. \A r \in C, i \in 1 .. n : G[<<r, i>>] = keyword(r, mz[i])
  OBVIOUS
<1>. HIDE DEF G, C, c
<1>5. PICK F \in [0 .. n -> C] : Course(F, G, c, n)
  BY <1>1, <1>2, <1>3, LoopExists
<1>6. F = [i \in 0 .. n |-> IF i = 0 THEN c ELSE keyword(F[i - 1], mz[i])]
  <2>1. ASSUME NEW i \in 0 .. n, i # 0
        PROVE  F[i - 1] \in C /\ i \in 1 .. n
    BY <1>1, <2>1
  <2>. QED BY <1>4, <1>5, <2>1 DEF Course
<1>7. PICK f : /\ f = [i \in 0 .. n |-> IF i = 0 THEN c ELSE keyword(f[i - 1], mz[i])]
               /\ naxsi_zone(ids, mz)
                    = [f[n] EXCEPT !.refused = @ \/ (mz # << >> /\ f[n].flags = {})]
  BY <1>6, Zenon DEF naxsi_zone, n, c
<1>8. f[0] = c /\ \A i \in 1 .. n : f[i] = keyword(f[i - 1], mz[i])
  <2>1. f = [i \in 0 .. n |-> IF i = 0 THEN c ELSE keyword(f[i - 1], mz[i])]
    BY <1>7, Zenon
  <2>2. n \in Nat
    BY <1>1
  <2>3. f[0] = c
    BY ONLY <2>1, <2>2
  <2>4. ASSUME NEW i \in 1 .. n
        PROVE  f[i] = keyword(f[i - 1], mz[i])
    <3>1. i \in 0 .. n /\ i # 0
      BY ONLY <2>2, i \in 1 .. n
    <3>. QED BY <2>1, <3>1, Zenon
  <2>. QED BY <2>3, <2>4
<1>. QED BY <1>7, <1>8, Zenon DEF n, c

LEMMA ZoneAccepted ==
  ASSUME NEW ids \in Seq(Int), NEW mz \in Seq(Keyword), ~naxsi_zone(ids, mz).refused
  PROVE  naxsi_zone(ids, mz) \in Accepted
<1>. DEFINE n == Len(mz)
            C == BasicRules
            c == EmptyRule(ids)
<1>1. n \in Nat /\ \A i \in 1 .. n : mz[i] \in Keyword
  OBVIOUS
<1>2. c \in C
  BY DEF EmptyRule, BasicRules
<1>. HIDE DEF n, C, c
<1>3. PICK f : /\ f[0] = c /\ \A i \in 1 .. n : f[i] = keyword(f[i - 1], mz[i])
               /\ naxsi_zone(ids, mz)
                    = [f[n] EXCEPT !.refused = @ \/ (mz # << >> /\ f[n].flags = {})]
  BY ZoneCourse, Zenon DEF n, c
<1>4. f[0] = c /\ \A i \in 1 .. n : f[i] = keyword(f[i - 1], mz[i])
  BY <1>3
<1>. DEFINE S == {i \in 0 .. n : f[i] \in C /\ (~f[i].refused => Coherent(f[i]))}
<1>5. 0 \in S
  <2>1. Coherent(c)
    BY DEF Coherent, EmptyRule, NamedIdx, c
  <2>. QED BY <1>1, <1>2, <1>4, <2>1
<1>6. ASSUME NEW i \in 1 .. n, i - 1 \in S
       PROVE  i \in S
  <2>1. f[i - 1] \in C /\ (~f[i - 1].refused => Coherent(f[i - 1]))
    BY <1>6
  <2>2. f[i] = keyword(f[i - 1], mz[i]) /\ mz[i] \in Keyword
    BY <1>1, <1>4
  <2>. HIDE DEF S
  <2>3. f[i] \in C
    BY <2>1, <2>2, KeywordType DEF C
  <2>4. ~f[i].refused => Coherent(f[i])
    <3>1. ~f[i].refused => ~f[i - 1].refused
      BY <2>1, <2>2 DEF keyword, C, BasicRules
    <3>. QED BY <2>1, <2>2, <3>1, KeywordCoherent DEF C
  <2>. QED BY <1>1, <2>3, <2>4 DEF S
<1>. HIDE DEF S
<1>7. \A i \in 0 .. n : i \in S
  BY <1>1, <1>5, <1>6, UpTo
<1>8. f[n] \in C /\ (~f[n].refused => Coherent(f[n]))
  BY <1>1, <1>7 DEF S
<1>. DEFINE r == naxsi_zone(ids, mz)
            q == f[n]
<1>9. /\ r = [q EXCEPT !.refused = @ \/ (mz # << >> /\ q.flags = {})]
       /\ q \in C /\ (~q.refused => Coherent(q)) /\ ~r.refused
  BY <1>3, <1>8
<1>10. mz = << >> => q.locations = << >>
  BY <1>4 DEF n, c, EmptyRule
<1>. HIDE DEF r, q
<1>11. /\ ~q.refused /\ ~(mz # << >> /\ q.flags = {})
       /\ r.flags = q.flags /\ r.locations = q.locations /\ r \in C
  BY <1>9 DEF C, BasicRules
<1>12. Coherent(r)
  BY <1>9, <1>11 DEF Coherent, NamedIdx
<1>13. r \in Accepted
  BY <1>9, <1>10, <1>11, <1>12 DEF Accepted, C
<1>. QED BY <1>13 DEF r

\* A location says what a keyword says.
Says(loc, k) ==
  /\ k.mz \in Located /\ loc.var = k.mz /\ loc.target = k.target
  /\ k.rx => loc.target_rx

\* A rule holds what the first m keywords of a match zone say, and no more.
HoldsOf(r, mz, m) ==
  /\ \A f : f \in r.flags <=> \E k \in 1 .. m : f \in FlagsOf(mz[k].mz)
  /\ r.rx_mz \in BOOLEAN /\ (r.rx_mz <=> \E k \in 1 .. m : mz[k].rx)
  /\ r.locations \in Seq(Location)
  /\ \A i \in DOMAIN r.locations : \E k \in 1 .. m : Says(r.locations[i], mz[k])
  /\ \A k \in 1 .. m : mz[k].mz \in Located =>
       \E i \in DOMAIN r.locations : Says(r.locations[i], mz[k])

LEMMA KeywordHolds ==
  ASSUME NEW mz, NEW n \in Nat, NEW m \in 1 .. n, \A k \in 1 .. n : mz[k] \in Keyword,
         NEW r \in BasicRules, HoldsOf(r, mz, m - 1), ~keyword(r, mz[m]).refused
  PROVE  HoldsOf(keyword(r, mz[m]), mz, m)
<1>. DEFINE k == mz[m]
            q == keyword(r, k)
            loc == [var |-> k.mz, target |-> k.target, target_rx |-> r.rx_mz \/ k.rx]
            len == Len(r.locations)
<1>1. k \in Keyword
  OBVIOUS
<1>2. q = [r EXCEPT
                !.flags = @ \cup FlagsOf(k.mz),
                !.rx_mz = @ \/ k.rx,
                !.locations = IF k.mz \in Located THEN Append(@, loc) ELSE @]
  BY DEF keyword, BasicRules
<1>3. /\ q.flags = r.flags \cup FlagsOf(k.mz) /\ q.rx_mz = (r.rx_mz \/ k.rx)
      /\ q.locations = IF k.mz \in Located THEN Append(r.locations, loc) ELSE r.locations
  BY <1>2 DEF BasicRules
<1>4. 1 .. m = (1 .. (m - 1)) \cup {m} /\ m \notin 1 .. (m - 1)
  OBVIOUS
<1>5. /\ r.locations \in Seq(Location) /\ r.rx_mz \in BOOLEAN /\ k.rx \in BOOLEAN
      /\ k.target \in Strings
      /\ len \in Nat /\ DOMAIN r.locations = 1 .. len
  BY <1>1 DEF BasicRules, Keyword
<1>. HIDE DEF q
<1>6. \A f : f \in q.flags <=> \E i \in 1 .. m : f \in FlagsOf(mz[i].mz)
  <2>1. \A f : f \in r.flags <=> \E i \in 1 .. (m - 1) : f \in FlagsOf(mz[i].mz)
    BY DEF HoldsOf
  <2>. HIDE DEF FlagsOf
  <2>. QED BY <1>3, <1>4, <2>1
<1>7. q.rx_mz \in BOOLEAN /\ (q.rx_mz <=> \E i \in 1 .. m : mz[i].rx)
  <2>1. r.rx_mz <=> \E i \in 1 .. (m - 1) : mz[i].rx
    BY DEF HoldsOf
  <2>. QED BY <1>3, <1>4, <1>5, <2>1
<1>8. loc.var = k.mz /\ loc.target = k.target /\ loc.target_rx = (r.rx_mz \/ k.rx)
  OBVIOUS
<1>9. k.mz \in Located => loc \in Location /\ Says(loc, k)
  <2>1. k.mz \in Located => loc \in Location
    BY <1>5 DEF Location
  <2>. HIDE DEF loc
  <2>. QED BY <1>8, <2>1 DEF Says
<1>. HIDE DEF loc
<1>10. \A i \in DOMAIN r.locations : \E j \in 1 .. (m - 1) : Says(r.locations[i], mz[j])
  BY DEF HoldsOf
<1>11. \A j \in 1 .. (m - 1) : mz[j].mz \in Located =>
          \E i \in DOMAIN r.locations : Says(r.locations[i], mz[j])
  BY DEF HoldsOf
<1>12. CASE k.mz \in Located
  <2>1. q.locations = Append(r.locations, loc)
    BY <1>3, <1>12
  <2>2. /\ q.locations \in Seq(Location)
        /\ DOMAIN q.locations = 1 .. (len + 1)
        /\ \A i \in 1 .. len : q.locations[i] = r.locations[i]
        /\ q.locations[len + 1] = loc
    BY <1>5, <1>9, <1>12, <2>1
  <2>3. ASSUME NEW i \in DOMAIN q.locations
        PROVE  \E j \in 1 .. m : Says(q.locations[i], mz[j])
    <3>1. CASE i = len + 1
      BY <1>9, <1>12, <2>2, <3>1
    <3>2. CASE i # len + 1
      <4>1. i \in 1 .. len
        BY <1>5, <2>2, <3>2
      <4>. HIDE DEF len, k
      <4>. QED BY <1>4, <1>5, <1>10, <2>2, <4>1
    <3>. QED BY <3>1, <3>2
  <2>4. ASSUME NEW j \in 1 .. m, mz[j].mz \in Located
        PROVE  \E i \in DOMAIN q.locations : Says(q.locations[i], mz[j])
    <3>1. CASE j = m
      <4>1. len + 1 \in DOMAIN q.locations
        BY <1>5, <2>2
      <4>. QED BY <1>9, <1>12, <2>2, <3>1, <4>1
    <3>2. CASE j # m
      <4>1. PICK i \in 1 .. len : Says(r.locations[i], mz[j])
        BY <1>5, <1>11, <2>4, <3>2
      <4>2. i \in DOMAIN q.locations /\ q.locations[i] = r.locations[i]
        BY <1>5, <2>2
      <4>. QED BY <4>1, <4>2
    <3>. QED BY <3>1, <3>2
  <2>. QED BY <1>6, <1>7, <2>2, <2>3, <2>4, Zenon DEF HoldsOf, q, k
<1>13. CASE k.mz \notin Located
  <2>1. q.locations = r.locations
    BY <1>3, <1>13
  <2>2. q.locations \in Seq(Location)
    BY <1>5, <2>1
  <2>3. \A i \in DOMAIN q.locations : \E j \in 1 .. m : Says(q.locations[i], mz[j])
    BY <1>4, <1>10, <2>1
  <2>4. \A j \in 1 .. m : mz[j].mz \in Located =>
          \E i \in DOMAIN q.locations : Says(q.locations[i], mz[j])
    BY <1>4, <1>11, <1>13, <2>1
  <2>. QED BY <1>6, <1>7, <2>2, <2>3, <2>4, Zenon DEF HoldsOf, q, k
<1>. QED BY <1>12, <1>13

\* What naxsi_zone reads a match zone into.
LEMMA ZoneHolds ==
  ASSUME NEW ids \in Seq(Int), NEW mz \in Seq(Keyword), ~naxsi_zone(ids, mz).refused
  PROVE  HoldsOf(naxsi_zone(ids, mz), mz, Len(mz))
<1>. DEFINE n == Len(mz)
            C == BasicRules
            c == EmptyRule(ids)
<1>1. n \in Nat /\ \A i \in 1 .. n : mz[i] \in Keyword
  OBVIOUS
<1>2. c \in C
  BY DEF EmptyRule, BasicRules
<1>. HIDE DEF n, C, c
<1>3. PICK f : /\ f[0] = c /\ \A i \in 1 .. n : f[i] = keyword(f[i - 1], mz[i])
               /\ naxsi_zone(ids, mz)
                    = [f[n] EXCEPT !.refused = @ \/ (mz # << >> /\ f[n].flags = {})]
  BY ZoneCourse, Zenon DEF n, c
<1>4. f[0] = c /\ \A i \in 1 .. n : f[i] = keyword(f[i - 1], mz[i])
  BY <1>3
<1>. DEFINE S == {i \in 0 .. n : f[i] \in C /\ (~f[i].refused => HoldsOf(f[i], mz, i))}
<1>5. 0 \in S
  <2>1. c = [ids |-> ids, flags |-> {}, rx_mz |-> FALSE, locations |-> << >>,
             refused |-> FALSE]
    BY DEF c, EmptyRule
  <2>2. /\ c.flags = {} /\ c.rx_mz = FALSE /\ c.locations = << >>
        /\ c.locations \in Seq(Location) /\ DOMAIN c.locations = {} /\ 1 .. 0 = {}
    BY <2>1
  <2>3. HoldsOf(c, mz, 0)
    BY <2>2 DEF HoldsOf
  <2>. QED BY <1>1, <1>2, <1>4, <2>3
<1>6. ASSUME NEW i \in 1 .. n, i - 1 \in S
       PROVE  i \in S
  <2>1. f[i - 1] \in C /\ (~f[i - 1].refused => HoldsOf(f[i - 1], mz, i - 1))
    BY <1>6
  <2>2. f[i] = keyword(f[i - 1], mz[i]) /\ mz[i] \in Keyword
    BY <1>1, <1>4
  <2>. HIDE DEF S
  <2>3. f[i] \in C
    BY <2>1, <2>2, KeywordType DEF C
  <2>4. ~f[i].refused => HoldsOf(f[i], mz, i)
    <3>1. ~f[i].refused => ~f[i - 1].refused
      BY <2>1, <2>2 DEF keyword, C, BasicRules
    <3>. QED BY <1>1, <2>1, <2>2, <3>1, KeywordHolds DEF C
  <2>. QED BY <1>1, <2>3, <2>4 DEF S
<1>. HIDE DEF S
<1>7. \A i \in 0 .. n : i \in S
  BY <1>1, <1>5, <1>6, UpTo
<1>8. f[n] \in C /\ (~f[n].refused => HoldsOf(f[n], mz, n))
  BY <1>1, <1>7 DEF S
<1>. DEFINE r == naxsi_zone(ids, mz)
            q == f[n]
<1>9. /\ r = [q EXCEPT !.refused = @ \/ (mz # << >> /\ q.flags = {})]
       /\ q \in C /\ (~q.refused => HoldsOf(q, mz, n)) /\ ~r.refused
  BY <1>3, <1>8
<1>. HIDE DEF r, q
<1>10. /\ ~q.refused /\ r.flags = q.flags /\ r.locations = q.locations
       /\ r.rx_mz = q.rx_mz
  BY <1>9 DEF C, BasicRules
<1>11. HoldsOf(r, mz, n)
  BY <1>9, <1>10 DEF HoldsOf
<1>. QED BY <1>11 DEF r, n

-----------------------------------------------------------------------------
(***************************************************************************)
(* Lists of ids                                                            *)
(***************************************************************************)
Decides(id, x) == x = id \/ x = 0 \/ (x < 0 /\ id \notin InternalIds /\ id = -x)
Excludes(id, x) == x < 0 /\ id \notin InternalIds /\ id = -x

\* The two ways a list holds an id.
FirstHolds(id, ids) ==
  \E i \in DOMAIN ids :
    /\ Decides(id, ids[i]) /\ ~Excludes(id, ids[i])
    /\ \A j \in 1 .. (i - 1) : ~Decides(id, ids[j])

NoneExcludes(id, ids) ==
  /\ id \notin InternalIds
  /\ \E i \in DOMAIN ids : ids[i] < 0
  /\ \A i \in DOMAIN ids : ~Decides(id, ids[i])

LEMMA CheckIds ==
  ASSUME NEW id, NEW ids
  PROVE  nx_check_ids(id, ids) <=> FirstHolds(id, ids) \/ NoneExcludes(id, ids)
BY Zenon DEF nx_check_ids, FirstHolds, NoneExcludes, Decides, Excludes

\* Two lists put together hold no id that neither holds.
LEMMA MergedIds ==
  ASSUME NEW id, NEW A \in Seq(Int), NEW B \in Seq(Int), nx_check_ids(id, A \o B)
  PROVE  nx_check_ids(id, A) \/ nx_check_ids(id, B)
<1>. DEFINE C == A \o B
            m == Len(A)
            n == Len(B)
<1>1. /\ m \in Nat /\ n \in Nat
      /\ DOMAIN A = 1 .. m /\ DOMAIN B = 1 .. n /\ DOMAIN C = 1 .. (m + n)
      /\ \A i \in 1 .. m : C[i] = A[i]
      /\ \A i \in 1 .. n : C[m + i] = B[i]
  OBVIOUS
<1>2. FirstHolds(id, C) \/ NoneExcludes(id, C)
  BY CheckIds
<1>. HIDE DEF C, m, n
<1>3. ASSUME FirstHolds(id, C)
      PROVE  FirstHolds(id, A) \/ FirstHolds(id, B)
  <2>1. PICK i \in DOMAIN C :
          /\ Decides(id, C[i]) /\ ~Excludes(id, C[i])
          /\ \A j \in 1 .. (i - 1) : ~Decides(id, C[j])
    BY <1>3 DEF FirstHolds
  <2>2. CASE i <= m
    <3>1. i \in DOMAIN A /\ C[i] = A[i] /\ \A j \in 1 .. (i - 1) : C[j] = A[j]
      BY <1>1, <2>2
    <3>. QED BY <2>1, <3>1 DEF FirstHolds
  <2>3. CASE i > m
    <3>. DEFINE h == i - m
    <3>1. h \in 1 .. n /\ C[i] = B[h]
      <4>1. h \in 1 .. n /\ m + h = i
        BY <1>1, <2>1, <2>3
      <4>. QED BY <1>1, <4>1
    <3>2. ASSUME NEW j \in 1 .. (h - 1)
          PROVE  ~Decides(id, B[j])
      <4>1. m + j \in 1 .. (i - 1) /\ j \in 1 .. n
        BY <1>1, <2>1, <2>3, <3>1
      <4>. QED BY <1>1, <2>1, <4>1
    <3>. HIDE DEF h
    <3>. QED BY <1>1, <2>1, <3>1, <3>2 DEF FirstHolds
  <2>. QED BY <1>1, <2>1, <2>2, <2>3
<1>4. ASSUME NoneExcludes(id, C)
      PROVE  NoneExcludes(id, A) \/ NoneExcludes(id, B)
  <2>1. PICK i \in DOMAIN C : C[i] < 0
    BY <1>4 DEF NoneExcludes
  <2>2. \A j \in DOMAIN A : ~Decides(id, A[j])
    <3>. SUFFICES ASSUME NEW j \in DOMAIN A PROVE ~Decides(id, A[j])
      OBVIOUS
    <3>1. j \in DOMAIN C /\ C[j] = A[j]
      BY <1>1
    <3>. QED BY <1>4, <3>1 DEF NoneExcludes
  <2>3. \A j \in DOMAIN B : ~Decides(id, B[j])
    <3>. SUFFICES ASSUME NEW j \in DOMAIN B PROVE ~Decides(id, B[j])
      OBVIOUS
    <3>1. m + j \in DOMAIN C /\ C[m + j] = B[j]
      BY <1>1
    <3>. QED BY <1>4, <3>1 DEF NoneExcludes
  <2>4. (i \in DOMAIN A /\ A[i] = C[i]) \/ (i - m \in DOMAIN B /\ B[i - m] = C[i])
    <3>1. CASE i <= m
      BY <1>1, <3>1
    <3>2. CASE i > m
      <4>1. i - m \in 1 .. n /\ m + (i - m) = i
        BY <1>1, <3>2
      <4>. QED BY <1>1, <4>1
    <3>. QED BY <1>1, <3>1, <3>2
  <2>. QED BY <1>4, <2>1, <2>2, <2>3, <2>4 DEF NoneExcludes
<1>. QED BY <1>2, <1>3, <1>4, CheckIds

\* A list without negative ids holds what is in it, and everything if 0 is.
LEMMA PositiveIds ==
  ASSUME NEW id, NEW A \in Seq(Int), \A i \in DOMAIN A : ~(A[i] < 0)
  PROVE  nx_check_ids(id, A) <=> \E i \in DOMAIN A : A[i] \in {id, 0}
<1>. DEFINE n == Len(A)
<1>1. n \in Nat /\ DOMAIN A = 1 .. n /\ \A i \in 1 .. n : A[i] \in Int
  OBVIOUS
<1>. HIDE DEF n
<1>2. ~NoneExcludes(id, A)
  BY DEF NoneExcludes
<1>3. \A i \in DOMAIN A : (Decides(id, A[i]) <=> A[i] \in {id, 0}) /\ ~Excludes(id, A[i])
  BY DEF Decides, Excludes
<1>4. FirstHolds(id, A) => \E i \in DOMAIN A : A[i] \in {id, 0}
  BY <1>3 DEF FirstHolds
<1>5. ASSUME NEW h \in DOMAIN A, A[h] \in {id, 0}
      PROVE  FirstHolds(id, A)
  <2>. DEFINE S == {m \in 0 .. n : \A j \in 1 .. m : ~Decides(id, A[j])}
  <2>1. SUFFICES ASSUME ~FirstHolds(id, A) PROVE FALSE
    OBVIOUS
  <2>2. 0 \in S
    BY <1>1
  <2>3. ASSUME NEW m \in 1 .. n, m - 1 \in S
        PROVE  m \in S
    <3>1. \A j \in 1 .. (m - 1) : ~Decides(id, A[j])
      BY <2>3
    <3>2. ~Decides(id, A[m])
      BY <1>1, <1>3, <2>1, <3>1 DEF FirstHolds
    <3>3. \A j \in 1 .. m : j = m \/ j \in 1 .. (m - 1)
      OBVIOUS
    <3>. QED BY <3>1, <3>2, <3>3
  <2>. HIDE DEF S
  <2>4. \A m \in 0 .. n : m \in S
    BY <1>1, <2>2, <2>3, UpTo
  <2>5. n \in S
    BY <1>1, <2>4
  <2>6. ~Decides(id, A[h])
    BY <1>1, <1>5, <2>5 DEF S
  <2>. QED BY <1>3, <1>5, <2>6
<1>. QED BY <1>2, <1>4, <1>5, CheckIds

-----------------------------------------------------------------------------
(***************************************************************************)
(* The shape of a key                                                      *)
(***************************************************************************)
\* What two sequences make together.
LEMMA ConcatIs ==
  ASSUME NEW S, NEW s \in Seq(S), NEW t \in Seq(S), NEW w \in Seq(S),
         Len(w) = Len(s) + Len(t),
         \A i \in 1 .. Len(s) : w[i] = s[i],
         \A i \in 1 .. Len(t) : w[Len(s) + i] = t[i]
  PROVE  s \o t = w
<1>. DEFINE c == s \o t
            m == Len(s)
            n == Len(t)
<1>1. m \in Nat /\ n \in Nat /\ Len(w) = m + n
  OBVIOUS
<1>2. /\ c \in Seq(S) /\ Len(c) = m + n
      /\ \A i \in 1 .. m : c[i] = s[i]
      /\ \A i \in 1 .. n : c[m + i] = t[i]
  OBVIOUS
<1>. HIDE DEF c, m, n
<1>3. \A i \in 1 .. m : c[i] = w[i]
  BY <1>2 DEF m
<1>4. \A i \in 1 .. n : c[m + i] = w[m + i]
  BY <1>2 DEF m, n
<1>5. ASSUME NEW i \in 1 .. (m + n)
      PROVE  c[i] = w[i]
  <2>1. CASE i \in 1 .. m
    BY <1>3, <2>1
  <2>2. CASE i \notin 1 .. m
    <3>1. i - m \in 1 .. n /\ m + (i - m) = i
      BY <1>1, <2>2
    <3>2. c[m + (i - m)] = w[m + (i - m)]
      BY <1>4, <3>1, Zenon
    <3>. QED BY <3>1, <3>2
  <2>. QED BY <2>1, <2>2
<1>6. c = w
  BY ONLY <1>1, <1>2, <1>5, c \in Seq(S), w \in Seq(S), SeqEqual
<1>. QED BY <1>6 DEF c

\* A tuple and one more element.
LEMMA AppendOne ==
  ASSUME NEW S, NEW s \in Seq(S), NEW w \in Seq(S), NEW x \in S,
         Len(w) = Len(s) + 1, \A i \in 1 .. Len(s) : w[i] = s[i], w[Len(w)] = x
  PROVE  s \o <<x>> = w
<1>1. <<x>> \in Seq(S) /\ Len(<<x>>) = 1 /\ <<x>>[1] = x
  OBVIOUS
<1>2. \A i \in 1 .. 1 : i = 1
  OBVIOUS
<1>. DEFINE t == <<x>>
<1>. HIDE DEF t
<1>3. Len(w) = Len(s) + Len(t)
  BY <1>1 DEF t
<1>4. \A i \in 1 .. Len(t) : w[Len(s) + i] = t[i]
  BY <1>1, <1>2, <1>3 DEF t
<1>5. t \in Seq(S)
  BY <1>1 DEF t
<1>6. s \o t = w
  BY <1>3, <1>4, <1>5, ConcatIs, Zenon
<1>. QED BY <1>6 DEF t

LEMMA TwoOf ==
  ASSUME NEW a, NEW b
  PROVE  <<a>> \o <<b>> = <<a, b>>
<1>. DEFINE s == <<a>>
            w == <<a, b>>
<1>1. s \in Seq({a, b}) /\ w \in Seq({a, b}) /\ b \in {a, b}
  OBVIOUS
<1>2. Len(s) = 1 /\ s[1] = a
  OBVIOUS
<1>3. Len(w) = 2 /\ w[1] = a /\ w[2] = b
  OBVIOUS
<1>. HIDE DEF s, w
<1>4. Len(w) = Len(s) + 1 /\ w[Len(w)] = b /\ \A i \in 1 .. Len(s) : w[i] = s[i]
  BY <1>2, <1>3
<1>5. s \o <<b>> = w
  BY <1>1, <1>4, AppendOne, Zenon
<1>. QED BY <1>5 DEF s, w

LEMMA ThreeOf ==
  ASSUME NEW a, NEW b, NEW c
  PROVE  <<a, b>> \o <<c>> = <<a, b, c>>
<1>. DEFINE s == <<a, b>>
            w == <<a, b, c>>
<1>1. s \in Seq({a, b, c}) /\ w \in Seq({a, b, c}) /\ c \in {a, b, c}
  OBVIOUS
<1>2. Len(s) = 2 /\ s[1] = a /\ s[2] = b
  OBVIOUS
<1>3. Len(w) = 3 /\ w[1] = a /\ w[2] = b /\ w[3] = c
  OBVIOUS
<1>. HIDE DEF s, w
<1>4. Len(w) = Len(s) + 1 /\ w[Len(w)] = c /\ \A i \in 1 .. Len(s) : w[i] = s[i]
  BY <1>2, <1>3
<1>5. s \o <<c>> = w
  BY <1>1, <1>4, AppendOne, Zenon
<1>. QED BY <1>5 DEF s, w

LEMMA FourOf ==
  ASSUME NEW a, NEW b, NEW c, NEW d
  PROVE  <<a, b, c>> \o <<d>> = <<a, b, c, d>>
<1>. DEFINE s == <<a, b, c>>
            w == <<a, b, c, d>>
<1>1. s \in Seq({a, b, c, d}) /\ w \in Seq({a, b, c, d}) /\ d \in {a, b, c, d}
  OBVIOUS
<1>2. Len(s) = 3 /\ s[1] = a /\ s[2] = b /\ s[3] = c
  OBVIOUS
<1>3. Len(w) = 4 /\ w[1] = a /\ w[2] = b /\ w[3] = c /\ w[4] = d
  OBVIOUS
<1>. HIDE DEF s, w
<1>4. Len(w) = Len(s) + 1 /\ w[Len(w)] = d /\ \A i \in 1 .. Len(s) : w[i] = s[i]
  BY <1>2, <1>3
<1>5. s \o <<d>> = w
  BY <1>1, <1>4, AppendOne, Zenon
<1>. QED BY <1>5 DEF s, w

LEMMA FourOfThree ==
  ASSUME NEW a, NEW b, NEW c, NEW d
  PROVE  <<a>> \o <<b, c, d>> = <<a, b, c, d>>
<1>. DEFINE s == <<a>>
            t == <<b, c, d>>
            w == <<a, b, c, d>>
            S == {a, b, c, d}
<1>1. s \in Seq(S) /\ t \in Seq(S) /\ w \in Seq(S)
  OBVIOUS
<1>2. Len(s) = 1 /\ s[1] = a
  OBVIOUS
<1>3. Len(t) = 3 /\ t[1] = b /\ t[2] = c /\ t[3] = d
  OBVIOUS
<1>4. Len(w) = 4 /\ w[1] = a /\ w[2] = b /\ w[3] = c /\ w[4] = d
  OBVIOUS
<1>. HIDE DEF s, t, w, S
<1>5. Len(w) = Len(s) + Len(t) /\ \A i \in 1 .. Len(s) : w[i] = s[i]
  BY <1>2, <1>3, <1>4
<1>6. \A i \in 1 .. Len(t) : w[Len(s) + i] = t[i]
  BY <1>2, <1>3, <1>4
<1>7. s \o t = w
  BY <1>1, <1>5, <1>6, ConcatIs, Zenon
<1>. QED BY <1>7 DEF s, t, w

LEMMA NothingMore ==
  ASSUME NEW S, NEW s \in Seq(S)
  PROVE  s \o << >> = s /\ << >> \o s = s
OBVIOUS

Plain(r) == r.locations # << >> /\ ~r.rx_mz

LEMMA SeqFacts ==
  ASSUME NEW S, NEW s \in Seq(S)
  PROVE  /\ DOMAIN s = 1 .. Len(s) /\ Len(s) \in Nat
         /\ \A i \in DOMAIN s : s[i] \in S
         /\ s # << >> => DOMAIN s # {}
<1>1. /\ DOMAIN s = 1 .. Len(s) /\ Len(s) \in Nat
      /\ \A i \in DOMAIN s : s[i] \in S
  OBVIOUS
<1>2. Len(s) = 0 => s = << >>
  OBVIOUS
<1>3. s # << >> => 1 \in 1 .. Len(s)
  BY <1>1, <1>2
<1>. QED BY <1>1, <1>3, Zenon

LEMMA Located2 ==
  ASSUME NEW r \in BasicRules
  PROVE  /\ NamedIdx(r) \cup UrlIdx(r) = DOMAIN r.locations
         /\ NamedIdx(r) \cap UrlIdx(r) = {}
         /\ r.locations # << >> => NamedIdx(r) # {} \/ UrlIdx(r) # {}
         /\ IsFiniteSet(NamedIdx(r)) /\ IsFiniteSet(UrlIdx(r))
         /\ \A i \in DOMAIN r.locations : r.locations[i] \in Location
<1>1. r.locations \in Seq(Location)
  BY DEF BasicRules
<1>2. /\ DOMAIN r.locations = 1 .. Len(r.locations) /\ Len(r.locations) \in Nat
      /\ \A i \in DOMAIN r.locations : r.locations[i] \in Location
      /\ r.locations # << >> => DOMAIN r.locations # {}
  BY <1>1, SeqFacts, Zenon
<1>3. IsFiniteSet(DOMAIN r.locations)
  BY <1>2, FS_Interval
<1>4. /\ NamedIdx(r) \cup UrlIdx(r) = DOMAIN r.locations
      /\ NamedIdx(r) \cap UrlIdx(r) = {}
  BY DEF NamedIdx, UrlIdx
<1>5. NamedIdx(r) \subseteq DOMAIN r.locations /\ UrlIdx(r) \subseteq DOMAIN r.locations
  BY <1>4
<1>. QED BY <1>2, <1>3, <1>4, <1>5, FS_Subset

\* Of one location at most, the last is the one.
LEMMA OnlyOne ==
  ASSUME NEW S \in SUBSET Nat, IsFiniteSet(S), Cardinality(S) <= 1, S # {}
  PROVE  S = {LastOf(S)}
<1>1. Cardinality(S) \in Nat /\ (Cardinality(S) = 0 <=> S = {})
  BY FS_CardinalityType, FS_EmptySet
<1>2. Cardinality(S) = 1
  <2>. DEFINE c == Cardinality(S)
  <2>1. c \in Nat /\ c # 0 /\ c <= 1
    BY <1>1
  <2>. HIDE DEF c
  <2>2. c = 1
    BY <2>1
  <2>. QED BY <2>2 DEF c
<1>3. PICK x : S = {x}
  BY <1>2, FS_Singleton
<1>4. x \in S /\ \A j \in S : j <= x
  BY <1>3
<1>5. LastOf(S) \in S /\ \A j \in S : j <= LastOf(S)
  BY <1>4 DEF LastOf
<1>. QED BY <1>3, <1>5

\* A whitelist that is identified has one named location at most, and one that
\* is clear one URL at most.
LEMMA LastNamed ==
  ASSUME NEW r \in BasicRules, Cardinality(NamedIdx(r)) <= 1, NamedIdx(r) # {}
  PROVE  /\ NamedIdx(r) = {LastOf(NamedIdx(r))}
         /\ NameOf(r) = r.locations[LastOf(NamedIdx(r))]
         /\ NameOf(r) \in Location /\ NameOf(r).var # "$URL"
<1>1. NamedIdx(r) \subseteq Nat
  <2>1. DOMAIN r.locations \subseteq Nat
    BY DEF BasicRules
  <2>. QED BY <2>1 DEF NamedIdx
<1>2. NamedIdx(r) = {LastOf(NamedIdx(r))}
  BY <1>1, Located2, OnlyOne
<1>. DEFINE l == LastOf(NamedIdx(r))
<1>3. l \in NamedIdx(r) /\ l \in DOMAIN r.locations
  BY <1>2 DEF NamedIdx
<1>. HIDE DEF l
<1>4. r.locations[l] \in Location /\ r.locations[l].var # "$URL"
  BY <1>3, Located2 DEF NamedIdx
<1>. QED BY <1>2, <1>4 DEF NameOf, l

LEMMA LastUrl ==
  ASSUME NEW r \in BasicRules, Cardinality(UrlIdx(r)) <= 1, UrlIdx(r) # {}
  PROVE  /\ UrlIdx(r) = {LastOf(UrlIdx(r))}
         /\ UriOf(r) = r.locations[LastOf(UrlIdx(r))].target
         /\ UriOf(r) \in Strings
<1>1. UrlIdx(r) \subseteq Nat
  <2>1. DOMAIN r.locations \subseteq Nat
    BY DEF BasicRules
  <2>. QED BY <2>1 DEF UrlIdx
<1>2. UrlIdx(r) = {LastOf(UrlIdx(r))}
  BY <1>1, Located2, OnlyOne
<1>. DEFINE l == LastOf(UrlIdx(r))
<1>3. l \in UrlIdx(r) /\ l \in DOMAIN r.locations
  BY <1>2 DEF UrlIdx
<1>. HIDE DEF l
<1>4. r.locations[l] \in Location
  BY <1>3, Located2
<1>. QED BY <1>2, <1>4 DEF UriOf, l, Location

\* The key, by what it is made of.
LEMMA KeyShape ==
  ASSUME NEW r, NEW u, NEW n, u = UriOf(r), n = NameOf(r).target
  PROVE  fullname(r) =
           IF "target_name" \in r.flags
           THEN IF UrlIdx(r) # {}
                THEN IF NamedIdx(r) # {} THEN <<"#", u, "#", n>> ELSE <<"#", u>>
                ELSE IF NamedIdx(r) # {} THEN <<"#", n>> ELSE <<"#">>
           ELSE IF UrlIdx(r) # {}
                THEN IF NamedIdx(r) # {} THEN <<u, "#", n>> ELSE <<u>>
                ELSE IF NamedIdx(r) # {} THEN <<n>> ELSE << >>
<1>. DEFINE t == IF "target_name" \in r.flags THEN <<"#">> ELSE << >>
            m == IF UrlIdx(r) # {} /\ NamedIdx(r) # {} THEN <<"#">> ELSE << >>
            x == IF UrlIdx(r) # {} THEN <<u>> ELSE << >>
            y == IF NamedIdx(r) # {} THEN <<n>> ELSE << >>
            S == {"#", u, n}
<1>1. fullname(r) = ((t \o x) \o m) \o y
  BY DEF fullname
<1>2. /\ <<"#">> \in Seq(S) /\ <<u>> \in Seq(S) /\ <<n>> \in Seq(S)
      /\ << >> \in Seq(S) /\ <<"#", u>> \in Seq(S)
  OBVIOUS
<1>. HIDE DEF S
<1>3. /\ <<"#">> \o <<u>> = <<"#", u>>
      /\ <<"#">> \o <<n>> = <<"#", n>>
      /\ <<u>> \o <<"#">> = <<u, "#">>
  BY TwoOf, Zenon
<1>4. /\ <<"#", u>> \o <<"#">> = <<"#", u, "#">>
      /\ <<u, "#">> \o <<n>> = <<u, "#", n>>
      /\ <<"#", u, "#">> \o <<n>> = <<"#", u, "#", n>>
  BY ThreeOf, FourOf, Zenon
<1>5. /\ << >> \o << >> = << >>
      /\ <<"#">> \o << >> = <<"#">>
      /\ <<"#", u>> \o << >> = <<"#", u>>
      /\ <<u>> \o << >> = <<u>>
      /\ << >> \o <<u>> = <<u>>
      /\ << >> \o <<n>> = <<n>>
  BY <1>2, NothingMore, Zenon
<1>6. CASE UrlIdx(r) # {} /\ NamedIdx(r) # {}
  BY <1>1, <1>3, <1>4, <1>5, <1>6, Zenon
<1>7. CASE UrlIdx(r) # {} /\ NamedIdx(r) = {}
  BY <1>1, <1>3, <1>4, <1>5, <1>7, Zenon
<1>8. CASE UrlIdx(r) = {} /\ NamedIdx(r) # {}
  BY <1>1, <1>3, <1>4, <1>5, <1>8, Zenon
<1>9. CASE UrlIdx(r) = {} /\ NamedIdx(r) = {}
  BY <1>1, <1>3, <1>4, <1>5, <1>9, Zenon
<1>. QED BY <1>6, <1>7, <1>8, <1>9, Zenon

-----------------------------------------------------------------------------
(***************************************************************************)
(* Lookups                                                                 *)
(***************************************************************************)

\* What a step of the lookup asks for.
AskedKey(item, step) ==
  CASE step = 2 -> <<item.name>>
    [] step = 3 -> <<"#", item.name>>
    [] step = 4 -> <<item.uri>>
    [] step = 5 -> <<item.uri>>
    [] step = 6 -> <<"#", item.uri>>
    [] step = 7 -> IF item.target_name THEN <<"#", item.uri, "#", item.name>>
                   ELSE <<item.uri, "#", item.name>>
AskedZone(item, step) == IF step = 4 THEN "URL" ELSE item.zone
AskedType(step) ==
  IF step \in {2, 3} THEN "NAME_ONLY" ELSE IF step = 7 THEN "MIXED" ELSE "URI_ONLY"
Asks(item, step) == step \in 2 .. 7 /\ (step \in {2, 3} => item.name # "")

\* An entry under the key asked for, and one that applies.
Candidate(b, item, step) ==
  /\ b.zone \in TableOf(AskedZone(item, step))
  /\ lower_key(b.name) = lower_key(AskedKey(item, step))
Answers(b, item, step) ==
  Candidate(b, item, step) /\ is_whitelist_adapted(b, item, AskedType(step))

LEMMA HashedAsks ==
  ASSUME NEW T, NEW item, NEW step \in 2 .. 7
  PROVE  hashed(T, item, step) <=>
           /\ Asks(item, step)
           /\ \E b \in find_wl_in_hash(T, AskedKey(item, step), AskedZone(item, step)) :
                is_whitelist_adapted(b, item, AskedType(step))
<1>1. <<"#">> \o <<item.uri, "#", item.name>> = <<"#", item.uri, "#", item.name>>
  BY FourOfThree, Zenon
<1>2. << >> \o <<item.uri, "#", item.name>> = <<item.uri, "#", item.name>>
  <2>1. <<item.uri, "#", item.name>> \in Seq({"#", item.uri, item.name})
    OBVIOUS
  <2>. QED BY <2>1, NothingMore, Zenon
<1>3. CASE step = 2
  BY <1>3 DEF hashed, Asks, AskedKey, AskedZone, AskedType
<1>4. CASE step = 3
  BY <1>4 DEF hashed, Asks, AskedKey, AskedZone, AskedType
<1>5. CASE step = 4
  BY <1>5 DEF hashed, Asks, AskedKey, AskedZone, AskedType
<1>6. CASE step = 5
  BY <1>6 DEF hashed, Asks, AskedKey, AskedZone, AskedType
<1>7. CASE step = 6
  BY <1>7 DEF hashed, Asks, AskedKey, AskedZone, AskedType
<1>8. CASE step = 7
  <2>. DEFINE q == (IF item.target_name THEN <<"#">> ELSE << >>)
                     \o <<item.uri, "#", item.name>>
  <2>1. q = AskedKey(item, 7)
    <3>1. AskedKey(item, 7) = IF item.target_name
                              THEN <<"#", item.uri, "#", item.name>>
                              ELSE <<item.uri, "#", item.name>>
      BY DEF AskedKey
    <3>2. CASE item.target_name
      BY <1>1, <3>1, <3>2, Zenon
    <3>3. CASE ~item.target_name
      BY <1>2, <3>1, <3>3, Zenon
    <3>. QED BY <3>2, <3>3, Zenon
  <2>. HIDE DEF q
  <2>2. hashed(T, item, 7) <=>
          \E b \in find_wl_in_hash(T, q, item.zone) :
            is_whitelist_adapted(b, item, "MIXED")
    BY DEF hashed, q
  <2>. QED BY <1>8, <2>1, <2>2 DEF Asks, AskedZone, AskedType
<1>. QED BY <1>3, <1>4, <1>5, <1>6, <1>7, <1>8

\* What is found in the hash tables answers.
LEMMA FoundAnswers ==
  ASSUME NEW T, NEW item, NEW step \in 2 .. 7, hashed(T, item, step)
  PROVE  /\ Asks(item, step)
         /\ \E i \in DOMAIN T.tmp_wlr : Answers(T.tmp_wlr[i], item, step)
<1>1. PICK b \in find_wl_in_hash(T, AskedKey(item, step), AskedZone(item, step)) :
        is_whitelist_adapted(b, item, AskedType(step))
  BY HashedAsks, Zenon
<1>2. PICK i \in Homonyms(T, AskedKey(item, step), AskedZone(item, step)) :
        b = T.tmp_wlr[i]
  BY Zenon DEF find_wl_in_hash
<1>3. i \in DOMAIN T.tmp_wlr /\ Candidate(T.tmp_wlr[i], item, step)
  BY <1>2, Zenon DEF Homonyms, Candidate
<1>. QED BY <1>1, <1>2, <1>3, HashedAsks, Zenon DEF Answers

\* An entry that answers is found if no other is in its way.
LEMMA AnswersFound ==
  ASSUME NEW T, NEW item, NEW step \in 2 .. 7, Asks(item, step),
         NEW i \in DOMAIN T.tmp_wlr, i \in Nat, Answers(T.tmp_wlr[i], item, step),
         \A j \in DOMAIN T.tmp_wlr : Candidate(T.tmp_wlr[j], item, step) => j = i
  PROVE  hashed(T, item, step)
<1>. DEFINE S == Homonyms(T, AskedKey(item, step), AskedZone(item, step))
<1>1. S = {i}
  BY Zenon DEF Homonyms, Candidate, Answers
<1>. HIDE DEF S
<1>2. i \in {j \in S : \A k \in S : j <= k}
  BY <1>1
<1>3. T.tmp_wlr[i] \in find_wl_in_hash(T, AskedKey(item, step), AskedZone(item, step))
  BY <1>2, Zenon DEF find_wl_in_hash, S
<1>. QED BY <1>3, HashedAsks, Zenon DEF Answers

\* What a whitelist exempts alone.
Exempts(r, item) ==
  IF r.locations = << >> THEN disabled(r, item)
  ELSE IF r.rx_mz THEN whitelisted_rx(compiled(r), item)
       ELSE \E step \in 2 .. 7 : Asks(item, step) /\ Answers(fresh(r), item, step)

LEMMA NothingFails ==
  ASSUME NEW T, NEW item
  PROVE  is_rule_whitelisted(T, item, Enough) <=>
           \/ \E i \in DOMAIN T.disabled_rules : disabled(T.disabled_rules[i], item)
           \/ \E step \in 2 .. 7 : hashed(T, item, step)
           \/ \E i \in DOMAIN T.rxmz_wlr : whitelisted_rx(T.rxmz_wlr[i], item)
<1>1. Enough.what # "copy" /\ Enough.what # "key"
  BY DEF Enough
<1>. QED BY <1>1, Zenon DEF is_rule_whitelisted

\* Whatever could not be allocated, what is exempt is found somewhere.
LEMMA WhateverFails ==
  ASSUME NEW T, NEW item, NEW failure, is_rule_whitelisted(T, item, failure)
  PROVE  is_rule_whitelisted(T, item, Enough)
BY NothingFails, Zenon DEF is_rule_whitelisted

LEMMA AloneExempts ==
  ASSUME NEW r \in BasicRules, NEW item
  PROVE  is_rule_whitelisted(add_whitelist(NoTables, r), item, Enough)
           <=> Exempts(r, item)
<1>. DEFINE T == add_whitelist(NoTables, r)
<1>1. CASE r.locations = << >>
  <2>1. T = [disabled_rules |-> <<r>>, rxmz_wlr |-> << >>, tmp_wlr |-> << >>]
    <3>1. Append(<< >>, r) = <<r>>
      OBVIOUS
    <3>. QED BY <1>1, <3>1 DEF add_whitelist, NoTables
  <2>2. /\ DOMAIN T.disabled_rules = {1} /\ T.disabled_rules[1] = r
        /\ DOMAIN T.rxmz_wlr = {} /\ DOMAIN T.tmp_wlr = {}
    BY <2>1
  <2>. HIDE DEF T
  <2>3. \A step \in 2 .. 7 : ~hashed(T, item, step)
    BY <2>2, FoundAnswers, Zenon
  <2>4. is_rule_whitelisted(T, item, Enough) <=> disabled(r, item)
    BY <2>2, <2>3, NothingFails
  <2>. QED BY <1>1, <2>4 DEF T, Exempts
<1>2. CASE r.locations # << >> /\ r.rx_mz
  <2>1. T = [disabled_rules |-> << >>, rxmz_wlr |-> <<compiled(r)>>, tmp_wlr |-> << >>]
    <3>1. Append(<< >>, compiled(r)) = <<compiled(r)>>
      OBVIOUS
    <3>. QED BY <1>2, <3>1 DEF add_whitelist, NoTables
  <2>2. /\ DOMAIN T.rxmz_wlr = {1} /\ T.rxmz_wlr[1] = compiled(r)
        /\ DOMAIN T.disabled_rules = {} /\ DOMAIN T.tmp_wlr = {}
    BY <2>1
  <2>. HIDE DEF T
  <2>3. \A step \in 2 .. 7 : ~hashed(T, item, step)
    BY <2>2, FoundAnswers, Zenon
  <2>4. is_rule_whitelisted(T, item, Enough) <=> whitelisted_rx(compiled(r), item)
    BY <2>2, <2>3, NothingFails
  <2>. QED BY <1>2, <2>4 DEF T, Exempts
<1>3. CASE r.locations # << >> /\ ~r.rx_mz
  <2>1. T = [disabled_rules |-> << >>, rxmz_wlr |-> << >>, tmp_wlr |-> <<fresh(r)>>]
    <3>1. Append(<< >>, fresh(r)) = <<fresh(r)>>
      OBVIOUS
    <3>2. wlr_find(<< >>, r) = {}
      BY DEF wlr_find
    <3>. QED BY <1>3, <3>1, <3>2 DEF add_whitelist, NoTables, wlr_merge
  <2>2. /\ DOMAIN T.tmp_wlr = {1} /\ T.tmp_wlr[1] = fresh(r)
        /\ DOMAIN T.disabled_rules = {} /\ DOMAIN T.rxmz_wlr = {}
    <3>1. DOMAIN <<fresh(r)>> = {1} /\ <<fresh(r)>>[1] = fresh(r)
      OBVIOUS
    <3>. QED BY <2>1, <3>1
  <2>. HIDE DEF T
  <2>3. ASSUME NEW step \in 2 .. 7
        PROVE  hashed(T, item, step) <=> Asks(item, step) /\ Answers(fresh(r), item, step)
    BY <2>2, FoundAnswers, AnswersFound
  <2>4. is_rule_whitelisted(T, item, Enough) <=>
          \E step \in 2 .. 7 : Asks(item, step) /\ Answers(fresh(r), item, step)
    BY <2>2, <2>3, NothingFails, Zenon
  <2>. QED BY <1>3, <2>4 DEF T, Exempts
<1>. QED BY <1>1, <1>2, <1>3, r.rx_mz \in BOOLEAN DEF BasicRules

-----------------------------------------------------------------------------
(***************************************************************************)
(* Keys and zones                                                          *)
(***************************************************************************)
Key == Seq(Strings \cup {"#"})

LEMMA LowerKeys ==
  ASSUME NEW a \in Key, NEW b \in Key
  PROVE  lower_key(a) = lower_key(b) <=>
           /\ Len(a) = Len(b)
           /\ \A i \in 1 .. Len(a) : /\ a[i] = "#" <=> b[i] = "#"
                                     /\ a[i] # "#" => lower[a[i]] = lower[b[i]]
<1>. DEFINE L(x) == IF x = "#" THEN "#" ELSE lower[x]
<1>1. /\ Len(a) \in Nat /\ DOMAIN a = 1 .. Len(a)
      /\ Len(b) \in Nat /\ DOMAIN b = 1 .. Len(b)
  BY DEF Key
<1>2. /\ \A i \in 1 .. Len(a) : a[i] \in Strings \cup {"#"}
      /\ \A i \in 1 .. Len(b) : b[i] \in Strings \cup {"#"}
  BY DEF Key
<1>3. \A x \in Strings : lower[x] \in Strings /\ lower[x] # "#" /\ x # "#"
  <2>1. lower \in [Strings -> Strings] /\ "#" \notin Strings
    BY StringsAssumption, WhitelistAssumption, Zenon
  <2>. QED BY <2>1
<1>4. \A x, y \in Strings \cup {"#"} :
        L(x) = L(y) <=> (x = "#" <=> y = "#") /\ (x # "#" => lower[x] = lower[y])
  BY <1>3
<1>5. lower_key(a) = [i \in 1 .. Len(a) |-> L(a[i])]
      /\ lower_key(b) = [i \in 1 .. Len(b) |-> L(b[i])]
  BY <1>1, Zenon DEF lower_key
<1>. DEFINE m == Len(a)
            n == Len(b)
            p == [i \in 1 .. m |-> L(a[i])]
            q == [i \in 1 .. n |-> L(b[i])]
<1>6. p = q <=> m = n /\ \A i \in 1 .. m : L(a[i]) = L(b[i])
  <2>1. DOMAIN p = 1 .. m /\ DOMAIN q = 1 .. n
    OBVIOUS
  <2>2. /\ \A i \in 1 .. m : p[i] = L(a[i])
        /\ \A i \in 1 .. n : q[i] = L(b[i])
    OBVIOUS
  <2>3. 1 .. m = 1 .. n => m = n
    <3>1. m \in Nat /\ n \in Nat
      BY <1>1
    <3>. HIDE DEF m, n
    <3>2. (m # 0 => m \in 1 .. m) /\ (n # 0 => n \in 1 .. n)
      BY <3>1
    <3>3. ASSUME 1 .. m = 1 .. n PROVE m = n
      <4>1. (m # 0 => m \in 1 .. n) /\ (n # 0 => n \in 1 .. m)
        BY <3>2, <3>3
      <4>. QED BY <3>1, <4>1
    <3>. QED BY <3>3
  <2>4. p = q => m = n /\ \A i \in 1 .. m : L(a[i]) = L(b[i])
    <3>. HIDE DEF p, q, m, n, L
    <3>. QED BY <2>1, <2>2, <2>3
  <2>5. m = n /\ (\A i \in 1 .. m : L(a[i]) = L(b[i])) => p = q
    <3>. HIDE DEF L
    <3>. QED OBVIOUS
  <2>. QED BY <2>4, <2>5
<1>7. ASSUME m = n
      PROVE  (\A i \in 1 .. m : L(a[i]) = L(b[i])) <=>
               \A i \in 1 .. m : /\ a[i] = "#" <=> b[i] = "#"
                                 /\ a[i] # "#" => lower[a[i]] = lower[b[i]]
  <2>1. \A i \in 1 .. m : a[i] \in Strings \cup {"#"} /\ b[i] \in Strings \cup {"#"}
    BY <1>2, <1>7
  <2>. HIDE DEF L, m, n
  <2>. QED BY <1>4, <2>1
<1>. HIDE DEF L
<1>. QED BY <1>5, <1>6, <1>7

\* A whitelist with a location, one URL and one named location at most.
OneEach(r) ==
  /\ r \in Accepted /\ r.locations # << >>
  /\ Cardinality(NamedIdx(r)) <= 1 /\ Cardinality(UrlIdx(r)) <= 1

\* What the locations of a whitelist are, when there is one of each.
Located1(r, u, n) ==
  \A i \in DOMAIN r.locations :
    /\ i \in UrlIdx(r) \cup NamedIdx(r)
    /\ i \in UrlIdx(r) =>
         r.locations[i].var = "$URL" /\ r.locations[i].target = u /\ u \in Strings
    /\ i \in NamedIdx(r) =>
         r.locations[i].var # "$URL" /\ r.locations[i].target = n /\ n \in Strings

LEMMA WhatIsLocated ==
  ASSUME NEW r, OneEach(r)
  PROVE  /\ Located1(r, UriOf(r), NameOf(r).target)
         /\ UrlIdx(r) # {} \/ NamedIdx(r) # {}
         /\ UrlIdx(r) # {} => UriOf(r) \in Strings
         /\ NamedIdx(r) # {} => NameOf(r).target \in Strings
<1>1. r \in BasicRules
  BY DEF OneEach, Accepted
<1>2. /\ NamedIdx(r) \cup UrlIdx(r) = DOMAIN r.locations
      /\ NamedIdx(r) # {} \/ UrlIdx(r) # {}
      /\ \A i \in DOMAIN r.locations : r.locations[i] \in Location
  BY <1>1, Located2 DEF OneEach
<1>3. ASSUME NamedIdx(r) # {}
      PROVE  /\ NameOf(r).target \in Strings
             /\ \A i \in NamedIdx(r) :
                  r.locations[i].var # "$URL" /\ r.locations[i].target = NameOf(r).target
  <2>1. /\ NamedIdx(r) = {LastOf(NamedIdx(r))}
        /\ NameOf(r) = r.locations[LastOf(NamedIdx(r))]
        /\ NameOf(r) \in Location /\ NameOf(r).var # "$URL"
    BY <1>1, <1>3, LastNamed DEF OneEach
  <2>2. NameOf(r).target \in Strings
    BY <2>1 DEF Location
  <2>3. \A i \in NamedIdx(r) : r.locations[i] = NameOf(r)
    BY <2>1, Zenon
  <2>. QED BY <2>1, <2>2, <2>3, Zenon
<1>4. ASSUME UrlIdx(r) # {}
      PROVE  /\ UriOf(r) \in Strings
             /\ \A i \in UrlIdx(r) :
                  r.locations[i].var = "$URL" /\ r.locations[i].target = UriOf(r)
  <2>1. /\ UrlIdx(r) = {LastOf(UrlIdx(r))}
        /\ UriOf(r) = r.locations[LastOf(UrlIdx(r))].target
        /\ UriOf(r) \in Strings
    BY <1>1, <1>4, LastUrl DEF OneEach
  <2>2. \A i \in UrlIdx(r) : r.locations[i].target = UriOf(r)
    BY <2>1, Zenon
  <2>3. \A i \in UrlIdx(r) : r.locations[i].var = "$URL"
    BY DEF UrlIdx
  <2>. QED BY <2>1, <2>2, <2>3, Zenon
<1>. QED BY <1>2, <1>3, <1>4, Zenon DEF Located1

LEMMA KeyTuples ==
  ASSUME NEW x \in Strings, NEW y \in Strings
  PROVE  /\ <<x>> \in Key /\ <<"#", x>> \in Key
         /\ <<x, "#", y>> \in Key /\ <<"#", x, "#", y>> \in Key
<1>. DEFINE S == Strings \cup {"#"}
<1>1. x \in S /\ y \in S /\ "#" \in S
  OBVIOUS
<1>. HIDE DEF S
<1>2. /\ <<x>> \in Seq(S) /\ <<"#", x>> \in Seq(S)
      /\ <<x, "#", y>> \in Seq(S) /\ <<"#", x, "#", y>> \in Seq(S)
  BY <1>1
<1>. QED BY <1>2 DEF Key, S

\* The parts of a key and of what is asked for, by its length.
LEMMA KeyParts ==
  ASSUME NEW r, OneEach(r)
  PROVE  /\ fullname(r) \in Key
         /\ Len(fullname(r)) =
              IF UrlIdx(r) # {} /\ NamedIdx(r) # {}
              THEN IF "target_name" \in r.flags THEN 4 ELSE 3
              ELSE IF "target_name" \in r.flags THEN 2 ELSE 1
         /\ Len(fullname(r)) = 1 =>
              fullname(r)[1] = IF UrlIdx(r) # {} THEN UriOf(r) ELSE NameOf(r).target
         /\ Len(fullname(r)) = 2 =>
              /\ fullname(r)[1] = "#"
              /\ fullname(r)[2] = IF UrlIdx(r) # {} THEN UriOf(r) ELSE NameOf(r).target
         /\ Len(fullname(r)) = 3 =>
              /\ fullname(r)[1] = UriOf(r) /\ fullname(r)[2] = "#"
              /\ fullname(r)[3] = NameOf(r).target
         /\ Len(fullname(r)) = 4 =>
              /\ fullname(r)[1] = "#" /\ fullname(r)[2] = UriOf(r)
              /\ fullname(r)[3] = "#" /\ fullname(r)[4] = NameOf(r).target
<1>. DEFINE u == UriOf(r)
            n == NameOf(r).target
            k == fullname(r)
<1>1. /\ UrlIdx(r) # {} \/ NamedIdx(r) # {}
      /\ UrlIdx(r) # {} => u \in Strings
      /\ NamedIdx(r) # {} => n \in Strings
  BY WhatIsLocated
<1>2. k = IF "target_name" \in r.flags
          THEN IF UrlIdx(r) # {}
               THEN IF NamedIdx(r) # {} THEN <<"#", u, "#", n>> ELSE <<"#", u>>
               ELSE IF NamedIdx(r) # {} THEN <<"#", n>> ELSE <<"#">>
          ELSE IF UrlIdx(r) # {}
               THEN IF NamedIdx(r) # {} THEN <<u, "#", n>> ELSE <<u>>
               ELSE IF NamedIdx(r) # {} THEN <<n>> ELSE << >>
  BY KeyShape, Zenon
<1>. HIDE DEF u, n, k
<1>3. CASE UrlIdx(r) # {} /\ NamedIdx(r) # {}
  <2>1. k = IF "target_name" \in r.flags THEN <<"#", u, "#", n>> ELSE <<u, "#", n>>
    BY <1>2, <1>3, Zenon
  <2>2. k \in Key
    BY <1>1, <1>3, <2>1, KeyTuples, Zenon
  <2>3. "target_name" \in r.flags =>
          Len(k) = 4 /\ k[4] = n /\ k[2] = u /\ k[3] = "#" /\ k[1] = "#"
    BY <2>1
  <2>4. "target_name" \notin r.flags =>
          Len(k) = 3 /\ k[3] = n /\ k[1] = u /\ k[2] = "#"
    BY <2>1
  <2>5. CASE "target_name" \in r.flags
    BY <1>3, <2>2, <2>3, <2>5 DEF u, n, k
  <2>6. CASE "target_name" \notin r.flags
    BY <1>3, <2>2, <2>4, <2>6 DEF u, n, k
  <2>. QED BY <2>5, <2>6
<1>4. CASE UrlIdx(r) = {} \/ NamedIdx(r) = {}
  <2>. DEFINE x == IF UrlIdx(r) # {} THEN u ELSE n
  <2>1. k = IF "target_name" \in r.flags THEN <<"#", x>> ELSE <<x>>
    BY <1>1, <1>2, <1>4, Zenon
  <2>2. x \in Strings
    BY <1>1
  <2>. HIDE DEF x
  <2>3. k \in Key
    BY <2>1, <2>2, KeyTuples, Zenon
  <2>4. "target_name" \in r.flags => Len(k) = 2 /\ k[2] = x /\ k[1] = "#"
    BY <2>1
  <2>5. "target_name" \notin r.flags => Len(k) = 1 /\ k[1] = x
    BY <2>1
  <2>. QED BY <1>4, <2>3, <2>4, <2>5 DEF u, n, k, x
<1>. QED BY <1>3, <1>4

LEMMA AskedParts ==
  ASSUME NEW item \in Item, NEW step \in 2 .. 7
  PROVE  /\ AskedKey(item, step) \in Key
         /\ Len(AskedKey(item, step)) =
              IF step \in {2, 4, 5} THEN 1
              ELSE IF step \in {3, 6} THEN 2
                   ELSE IF item.target_name THEN 4 ELSE 3
         /\ step = 2 => AskedKey(item, step)[1] = item.name
         /\ step = 3 =>
              AskedKey(item, step)[1] = "#" /\ AskedKey(item, step)[2] = item.name
         /\ step \in {4, 5} => AskedKey(item, step)[1] = item.uri
         /\ step = 6 =>
              AskedKey(item, step)[1] = "#" /\ AskedKey(item, step)[2] = item.uri
         /\ step = 7 /\ item.target_name =>
              /\ AskedKey(item, step)[1] = "#" /\ AskedKey(item, step)[2] = item.uri
              /\ AskedKey(item, step)[3] = "#" /\ AskedKey(item, step)[4] = item.name
         /\ step = 7 /\ ~item.target_name =>
              /\ AskedKey(item, step)[1] = item.uri /\ AskedKey(item, step)[2] = "#"
              /\ AskedKey(item, step)[3] = item.name
<1>. DEFINE k == AskedKey(item, step)
            x == item.name
            u == item.uri
<1>1. x \in Strings /\ u \in Strings
  BY StringsAssumption DEF Item
<1>2. CASE step = 2
  <2>1. k = <<x>>
    BY <1>2 DEF AskedKey
  <2>. HIDE DEF k, x, u
  <2>2. k \in Key /\ Len(k) = 1 /\ k[1] = x
    BY <1>1, <2>1 DEF Key
  <2>. QED BY <1>2, <2>2 DEF k, x
<1>3. CASE step = 3
  <2>1. k = <<"#", x>>
    BY <1>3 DEF AskedKey
  <2>. HIDE DEF k, x, u
  <2>2. k \in Key /\ Len(k) = 2 /\ k[2] = x /\ k[1] = "#"
    BY <1>1, <2>1 DEF Key
  <2>. QED BY <1>3, <2>2 DEF k, x
<1>4. CASE step \in {4, 5}
  <2>1. k = <<u>>
    BY <1>4 DEF AskedKey
  <2>. HIDE DEF k, x, u
  <2>2. k \in Key /\ Len(k) = 1 /\ k[1] = u
    BY <1>1, <2>1 DEF Key
  <2>. QED BY <1>4, <2>2 DEF k, u
<1>5. CASE step = 6
  <2>1. k = <<"#", u>>
    BY <1>5 DEF AskedKey
  <2>. HIDE DEF k, x, u
  <2>2. k \in Key /\ Len(k) = 2 /\ k[2] = u /\ k[1] = "#"
    BY <1>1, <2>1 DEF Key
  <2>. QED BY <1>5, <2>2 DEF k, u
<1>6. CASE step = 7
  <2>1. k = IF item.target_name THEN <<"#", u, "#", x>> ELSE <<u, "#", x>>
    BY <1>6 DEF AskedKey
  <2>. HIDE DEF k, x, u
  <2>2. k \in Key
    BY <1>1, <2>1, KeyTuples, Zenon
  <2>3. item.target_name => Len(k) = 4 /\ k[4] = x /\ k[2] = u /\ k[3] = "#" /\ k[1] = "#"
    BY <2>1
  <2>4. ~item.target_name => Len(k) = 3 /\ k[3] = x /\ k[1] = u /\ k[2] = "#"
    BY <2>1
  <2>5. CASE item.target_name
    BY <1>6, <2>2, <2>3, <2>5 DEF k, x, u
  <2>6. CASE ~item.target_name
    BY <1>6, <2>2, <2>4, <2>6 DEF k, x, u
  <2>. QED BY <2>5, <2>6
<1>. QED BY <1>2, <1>3, <1>4, <1>5, <1>6

-----------------------------------------------------------------------------
(***************************************************************************)
(* What a whitelist exempts alone is what it says                          *)
(***************************************************************************)

\* The zone of a whitelist that has a location.
LEMMA WhichZone ==
  ASSUME NEW r \in Accepted, Cardinality(NamedIdx(r)) <= 1
  PROVE  /\ wlr_zone(r) = "ANY" <=> "any" \in r.flags
         /\ wlr_zone(r) \in {"ANY", "UNKNOWN"} \cup ZonesOf(r)
         /\ "any" \in r.flags => ZonesOf(r) = Zones
         /\ "any" \notin r.flags /\ ZonesOf(r) # {} => wlr_zone(r) \in ZonesOf(r)
         /\ "FILE_EXT" \in ZonesOf(r) => "BODY" \in ZonesOf(r)
         /\ wlr_zone(r) # "FILE_EXT"
<1>1. /\ r \in BasicRules
      /\ "any" \in r.flags => r.flags = FlagsOf("ANY") /\ NamedIdx(r) = {}
      /\ "file_ext" \in r.flags => "body" \in r.flags
      /\ \A i \in NamedIdx(r) : VarFlag(r.locations[i].var) \in r.flags
      /\ \A var \in Located \ {"$URL"} :
           VarFlag(var) \in r.flags => \E i \in NamedIdx(r) : r.locations[i].var = var
  BY Zenon DEF Accepted, Coherent
<1>2. CASE NamedIdx(r) # {}
  <2>. DEFINE v == NameOf(r).var
  <2>1. /\ NamedIdx(r) = {LastOf(NamedIdx(r))}
        /\ NameOf(r) = r.locations[LastOf(NamedIdx(r))]
        /\ NameOf(r) \in Location /\ v # "$URL"
    BY <1>1, <1>2, LastNamed
  <2>2. VarFlag(v) \in r.flags
    <3>1. LastOf(NamedIdx(r)) \in NamedIdx(r)
      BY <2>1, Zenon
    <3>. QED BY <1>1, <2>1, <3>1, Zenon
  <2>3. v \in {"$ARGS_VAR", "$BODY_VAR", "$HEADERS_VAR"}
    BY <2>1 DEF Location, Located
  <2>4. wlr_zone(r) = VarZone(v)
    BY <1>2, Zenon DEF wlr_zone
  <2>5. "any" \notin r.flags
    BY <1>1, <1>2
  <2>. HIDE DEF v
  <2>6. VarZone(v) \in ZonesOf(r) /\ VarZone(v) \in {"ARGS", "BODY", "HEADERS"}
    BY <2>2, <2>3 DEF VarZone, VarFlag, ZonesOf, Zones
  <2>7. "FILE_EXT" \in ZonesOf(r) => "BODY" \in ZonesOf(r)
    BY <1>1 DEF ZonesOf, Zones
  <2>. QED BY <2>4, <2>5, <2>6, <2>7
<1>3. CASE NamedIdx(r) = {}
  <2>1. r.flags \cap {"body_var", "args_var", "headers_var"} = {}
    <3>1. /\ VarFlag("$ARGS_VAR") = "args_var" /\ VarFlag("$BODY_VAR") = "body_var"
          /\ VarFlag("$HEADERS_VAR") = "headers_var"
      BY DEF VarFlag
    <3>2. \A var \in Located \ {"$URL"} : VarFlag(var) \notin r.flags
      BY <1>1, <1>3, Zenon
    <3>3. {"$ARGS_VAR", "$BODY_VAR", "$HEADERS_VAR"} \subseteq Located \ {"$URL"}
      BY DEF Located
    <3>. QED BY <3>1, <3>2, <3>3
  <2>2. wlr_zone(r) =
          IF "any" \in r.flags THEN "ANY"
          ELSE IF "body" \in r.flags THEN "BODY"
          ELSE IF "headers" \in r.flags THEN "HEADERS"
          ELSE IF "args" \in r.flags THEN "ARGS"
          ELSE IF "url" \in r.flags THEN "URL"
          ELSE IF "file_ext" \in r.flags THEN "FILE_EXT"
          ELSE "UNKNOWN"
    <3>1. r.flags \cap {"body", "body_var"} # {} <=> "body" \in r.flags
      BY <2>1
    <3>2. \A f : r.flags \cap {f} # {} <=> f \in r.flags
      OBVIOUS
    <3>. QED BY <1>3, <3>1, <3>2, Zenon DEF wlr_zone
  <2>3. ZonesOf(r) =
          {z \in Zones : CASE z = "HEADERS"  -> "headers" \in r.flags
                           [] z = "ARGS"     -> "args" \in r.flags
                           [] z = "BODY"     -> "body" \in r.flags
                           [] z = "URL"      -> "url" \in r.flags
                           [] z = "FILE_EXT" -> "file_ext" \in r.flags}
    BY <2>1 DEF ZonesOf, Zones
  <2>4. "any" \in r.flags =>
          /\ ZonesOf(r) = Zones
          /\ {"body", "headers", "args", "url", "file_ext"} \subseteq r.flags
    <3>1. "any" \in r.flags =>
            {"body", "headers", "args", "url", "file_ext"} \subseteq r.flags
      BY <1>1 DEF FlagsOf
    <3>. QED BY <2>3, <3>1 DEF Zones
  <2>5. CASE "any" \in r.flags
    BY <2>2, <2>4, <2>5 DEF Zones
  <2>6. CASE "any" \notin r.flags
    <3>1. /\ "HEADERS" \in ZonesOf(r) <=> "headers" \in r.flags
          /\ "ARGS" \in ZonesOf(r) <=> "args" \in r.flags
          /\ "BODY" \in ZonesOf(r) <=> "body" \in r.flags
          /\ "URL" \in ZonesOf(r) <=> "url" \in r.flags
          /\ "FILE_EXT" \in ZonesOf(r) <=> "file_ext" \in r.flags
      BY <2>3 DEF Zones
    <3>2. ZonesOf(r) \subseteq {"HEADERS", "ARGS", "BODY", "URL", "FILE_EXT"}
      BY DEF ZonesOf, Zones
    <3>. DEFINE S == ZonesOf(r)
                z == wlr_zone(r)
    <3>. HIDE DEF S, z
    <3>3. z \in {"BODY", "HEADERS", "ARGS", "URL", "UNKNOWN"}
      BY <1>1, <2>2, <2>6 DEF z
    <3>4. z \in {"UNKNOWN"} \cup S
      BY <1>1, <2>2, <2>6, <3>1 DEF z, S
    <3>5. S # {} => z # "UNKNOWN"
      BY <1>1, <2>2, <2>6, <3>1, <3>2 DEF z, S
    <3>6. "FILE_EXT" \in S => "BODY" \in S
      BY <1>1, <3>1 DEF S
    <3>. QED BY <2>6, <3>3, <3>4, <3>5, <3>6 DEF z, S
  <2>. QED BY <2>5, <2>6
<1>. QED BY <1>2, <1>3

\* A whitelist with plain locations that is clear.
ClearPlain(r) == OneEach(r) /\ ~r.rx_mz /\ Clear(r)

\* The name and the URL of the item are those of a whitelist it has fetched.
Fetched(r, item) ==
  /\ UrlIdx(r) # {} => lower[item.uri] = lower[UriOf(r)]
  /\ NamedIdx(r) # {} => lower[item.name] = lower[NameOf(r).target]

LEMMA TargetsAreClear ==
  ASSUME NEW r, ClearPlain(r)
  PROVE  /\ UrlIdx(r) # {} => UriOf(r) \in Uris
         /\ NamedIdx(r) # {} => NameOf(r).target \in Strings \ (Uris \cup {""})
<1>1. /\ Located1(r, UriOf(r), NameOf(r).target)
      /\ UrlIdx(r) # {} => UriOf(r) \in Strings
      /\ NamedIdx(r) # {} => NameOf(r).target \in Strings
  BY WhatIsLocated DEF ClearPlain
<1>2. \A i \in DOMAIN r.locations :
        /\ r.locations[i].target # ""
        /\ r.locations[i].target \in Uris <=> i \in UrlIdx(r)
  BY Zenon DEF ClearPlain, Clear
<1>3. /\ UrlIdx(r) \subseteq DOMAIN r.locations /\ NamedIdx(r) \subseteq DOMAIN r.locations
      /\ UrlIdx(r) \cap NamedIdx(r) = {}
  BY DEF UrlIdx, NamedIdx
<1>. QED BY <1>1, <1>2, <1>3 DEF Located1

LEMMA AdaptedTo ==
  ASSUME NEW r, NEW item, NEW type, is_whitelist_adapted(fresh(r), item, type)
  PROVE  /\ ("target_name" \in r.flags) = item.target_name
         /\ wlr_zone(r) \in {"ANY", IF item.zone = "FILE_EXT" THEN "BODY" ELSE item.zone}
            \/ type \notin {"NAME_ONLY", "URI_ONLY", "MIXED"}
         /\ type = "NAME_ONLY" /\ NamedIdx(r) = {} => wlr_zone(r) = "ANY"
         /\ nx_check_ids(item.rule_id, r.ids)
<1>1. /\ fresh(r).target_name = ("target_name" \in r.flags)
      /\ fresh(r).zone = wlr_zone(r) /\ fresh(r).ids = r.ids
      /\ fresh(r).uri_only <=> NamedIdx(r) = {}
  BY DEF fresh
<1>. DEFINE b == fresh(r)
<1>. HIDE DEF b
<1>2. /\ b.target_name = item.target_name /\ nx_check_ids(item.rule_id, b.ids)
      /\ type = "NAME_ONLY" =>
           \/ b.zone = "ANY"
           \/ b.zone = (IF item.zone = "FILE_EXT" THEN "BODY" ELSE item.zone) /\ ~b.uri_only
      /\ type \in {"URI_ONLY", "MIXED"} =>
           b.zone \in {"ANY", IF item.zone = "FILE_EXT" THEN "BODY" ELSE item.zone}
  BY DEF is_whitelist_adapted, b
<1>. QED BY <1>1, <1>2 DEF b

LEMMA CandidateFetched ==
  ASSUME NEW r, ClearPlain(r), NEW item \in Item, NEW step \in 2 .. 7,
         Answers(fresh(r), item, step), "any" \in r.flags => item.name \notin Uris
  PROVE  Fetched(r, item)
<1>. DEFINE k == fullname(r)
            q == AskedKey(item, step)
            u == UriOf(r)
            n == NameOf(r).target
<1>1. r \in Accepted /\ Cardinality(NamedIdx(r)) <= 1 /\ OneEach(r)
  BY DEF ClearPlain, OneEach
<1>2. lower_key(k) = lower_key(q)
  BY DEF Answers, Candidate, fresh
<1>3. k \in Key /\ q \in Key
  BY <1>1, KeyParts, AskedParts
<1>4. Len(k) = Len(q) /\ \A i \in 1 .. Len(k) : k[i] # "#" => lower[k[i]] = lower[q[i]]
  BY <1>2, <1>3, LowerKeys
<1>5. /\ UrlIdx(r) # {} \/ NamedIdx(r) # {}
      /\ UrlIdx(r) # {} => u \in Uris /\ u # "#"
      /\ NamedIdx(r) # {} => n \in Strings \ Uris /\ n # "#"
  <2>1. Uris \subseteq Strings /\ "#" \notin Strings
    BY StringsAssumption, WhitelistAssumption, Zenon
  <2>. QED BY <1>1, <2>1, TargetsAreClear, WhatIsLocated DEF ClearPlain
<1>6. item.uri \in Uris /\ item.name \in Strings
  BY DEF Item
<1>7. \A s, t \in Strings : lower[s] = lower[t] => (s \in Uris <=> t \in Uris)
  BY StringsAssumption, Zenon
<1>8. Uris \subseteq Strings
  BY StringsAssumption, Zenon
<1>9. step \in {2, 3} /\ NamedIdx(r) = {} => item.name \notin Uris
  <2>1. is_whitelist_adapted(fresh(r), item, AskedType(step))
    BY DEF Answers
  <2>2. step \in {2, 3} => AskedType(step) = "NAME_ONLY"
    BY DEF AskedType
  <2>. QED BY <1>1, <2>1, <2>2, AdaptedTo, WhichZone
<1>10. Len(k) = IF UrlIdx(r) # {} /\ NamedIdx(r) # {}
                THEN IF "target_name" \in r.flags THEN 4 ELSE 3
                ELSE IF "target_name" \in r.flags THEN 2 ELSE 1
  BY <1>1, KeyParts, Zenon
<1>11. CASE UrlIdx(r) # {} /\ NamedIdx(r) # {}
  <2>1. Len(k) \in {3, 4}
    BY <1>10, <1>11
  <2>2. step = 7 /\ (item.target_name <=> Len(k) = 4)
    BY <1>4, <2>1, AskedParts, SMTT(30)
  <2>3. CASE Len(k) = 4
    <3>1. k[2] = u /\ k[4] = n /\ q[2] = item.uri /\ q[4] = item.name
      BY <1>1, <2>2, <2>3, KeyParts, AskedParts
    <3>. QED BY <1>4, <1>5, <1>11, <2>3, <3>1 DEF Fetched
  <2>4. CASE Len(k) = 3
    <3>1. k[1] = u /\ k[3] = n /\ q[1] = item.uri /\ q[3] = item.name
      BY <1>1, <2>2, <2>4, KeyParts, AskedParts
    <3>. QED BY <1>4, <1>5, <1>11, <2>4, <3>1 DEF Fetched
  <2>. QED BY <2>1, <2>3, <2>4
<1>12. CASE UrlIdx(r) = {} \/ NamedIdx(r) = {}
  <2>. DEFINE x == IF UrlIdx(r) # {} THEN u ELSE n
              y == IF step \in {2, 3} THEN item.name ELSE item.uri
  <2>1. Len(k) \in {1, 2}
    BY <1>10, <1>12
  <2>2. step \in 2 .. 6
    BY <1>4, <2>1, AskedParts, SMTT(30)
  <2>3. lower[x] = lower[y]
    <3>1. x # "#"
      BY <1>5
    <3>2. CASE Len(k) = 1
      <4>1. k[1] = x /\ q[1] = y
        <5>1. k[1] = x
          BY <1>1, <3>2, KeyParts
        <5>2. step \in {2, 4, 5}
          <6>1. Len(q) = IF step \in {2, 4, 5} THEN 1
                         ELSE IF step \in {3, 6} THEN 2
                              ELSE IF item.target_name THEN 4 ELSE 3
            BY AskedParts, Zenon
          <6>2. Len(q) = 1
            BY <1>4, <3>2, Zenon
          <6>3. step \in {2, 4, 5} \/ step \in {3, 6}
            BY <2>2
          <6>. QED BY <6>1, <6>2, <6>3
        <5>3. q[1] = y
          BY <5>2, AskedParts
        <5>. QED BY <5>1, <5>3
      <4>. HIDE DEF x, y
      <4>. QED BY <1>4, <3>1, <3>2, <4>1
    <3>3. CASE Len(k) = 2
      <4>1. k[2] = x /\ q[2] = y
        <5>1. k[2] = x
          BY <1>1, <3>3, KeyParts
        <5>2. step \in {3, 6}
          <6>1. Len(q) = IF step \in {2, 4, 5} THEN 1
                         ELSE IF step \in {3, 6} THEN 2
                              ELSE IF item.target_name THEN 4 ELSE 3
            BY AskedParts, Zenon
          <6>2. Len(q) = 2
            BY <1>4, <3>3, Zenon
          <6>3. step \in {2, 4, 5} \/ step \in {3, 6}
            BY <2>2
          <6>. QED BY <6>1, <6>2, <6>3
        <5>3. q[2] = y
          BY <5>2, AskedParts
        <5>. QED BY <5>1, <5>3
      <4>. HIDE DEF x, y
      <4>. QED BY <1>4, <3>1, <3>3, <4>1
    <3>. QED BY <2>1, <3>2, <3>3
  <2>4. x \in Strings /\ y \in Strings
    BY <1>5, <1>6, <1>8
  <2>5. x \in Uris <=> y \in Uris
    BY <1>7, <2>3, <2>4
  <2>6. CASE NamedIdx(r) = {}
    BY <1>5, <1>9, <2>3, <2>5, <2>6 DEF Fetched
  <2>7. CASE NamedIdx(r) # {}
    BY <1>5, <1>6, <1>12, <2>3, <2>5, <2>7 DEF Fetched
  <2>. QED BY <2>6, <2>7
<1>. QED BY <1>11, <1>12

\* A whitelist create_hashtables has taken.
Taken(r) ==
  r \in Accepted /\ (r.locations # << >> => Cardinality(NamedIdx(r)) <= 1)

LEMMA TakenClear ==
  ASSUME NEW r, Taken(r), Clear(r), Plain(r)
  PROVE  ClearPlain(r)
BY DEF Taken, Clear, Plain, ClearPlain, OneEach

\* A whitelist without location has no flag of a named variable.
LEMMA NoVarFlag ==
  ASSUME NEW r \in Accepted, r.locations = << >>
  PROVE  r.flags \cap {"body_var", "args_var", "headers_var"} = {}
<1>1. \A var \in Located \ {"$URL"} :
        VarFlag(var) \in r.flags => \E i \in NamedIdx(r) : r.locations[i].var = var
  BY Zenon DEF Accepted, Coherent
<1>2. NamedIdx(r) = {}
  BY DEF NamedIdx
<1>3. /\ VarFlag("$ARGS_VAR") = "args_var" /\ VarFlag("$BODY_VAR") = "body_var"
      /\ VarFlag("$HEADERS_VAR") = "headers_var"
  BY DEF VarFlag
<1>4. {"$ARGS_VAR", "$BODY_VAR", "$HEADERS_VAR"} \subseteq Located \ {"$URL"}
  BY DEF Located
<1>. QED BY <1>1, <1>2, <1>3, <1>4

LEMMA TheirZones ==
  ASSUME NEW r
  PROVE  /\ ZonesOf(r) \subseteq Zones
         /\ "HEADERS" \in ZonesOf(r) <=> r.flags \cap {"headers", "headers_var"} # {}
         /\ "ARGS" \in ZonesOf(r) <=> r.flags \cap {"args", "args_var"} # {}
         /\ "BODY" \in ZonesOf(r) <=> r.flags \cap {"body", "body_var"} # {}
         /\ "URL" \in ZonesOf(r) <=> "url" \in r.flags
         /\ "FILE_EXT" \in ZonesOf(r) <=> "file_ext" \in r.flags
BY DEF ZonesOf, Zones

\* What a disabled rule says of an item's zone.
DisabledIn(r, zone) ==
  \/ zone = "ARGS" /\ "args" \in r.flags
  \/ zone = "HEADERS" /\ "headers" \in r.flags
  \/ zone = "BODY" /\ "body" \in r.flags
  \/ zone = "FILE_EXT" /\ "file_ext" \in r.flags
  \/ zone = "URL" /\ "url" \in r.flags

LEMMA DisabledRule ==
  ASSUME NEW r, NEW item \in Item
  PROVE  disabled(r, item) <=>
           /\ nx_check_ids(item.rule_id, r.ids)
           /\ \/ r.flags \cap {"args", "headers", "body", "url"} = {}
              \/ /\ ("target_name" \in r.flags) = item.target_name
                 /\ DisabledIn(r, item.zone)
<1>1. item.zone \in {"HEADERS", "URL", "ARGS", "BODY", "FILE_EXT"}
  BY DEF Item, Zones
<1>. QED BY <1>1 DEF disabled, DisabledIn

LEMMA ZonesWithoutLocation ==
  ASSUME NEW r \in Accepted, r.locations = << >>, NEW zone \in Zones
  PROVE  /\ zone \in ZonesOf(r) <=> DisabledIn(r, zone)
         /\ ZonesOf(r) # {} => r.flags \cap {"args", "headers", "body", "url"} # {}
<1>1. r.flags \cap {"body_var", "args_var", "headers_var"} = {}
  BY NoVarFlag
<1>2. "file_ext" \in r.flags => "body" \in r.flags
  BY Zenon DEF Accepted, Coherent
<1>3. zone \in {"HEADERS", "URL", "ARGS", "BODY", "FILE_EXT"}
  BY DEF Zones
<1>4. zone \in ZonesOf(r) <=> DisabledIn(r, zone)
  BY <1>1, <1>3, TheirZones DEF DisabledIn
<1>5. ASSUME ZonesOf(r) # {}
      PROVE  r.flags \cap {"args", "headers", "body", "url"} # {}
  <2>1. PICK z \in Zones : z \in ZonesOf(r)
    BY <1>5, TheirZones
  <2>2. z \in {"HEADERS", "URL", "ARGS", "BODY", "FILE_EXT"}
    BY DEF Zones
  <2>. QED BY <1>1, <1>2, <2>1, <2>2, TheirZones
<1>. QED BY <1>4, <1>5

\* Alone, a whitelist exempts nothing that it does not name.
LEMMA ExemptsWhatItNames ==
  ASSUME NEW r, Taken(r), Clear(r), ~r.rx_mz, NEW item \in Item,
         "any" \in r.flags /\ r.locations # << >> => item.name \notin Uris,
         FilesApart(r, item), Exempts(r, item)
  PROVE  Names(r, item)
<1>1. item.zone \in Zones
  BY DEF Item
<1>2. CASE r.locations = << >>
  <2>1. /\ nx_check_ids(item.rule_id, r.ids)
        /\ \/ r.flags \cap {"args", "headers", "body", "url"} = {}
           \/ /\ ("target_name" \in r.flags) = item.target_name
              /\ DisabledIn(r, item.zone)
    BY <1>2, DisabledRule DEF Exempts
  <2>2. /\ item.zone \in ZonesOf(r) <=> DisabledIn(r, item.zone)
        /\ ZonesOf(r) # {} => r.flags \cap {"args", "headers", "body", "url"} # {}
    BY <1>1, <1>2, ZonesWithoutLocation DEF Taken
  <2>3. r.flags = {} \/ ZonesOf(r) # {}
    BY Zenon DEF Clear
  <2>4. r.flags # {} =>
          ("target_name" \in r.flags) = item.target_name /\ item.zone \in ZonesOf(r)
    BY <2>1, <2>2, <2>3
  <2>5. DOMAIN r.locations = {}
    BY <1>2
  <2>. QED BY <1>1, <2>1, <2>4, <2>5 DEF Names
<1>3. CASE r.locations # << >>
  <2>1. PICK step \in 2 .. 7 : Asks(item, step) /\ Answers(fresh(r), item, step)
    BY <1>3, Zenon DEF Exempts
  <2>2. ClearPlain(r)
    BY <1>3, TakenClear DEF Plain
  <2>3. Fetched(r, item)
    BY <1>3, <2>1, <2>2, CandidateFetched
  <2>4. is_whitelist_adapted(fresh(r), item, AskedType(step))
    BY <2>1 DEF Answers
  <2>5. AskedType(step) \in {"NAME_ONLY", "URI_ONLY", "MIXED"}
    BY DEF AskedType
  <2>6. /\ ("target_name" \in r.flags) = item.target_name
        /\ wlr_zone(r) \in {"ANY", IF item.zone = "FILE_EXT" THEN "BODY" ELSE item.zone}
        /\ nx_check_ids(item.rule_id, r.ids)
    BY <2>4, <2>5, AdaptedTo
  <2>7. item.zone \in ZonesOf(r)
    <3>1. r \in Accepted /\ Cardinality(NamedIdx(r)) <= 1
      BY <1>3 DEF Taken
    <3>2. CASE wlr_zone(r) = "ANY"
      <4>1. ZonesOf(r) = Zones
        BY <3>1, <3>2, WhichZone
      <4>. QED BY <1>1, <4>1
    <3>3. CASE wlr_zone(r) # "ANY"
      <4>1. wlr_zone(r) # "UNKNOWN"
        BY <1>1, <2>6, <3>3 DEF Zones
      <4>2. wlr_zone(r) \in ZonesOf(r)
        BY <3>1, <3>3, <4>1, WhichZone
      <4>3. CASE item.zone = "FILE_EXT"
        <5>1. "file_ext" \in r.flags
          BY <1>3, <2>6, <3>3, <4>2, <4>3 DEF FilesApart
        <5>. QED BY <4>3, <5>1 DEF ZonesOf, Zones
      <4>4. CASE item.zone # "FILE_EXT"
        BY <2>6, <3>3, <4>2, <4>4
      <4>. QED BY <4>3, <4>4
    <3>. QED BY <3>2, <3>3
  <2>8. ASSUME NEW i \in DOMAIN r.locations
        PROVE  IF r.locations[i].var = "$URL"
               THEN Fits(r, r.locations[i].target, item.uri)
               ELSE Fits(r, r.locations[i].target, item.name)
    <3>1. Located1(r, UriOf(r), NameOf(r).target)
      BY <2>2, WhatIsLocated DEF ClearPlain
    <3>2. CASE i \in UrlIdx(r)
      <4>1. r.locations[i].var = "$URL" /\ r.locations[i].target = UriOf(r)
        BY <3>1, <3>2, Zenon DEF Located1
      <4>. QED BY <2>3, <3>2, <4>1 DEF Fetched, Fits
    <3>3. CASE i \in NamedIdx(r)
      <4>1. r.locations[i].var # "$URL" /\ r.locations[i].target = NameOf(r).target
        BY <3>1, <3>3, Zenon DEF Located1
      <4>. QED BY <2>3, <3>3, <4>1 DEF Fetched, Fits
    <3>. QED BY <3>1, <3>2, <3>3, Zenon DEF Located1
  <2>. QED BY <2>6, <2>7, <2>8, Zenon DEF Names
<1>. QED BY <1>2, <1>3

\* A whitelist whose name and URL are the item's, of its zone, is found.
LEMMA FetchedAnswers ==
  ASSUME NEW r, ClearPlain(r), NEW item \in Item, Fetched(r, item),
         ("target_name" \in r.flags) = item.target_name,
         wlr_zone(r) \in {IF item.zone = "FILE_EXT" THEN "BODY" ELSE item.zone, "ANY"},
         NamedIdx(r) # {} =>
           wlr_zone(r) = (IF item.zone = "FILE_EXT" THEN "BODY" ELSE item.zone),
         nx_check_ids(item.rule_id, r.ids)
  PROVE  \E step \in 2 .. 7 : Asks(item, step) /\ Answers(fresh(r), item, step)
<1>. DEFINE step == IF UrlIdx(r) = {}
                    THEN IF "target_name" \in r.flags THEN 3 ELSE 2
                    ELSE IF NamedIdx(r) # {} THEN 7
                         ELSE IF "target_name" \in r.flags THEN 6 ELSE 5
            k == fullname(r)
            q == AskedKey(item, step)
            u == UriOf(r)
            n == NameOf(r).target
<1>1. OneEach(r) /\ (UrlIdx(r) # {} \/ NamedIdx(r) # {})
  BY WhatIsLocated DEF ClearPlain
<1>2. /\ UrlIdx(r) # {} => u \in Strings /\ u # "#"
      /\ NamedIdx(r) # {} => n \in Strings /\ n # "" /\ n # "#"
  <2>1. Uris \subseteq Strings /\ "#" \notin Strings
    BY StringsAssumption, WhitelistAssumption, Zenon
  <2>. QED BY <2>1, TargetsAreClear
<1>3. item.uri \in Strings /\ item.name \in Strings /\ item.uri # "#" /\ item.name # "#"
  <2>1. Uris \subseteq Strings /\ "#" \notin Strings
    BY StringsAssumption, WhitelistAssumption, Zenon
  <2>. QED BY <2>1 DEF Item
<1>0. "target_name" \in r.flags <=> item.target_name
  BY DEF Item
<1>4. /\ step \in 2 .. 7
      /\ step \in {2, 3} => NamedIdx(r) # {} /\ UrlIdx(r) = {}
      /\ UrlIdx(r) # {} /\ NamedIdx(r) # {} <=> step = 7
      /\ step \in 4 .. 6 => NamedIdx(r) = {}
      /\ step # 4
      /\ UrlIdx(r) = {} => step = IF "target_name" \in r.flags THEN 3 ELSE 2
      /\ UrlIdx(r) # {} /\ NamedIdx(r) = {} =>
           step = IF "target_name" \in r.flags THEN 6 ELSE 5
  BY <1>1
<1>. HIDE DEF step
<1>5. Asks(item, step)
  <2>1. \A s, t \in Strings : lower[s] = lower[t] => (s = "" <=> t = "")
    BY StringsAssumption, Zenon
  <2>2. NamedIdx(r) # {} => item.name # ""
    BY <1>2, <1>3, <2>1 DEF Fetched
  <2>. QED BY <1>4, <2>2 DEF Asks
<1>6. k \in Key /\ q \in Key
  BY <1>1, <1>4, KeyParts, AskedParts
<1>7. lower_key(k) = lower_key(q)
  <2>1. Len(k) = IF UrlIdx(r) # {} /\ NamedIdx(r) # {}
                 THEN IF "target_name" \in r.flags THEN 4 ELSE 3
                 ELSE IF "target_name" \in r.flags THEN 2 ELSE 1
    BY <1>1, KeyParts, Zenon
  <2>2. Len(q) = IF step \in {2, 4, 5} THEN 1
                 ELSE IF step \in {3, 6} THEN 2
                      ELSE IF item.target_name THEN 4 ELSE 3
    BY <1>4, AskedParts, Zenon
  <2>3. CASE UrlIdx(r) # {} /\ NamedIdx(r) # {} /\ "target_name" \in r.flags
    <3>1. step = 7 /\ Len(k) = 4 /\ Len(q) = 4 /\ item.target_name
      BY <1>0, <1>4, <2>1, <2>2, <2>3
    <3>2. k[1] = "#" /\ k[2] = u /\ k[3] = "#" /\ k[4] = n
      BY <1>1, <3>1, KeyParts
    <3>3. q[1] = "#" /\ q[2] = item.uri /\ q[3] = "#" /\ q[4] = item.name
      BY <3>1, AskedParts
    <3>4. \A i \in 1 .. 4 : i \in {1, 2, 3, 4}
      OBVIOUS
    <3>5. /\ lower[item.uri] = lower[u] /\ u # "#"
          /\ lower[item.name] = lower[n] /\ n # "#"
      BY <1>2, <2>3 DEF Fetched
    <3>. HIDE DEF k, q, u, n
    <3>6. \A i \in 1 .. Len(k) : /\ k[i] = "#" <=> q[i] = "#"
                                 /\ k[i] # "#" => lower[k[i]] = lower[q[i]]
      BY <1>3, <3>1, <3>2, <3>3, <3>4, <3>5
    <3>. QED BY <1>6, <3>1, <3>6, LowerKeys
  <2>4. CASE UrlIdx(r) # {} /\ NamedIdx(r) # {} /\ "target_name" \notin r.flags
    <3>1. step = 7 /\ Len(k) = 3 /\ Len(q) = 3 /\ ~item.target_name
      BY <1>0, <1>4, <2>1, <2>2, <2>4
    <3>2. k[1] = u /\ k[2] = "#" /\ k[3] = n
      BY <1>1, <3>1, KeyParts
    <3>3. q[1] = item.uri /\ q[2] = "#" /\ q[3] = item.name
      BY <3>1, AskedParts
    <3>4. \A i \in 1 .. 3 : i \in {1, 2, 3}
      OBVIOUS
    <3>5. /\ lower[item.uri] = lower[u] /\ u # "#"
          /\ lower[item.name] = lower[n] /\ n # "#"
      BY <1>2, <2>4 DEF Fetched
    <3>. HIDE DEF k, q, u, n
    <3>6. \A i \in 1 .. Len(k) : /\ k[i] = "#" <=> q[i] = "#"
                                 /\ k[i] # "#" => lower[k[i]] = lower[q[i]]
      BY <1>3, <3>1, <3>2, <3>3, <3>4, <3>5
    <3>. QED BY <1>6, <3>1, <3>6, LowerKeys
  <2>5. CASE ~(UrlIdx(r) # {} /\ NamedIdx(r) # {}) /\ "target_name" \in r.flags
    <3>. DEFINE x == IF UrlIdx(r) # {} THEN u ELSE n
                y == IF UrlIdx(r) # {} THEN item.uri ELSE item.name
    <3>1. step = (IF UrlIdx(r) # {} THEN 6 ELSE 3) /\ Len(k) = 2
      BY <1>1, <1>4, <2>1, <2>5
    <3>2. k[1] = "#" /\ k[2] = x
      BY <1>1, <3>1, KeyParts
    <3>3. Len(q) = 2 /\ q[1] = "#" /\ q[2] = y
      BY <3>1, AskedParts
    <3>4. \A i \in 1 .. 2 : i \in {1, 2}
      OBVIOUS
    <3>5. lower[x] = lower[y] /\ x # "#" /\ y # "#"
      BY <1>1, <1>2, <1>3 DEF Fetched
    <3>. HIDE DEF k, q, x, y
    <3>. QED BY <1>6, <3>1, <3>2, <3>3, <3>4, <3>5, LowerKeys
  <2>6. CASE ~(UrlIdx(r) # {} /\ NamedIdx(r) # {}) /\ "target_name" \notin r.flags
    <3>. DEFINE x == IF UrlIdx(r) # {} THEN u ELSE n
                y == IF UrlIdx(r) # {} THEN item.uri ELSE item.name
    <3>1. step = (IF UrlIdx(r) # {} THEN 5 ELSE 2) /\ Len(k) = 1
      BY <1>1, <1>4, <2>1, <2>6
    <3>2. k[1] = x
      BY <1>1, <3>1, KeyParts
    <3>3. Len(q) = 1 /\ q[1] = y
      BY <3>1, AskedParts
    <3>4. \A i \in 1 .. 1 : i = 1
      OBVIOUS
    <3>5. lower[x] = lower[y] /\ x # "#" /\ y # "#"
      BY <1>1, <1>2, <1>3 DEF Fetched
    <3>. HIDE DEF k, q, x, y
    <3>. QED BY <1>6, <3>1, <3>2, <3>3, <3>4, <3>5, LowerKeys
  <2>. QED BY <2>3, <2>4, <2>5, <2>6
<1>8. Candidate(fresh(r), item, step)
  <2>1. wlr_zone(r) \in TableOf(AskedZone(item, step))
    BY <1>4 DEF TableOf, AskedZone
  <2>. QED BY <1>7, <2>1 DEF Candidate, fresh
<1>9. is_whitelist_adapted(fresh(r), item, AskedType(step))
  <2>. DEFINE b == fresh(r)
  <2>1. /\ b.target_name = ("target_name" \in r.flags)
        /\ b.zone = wlr_zone(r) /\ b.ids = r.ids
        /\ b.uri_only = (NamedIdx(r) = {})
    BY DEF fresh
  <2>2. /\ AskedType(step) = "NAME_ONLY" <=> step \in {2, 3}
        /\ AskedType(step) = "URI_ONLY" <=> step \in 4 .. 6
        /\ AskedType(step) = "MIXED" <=> step = 7
    BY <1>4 DEF AskedType
  <2>3. b.target_name = item.target_name /\ nx_check_ids(item.rule_id, b.ids)
    BY <2>1
  <2>. HIDE DEF b
  <2>4. CASE step \in {2, 3}
    <3>1. ~b.uri_only /\ AskedType(step) = "NAME_ONLY"
      BY <1>4, <2>1, <2>2, <2>4
    <3>. QED BY <1>4, <2>1, <2>3, <2>4, <3>1 DEF is_whitelist_adapted, b
  <2>5. CASE step \in 4 .. 6
    <3>1. AskedType(step) = "URI_ONLY"
      BY <2>2, <2>5
    <3>. QED BY <2>1, <2>3, <3>1 DEF is_whitelist_adapted, b
  <2>6. CASE step = 7
    <3>1. ~b.uri_only /\ AskedType(step) = "MIXED"
      BY <1>4, <2>1, <2>2, <2>6
    <3>. QED BY <2>1, <2>3, <3>1 DEF is_whitelist_adapted, b
  <2>. QED BY <1>4, <2>4, <2>5, <2>6
<1>. QED BY <1>4, <1>5, <1>8, <1>9 DEF Answers

\* To compile the locations of a whitelist changes nothing else of it.
LEMMA CompiledRule ==
  ASSUME NEW r \in Accepted
  PROVE  /\ compiled(r) \in Accepted
         /\ compiled(r).flags = r.flags /\ compiled(r).ids = r.ids
         /\ NamedIdx(compiled(r)) = NamedIdx(r)
         /\ DOMAIN compiled(r).locations = DOMAIN r.locations
         /\ \A i \in DOMAIN r.locations :
              /\ compiled(r).locations[i].var = r.locations[i].var
              /\ compiled(r).locations[i].target = r.locations[i].target
<1>. DEFINE c == compiled(r)
            Turned(i) == (NamedIdx(r) # {} /\ i = LastOf(NamedIdx(r)))
                         \/ (UrlIdx(r) # {} /\ i = LastOf(UrlIdx(r)))
            locs == [i \in DOMAIN r.locations |->
                       IF Turned(i) THEN [r.locations[i] EXCEPT !.target_rx = TRUE]
                       ELSE r.locations[i]]
<1>1. r \in BasicRules /\ ~r.refused /\ Coherent(r) /\ (r.flags = {} => r.locations = << >>)
  BY DEF Accepted
<1>2. /\ DOMAIN r.locations = 1 .. Len(r.locations) /\ Len(r.locations) \in Nat
      /\ \A i \in DOMAIN r.locations : r.locations[i] \in Location
  <2>1. r.locations \in Seq(Location)
    BY <1>1 DEF BasicRules
  <2>. QED BY <2>1, SeqFacts, Zenon
<1>3. c = [r EXCEPT !.locations = locs]
  BY <1>1, Zenon DEF compiled, BasicRules
<1>. HIDE DEF Turned
<1>4. ASSUME NEW i \in DOMAIN r.locations
      PROVE  /\ locs[i] \in Location
             /\ locs[i].var = r.locations[i].var
             /\ locs[i].target = r.locations[i].target
  <2>1. r.locations[i] \in Location
    BY <1>2
  <2>2. locs[i] = IF Turned(i) THEN [r.locations[i] EXCEPT !.target_rx = TRUE]
                  ELSE r.locations[i]
    OBVIOUS
  <2>. HIDE DEF locs
  <2>. QED BY <2>1, <2>2 DEF Location
<1>5. locs \in Seq(Location) /\ DOMAIN locs = DOMAIN r.locations
  <2>1. DOMAIN locs = 1 .. Len(r.locations)
    BY <1>2
  <2>2. locs = [i \in 1 .. Len(r.locations) |-> locs[i]]
    BY <1>2, Zenon
  <2>. HIDE DEF locs
  <2>3. \A i \in 1 .. Len(r.locations) : locs[i] \in Location
    BY <1>2, <1>4
  <2>. QED BY <1>2, <2>1, <2>2, <2>3
<1>. HIDE DEF locs
<1>6. /\ c \in BasicRules /\ c.locations = locs /\ c.flags = r.flags /\ c.ids = r.ids
      /\ c.refused = r.refused
  BY <1>1, <1>3, <1>5 DEF BasicRules
<1>. HIDE DEF c
<1>7. NamedIdx(c) = NamedIdx(r)
  BY <1>4, <1>5, <1>6 DEF NamedIdx
<1>8. NamedIdx(r) \subseteq DOMAIN r.locations
  BY DEF NamedIdx
<1>9. Coherent(c)
  <2>1. \A i \in NamedIdx(r) : c.locations[i].var = r.locations[i].var
    BY <1>4, <1>6, <1>8
  <2>2. /\ "any" \in r.flags => r.flags = FlagsOf("ANY") /\ NamedIdx(r) = {}
        /\ "file_ext" \in r.flags => "body" \in r.flags
        /\ \A i \in NamedIdx(r) : VarFlag(r.locations[i].var) \in r.flags
        /\ \A var \in Located \ {"$URL"} :
             VarFlag(var) \in r.flags => \E i \in NamedIdx(r) : r.locations[i].var = var
    BY <1>1, Zenon DEF Coherent
  <2>. QED BY <1>6, <1>7, <2>1, <2>2, Zenon DEF Coherent
<1>10. r.flags = {} => c.locations = << >>
  <2>1. r.flags = {} => Len(r.locations) = 0
    BY <1>1
  <2>2. ASSUME r.flags = {} PROVE locs = << >>
    <3>1. DOMAIN locs = {} /\ locs \in Seq(Location)
      BY <1>2, <1>5, <2>1, <2>2
    <3>. QED BY <3>1, SeqFacts
  <2>. QED BY <1>6, <2>2
<1>11. c \in Accepted
  BY <1>1, <1>6, <1>9, <1>10 DEF Accepted
<1>. QED BY <1>4, <1>5, <1>6, <1>7, <1>11 DEF c

\* What a whitelist names it exempts alone.
LEMMA NamedIsExempt ==
  ASSUME NEW r, Taken(r), Clear(r), ~("any" \in r.flags /\ r.rx_mz),
         NEW item \in Item, Names(r, item)
  PROVE  Exempts(r, item)
<1>1. /\ nx_check_ids(item.rule_id, r.ids)
      /\ r.flags # {} =>
           ("target_name" \in r.flags) = item.target_name /\ item.zone \in ZonesOf(r)
      /\ \A i \in DOMAIN r.locations :
           IF r.locations[i].var = "$URL"
           THEN Fits(r, r.locations[i].target, item.uri)
           ELSE Fits(r, r.locations[i].target, item.name)
  BY Zenon DEF Names
<1>2. /\ r \in Accepted /\ r \in BasicRules
      /\ r.locations # << >> => Cardinality(NamedIdx(r)) <= 1 /\ r.flags # {}
      /\ item.zone \in Zones
  BY DEF Taken, Accepted, Item
<1>3. CASE r.locations = << >>
  <2>1. item.zone \in ZonesOf(r) => DisabledIn(r, item.zone)
    BY <1>2, <1>3, ZonesWithoutLocation
  <2>2. r.flags \cap {"args", "headers", "body", "url"} = {} \/ r.flags # {}
    OBVIOUS
  <2>. QED BY <1>1, <1>3, <2>1, <2>2, DisabledRule DEF Exempts
<1>4. CASE r.locations # << >> /\ r.rx_mz
  <2>. DEFINE c == compiled(r)
  <2>1. /\ c \in Accepted /\ c.flags = r.flags /\ c.ids = r.ids
        /\ NamedIdx(c) = NamedIdx(r) /\ DOMAIN c.locations = DOMAIN r.locations
        /\ \A i \in DOMAIN r.locations :
             /\ c.locations[i].var = r.locations[i].var
             /\ c.locations[i].target = r.locations[i].target
    BY <1>2, CompiledRule
  <2>. HIDE DEF c
  <2>2. wlr_zone(c) # "ANY"
    BY <1>2, <1>4, <2>1, WhichZone
  <2>3. ASSUME NEW i \in DOMAIN c.locations
        PROVE  /\ c.locations[i].var \in {"$BODY_VAR", "$ARGS_VAR"} =>
                    item.name \in rx_matches[c.locations[i].target]
               /\ c.locations[i].var = "$URL" =>
                    item.uri \in rx_matches[c.locations[i].target]
    <3>1. i \in DOMAIN r.locations
      BY <2>1
    <3>2. CASE r.locations[i].var = "$URL"
      BY <1>1, <1>4, <2>1, <3>1, <3>2 DEF Fits
    <3>3. CASE r.locations[i].var # "$URL"
      BY <1>1, <1>4, <2>1, <3>1, <3>3 DEF Fits
    <3>. QED BY <3>2, <3>3
  <2>4. ("target_name" \in c.flags) = item.target_name
    BY <1>1, <1>2, <1>4, <2>1
  <2>5. whitelisted_rx(c, item)
    BY <1>1, <2>1, <2>2, <2>3, <2>4, Zenon DEF whitelisted_rx, match_zone_rx
  <2>. QED BY <1>4, <2>5 DEF Exempts, c
<1>5. CASE r.locations # << >> /\ ~r.rx_mz
  <2>1. ClearPlain(r) /\ OneEach(r)
    BY <1>5, TakenClear DEF Plain, ClearPlain
  <2>. DEFINE zone == IF item.zone = "FILE_EXT" THEN "BODY" ELSE item.zone
              u == UriOf(r)
              n == NameOf(r).target
  <2>2. wlr_zone(r) \in {zone, "ANY"} /\ (NamedIdx(r) # {} => wlr_zone(r) = zone)
    <3>1. CASE "any" \in r.flags
      <4>1. wlr_zone(r) = "ANY" /\ NamedIdx(r) = {}
        BY <1>2, <1>5, <3>1, WhichZone DEF Accepted, Coherent
      <4>. QED BY <4>1
    <3>2. CASE "any" \notin r.flags
      <4>1. item.zone \in ZonesOf(r) /\ wlr_zone(r) \in ZonesOf(r) /\ wlr_zone(r) # "FILE_EXT"
        BY <1>1, <1>2, <1>5, <3>2, WhichZone
      <4>2. \/ ZonesOf(r) \subseteq {"BODY", "FILE_EXT"}
            \/ Cardinality(ZonesOf(r)) = 1
        BY <1>5, <3>2, Zenon DEF Clear
      <4>3. CASE ZonesOf(r) \subseteq {"BODY", "FILE_EXT"}
        BY <4>1, <4>3
      <4>4. CASE Cardinality(ZonesOf(r)) = 1
        <5>1. IsFiniteSet(ZonesOf(r))
          <6>1. IsFiniteSet({"HEADERS", "URL", "ARGS", "BODY", "FILE_EXT"})
            <7>1. IsFiniteSet({"HEADERS"})
              BY FS_EmptySet, FS_Singleton
            <7>2. IsFiniteSet({"HEADERS"} \cup {"URL"})
              BY <7>1, FS_AddElement, Zenon
            <7>3. IsFiniteSet({"HEADERS"} \cup {"URL"} \cup {"ARGS"})
              BY <7>2, FS_AddElement, Zenon
            <7>4. IsFiniteSet({"HEADERS"} \cup {"URL"} \cup {"ARGS"} \cup {"BODY"})
              BY <7>3, FS_AddElement, Zenon
            <7>5. IsFiniteSet({"HEADERS"} \cup {"URL"} \cup {"ARGS"} \cup {"BODY"}
                              \cup {"FILE_EXT"})
              BY <7>4, FS_AddElement, Zenon
            <7>6. {"HEADERS", "URL", "ARGS", "BODY", "FILE_EXT"}
                    = {"HEADERS"} \cup {"URL"} \cup {"ARGS"} \cup {"BODY"} \cup {"FILE_EXT"}
              OBVIOUS
            <7>. QED BY <7>5, <7>6, Zenon
          <6>. QED BY <6>1, FS_Subset, TheirZones DEF Zones
        <5>2. \E x : ZonesOf(r) = {x}
          BY <4>4, <5>1, FS_Singleton
        <5>3. item.zone = wlr_zone(r)
          BY <4>1, <5>2
        <5>. QED BY <4>1, <5>3
      <4>. QED BY <4>2, <4>3, <4>4
    <3>. QED BY <3>1, <3>2
  <2>3. ("target_name" \in r.flags) = item.target_name
    BY <1>1, <1>2, <1>5
  <2>4. Fetched(r, item)
    <3>1. /\ UrlIdx(r) # {} => UriOf(r) \in Strings
          /\ NamedIdx(r) # {} => NameOf(r).target \in Strings
          /\ Located1(r, u, n)
      BY <2>1, WhatIsLocated
    <3>2. ASSUME UrlIdx(r) # {}
          PROVE  lower[item.uri] = lower[u]
      <4>1. PICK i \in UrlIdx(r) : TRUE
        BY <3>2
      <4>2. i \in DOMAIN r.locations /\ r.locations[i].var = "$URL"
        BY DEF UrlIdx
      <4>3. r.locations[i].target = u
        BY <3>1, <4>2 DEF Located1
      <4>. QED BY <1>1, <1>5, <4>2, <4>3 DEF Fits
    <3>3. ASSUME NamedIdx(r) # {}
          PROVE  lower[item.name] = lower[n]
      <4>1. PICK i \in NamedIdx(r) : TRUE
        BY <3>3
      <4>2. i \in DOMAIN r.locations /\ r.locations[i].var # "$URL"
        BY DEF NamedIdx
      <4>3. r.locations[i].target = n
        BY <3>1, <4>1, <4>2 DEF Located1
      <4>. QED BY <1>1, <1>5, <4>2, <4>3 DEF Fits
    <3>. QED BY <3>2, <3>3 DEF Fetched
  <2>5. \E step \in 2 .. 7 : Asks(item, step) /\ Answers(fresh(r), item, step)
    BY <2>1, <2>2, <2>3, <2>4, <1>1, FetchedAnswers
  <2>. QED BY <1>5, <2>5 DEF Exempts
<1>. QED BY <1>3, <1>4, <1>5

-----------------------------------------------------------------------------
(***************************************************************************)
(* Aggregation: what the tables hold of the whitelists before the n-th     *)
(***************************************************************************)

\* Entries, whatever ids they have gathered.
WithIds(r, ids) == [fresh(r) EXCEPT !.ids = ids]
Entry == {WithIds(p[1], p[2]) : p \in BasicRules \X Seq(Int)}

ElementsOf(ids) == {ids[i] : i \in DOMAIN ids}

\* Whitelist r goes under the key of entry b.
Keyed(b, r) == Plain(r) /\ b.name = fullname(r) /\ b.zone = wlr_zone(r)

\* Entry b stands for the whitelists of its key: it looks like one of them,
\* holds no id that none of them holds, has the ids of all of them and no other,
\* and if there is one only it is that one's.
StandsFor(b, W, n) ==
  /\ b \in Entry
  /\ \E j \in 1 .. (n - 1) : Keyed(b, W[j]) /\ b = [fresh(W[j]) EXCEPT !.ids = b.ids]
  /\ \A id \in Int : nx_check_ids(id, b.ids) =>
       \E j \in 1 .. (n - 1) : Keyed(b, W[j]) /\ nx_check_ids(id, W[j].ids)
  /\ \A j \in 1 .. (n - 1) :
       Keyed(b, W[j]) => ElementsOf(W[j].ids) \subseteq ElementsOf(b.ids)
  /\ \A x \in ElementsOf(b.ids) :
       \E j \in 1 .. (n - 1) : Keyed(b, W[j]) /\ x \in ElementsOf(W[j].ids)
  /\ \A j \in 1 .. (n - 1) :
       Keyed(b, W[j]) /\ (\A l \in 1 .. (n - 1) : Keyed(b, W[l]) => l = j)
       => b.ids = W[j].ids

LEMMA Entries ==
  ASSUME NEW b
  PROVE  b \in Entry <=> \E r \in BasicRules : \E ids \in Seq(Int) : b = WithIds(r, ids)
<1>1. b \in Entry => \E r \in BasicRules : \E ids \in Seq(Int) : b = WithIds(r, ids)
  <2>. SUFFICES ASSUME b \in Entry
                PROVE  \E r \in BasicRules : \E ids \in Seq(Int) : b = WithIds(r, ids)
    OBVIOUS
  <2>1. PICK p \in BasicRules \X Seq(Int) : b = WithIds(p[1], p[2])
    BY Zenon DEF Entry
  <2>2. p[1] \in BasicRules /\ p[2] \in Seq(Int)
    BY <2>1
  <2>. QED BY <2>1, <2>2, Zenon
<1>2. ASSUME NEW r \in BasicRules, NEW ids \in Seq(Int), b = WithIds(r, ids)
      PROVE  b \in Entry
  <2>. DEFINE p == <<r, ids>>
  <2>1. p \in BasicRules \X Seq(Int) /\ p[1] = r /\ p[2] = ids
    OBVIOUS
  <2>. HIDE DEF p
  <2>. QED BY <1>2, <2>1, Zenon DEF Entry
<1>. QED BY <1>1, <1>2, Zenon

LEMMA FreshEntry ==
  ASSUME NEW r \in BasicRules
  PROVE  /\ fresh(r) \in Entry
         /\ fresh(r) = [fresh(r) EXCEPT !.ids = fresh(r).ids]
         /\ fresh(r).ids = r.ids /\ r.ids \in Seq(Int)
         /\ fresh(r).name = fullname(r) /\ fresh(r).zone = wlr_zone(r)
<1>. DEFINE b == fresh(r)
<1>1. b = [b EXCEPT !.ids = b.ids]
  BY DEF fresh
<1>2. /\ b.ids = r.ids /\ r.ids \in Seq(Int)
      /\ b.name = fullname(r) /\ b.zone = wlr_zone(r)
  BY DEF fresh, BasicRules
<1>. HIDE DEF b
<1>3. b = WithIds(r, b.ids)
  BY <1>1, Zenon DEF WithIds, b
<1>. QED BY <1>1, <1>2, <1>3, Entries, Zenon DEF b

\* The parts of an entry.
LEMMA EntryParts ==
  ASSUME NEW b \in Entry, NEW ids \in Seq(Int)
  PROVE  /\ [b EXCEPT !.ids = ids] \in Entry
         /\ [b EXCEPT !.ids = ids].ids = ids
         /\ [b EXCEPT !.ids = ids].name = b.name
         /\ [b EXCEPT !.ids = ids].zone = b.zone
         /\ b.ids \in Seq(Int)
         /\ \A c : b = [c EXCEPT !.ids = b.ids] =>
              [b EXCEPT !.ids = ids] = [c EXCEPT !.ids = ids]
<1>0. PICK r \in BasicRules : \E old \in Seq(Int) : b = WithIds(r, old)
  BY Entries, Zenon
<1>1. PICK old \in Seq(Int) : b = WithIds(r, old)
  BY <1>0, Zenon
<1>2. /\ [b EXCEPT !.ids = ids] = [fresh(r) EXCEPT !.ids = ids]
      /\ [b EXCEPT !.ids = ids].ids = ids
      /\ [b EXCEPT !.ids = ids].name = b.name
      /\ [b EXCEPT !.ids = ids].zone = b.zone
      /\ b.ids = old
  BY <1>1 DEF fresh, WithIds
<1>3. [b EXCEPT !.ids = ids] \in Entry
  BY <1>2, Entries, Zenon DEF WithIds
<1>4. \A c : b = [c EXCEPT !.ids = b.ids] =>
        [b EXCEPT !.ids = ids] = [c EXCEPT !.ids = ids]
  OBVIOUS
<1>. QED BY <1>2, <1>3, <1>4

LEMMA EntryStays ==
  ASSUME NEW W, NEW n \in Nat \ {0}, NEW b, StandsFor(b, W, n), ~Keyed(b, W[n])
  PROVE  StandsFor(b, W, n + 1)
<1>1. 1 .. ((n + 1) - 1) = (1 .. (n - 1)) \cup {n}
  OBVIOUS
<1>. DEFINE D == 1 .. (n - 1)
            E == 1 .. ((n + 1) - 1)
<1>2. /\ D \subseteq E /\ \A j \in E : Keyed(b, W[j]) => j \in D
  BY <1>1
<1>. HIDE DEF D, E
<1>3. /\ b \in Entry
      /\ \E j \in D : Keyed(b, W[j]) /\ b = [fresh(W[j]) EXCEPT !.ids = b.ids]
      /\ \A id \in Int : nx_check_ids(id, b.ids) =>
           \E j \in D : Keyed(b, W[j]) /\ nx_check_ids(id, W[j].ids)
      /\ \A j \in D : Keyed(b, W[j]) => ElementsOf(W[j].ids) \subseteq ElementsOf(b.ids)
      /\ \A x \in ElementsOf(b.ids) : \E j \in D : Keyed(b, W[j]) /\ x \in ElementsOf(W[j].ids)
      /\ \A j \in D : Keyed(b, W[j]) /\ (\A l \in D : Keyed(b, W[l]) => l = j)
                      => b.ids = W[j].ids
  BY Zenon DEF StandsFor, D
<1>4. \A j : j \in D => j \in E
  BY <1>2, Zenon
<1>5. \A j \in E : Keyed(b, W[j]) /\ (\A l \in E : Keyed(b, W[l]) => l = j)
                   => b.ids = W[j].ids
  BY <1>2, <1>3, <1>4, Zenon
<1>6. \A j \in E : Keyed(b, W[j]) => ElementsOf(W[j].ids) \subseteq ElementsOf(b.ids)
  BY <1>2, <1>3, Zenon
<1>7. /\ b \in Entry
      /\ \E j \in E : Keyed(b, W[j]) /\ b = [fresh(W[j]) EXCEPT !.ids = b.ids]
      /\ \A id \in Int : nx_check_ids(id, b.ids) =>
           \E j \in E : Keyed(b, W[j]) /\ nx_check_ids(id, W[j].ids)
      /\ \A x \in ElementsOf(b.ids) : \E j \in E : Keyed(b, W[j]) /\ x \in ElementsOf(W[j].ids)
  BY <1>3, <1>4, Zenon
<1>. QED BY <1>5, <1>6, <1>7, Zenon DEF StandsFor, E

LEMMA EntryStarts ==
  ASSUME NEW W, NEW n \in Nat \ {0}, W[n] \in BasicRules, Plain(W[n]),
         \A j \in 1 .. (n - 1) : ~Keyed(fresh(W[n]), W[j])
  PROVE  StandsFor(fresh(W[n]), W, n + 1)
<1>. DEFINE b == fresh(W[n])
            E == 1 .. ((n + 1) - 1)
<1>1. /\ b \in Entry /\ b.ids = W[n].ids /\ b = [fresh(W[n]) EXCEPT !.ids = b.ids]
      /\ Keyed(b, W[n])
  BY FreshEntry, Zenon DEF Keyed
<1>2. n \in E /\ \A j \in E : j = n \/ j \in 1 .. (n - 1)
  OBVIOUS
<1>. HIDE DEF b, E
<1>3. \A j \in E : Keyed(b, W[j]) => j = n
  BY <1>2, Zenon DEF b
<1>4. \A j \in E : Keyed(b, W[j]) => ElementsOf(W[j].ids) = ElementsOf(b.ids)
  BY <1>1, <1>3, Zenon
<1>5. \A j \in E : Keyed(b, W[j]) => ElementsOf(W[j].ids) \subseteq ElementsOf(b.ids)
  BY <1>4
<1>6. /\ \E j \in E : Keyed(b, W[j]) /\ b = [fresh(W[j]) EXCEPT !.ids = b.ids]
      /\ \A id \in Int : nx_check_ids(id, b.ids) =>
           \E j \in E : Keyed(b, W[j]) /\ nx_check_ids(id, W[j].ids)
      /\ \A x \in ElementsOf(b.ids) : \E j \in E : Keyed(b, W[j]) /\ x \in ElementsOf(W[j].ids)
      /\ \A j \in E : Keyed(b, W[j]) /\ (\A l \in E : Keyed(b, W[l]) => l = j)
                      => b.ids = W[j].ids
  BY <1>1, <1>2, <1>3, Zenon
<1>. QED BY <1>1, <1>5, <1>6, Zenon DEF StandsFor, E, b

LEMMA EntryMerges ==
  ASSUME NEW W, NEW n \in Nat \ {0}, W[n] \in BasicRules,
         NEW b, StandsFor(b, W, n), Keyed(b, W[n])
  PROVE  StandsFor([b EXCEPT !.ids = @ \o W[n].ids], W, n + 1)
<1>. DEFINE D == 1 .. (n - 1)
            E == 1 .. ((n + 1) - 1)
            ids == b.ids \o W[n].ids
            c == [b EXCEPT !.ids = ids]
<1>1. /\ b \in Entry
      /\ \E j \in D : Keyed(b, W[j]) /\ b = [fresh(W[j]) EXCEPT !.ids = b.ids]
      /\ \A id \in Int : nx_check_ids(id, b.ids) =>
           \E j \in D : Keyed(b, W[j]) /\ nx_check_ids(id, W[j].ids)
      /\ \A j \in D : Keyed(b, W[j]) => ElementsOf(W[j].ids) \subseteq ElementsOf(b.ids)
      /\ \A x \in ElementsOf(b.ids) : \E j \in D : Keyed(b, W[j]) /\ x \in ElementsOf(W[j].ids)
  BY Zenon DEF StandsFor
<1>2. /\ n \in E /\ n \notin D /\ \A j \in D : j \in E
      /\ \A j \in E : j = n \/ j \in D
  OBVIOUS
<1>3. W[n].ids \in Seq(Int)
  BY DEF BasicRules
<1>4. b.ids \in Seq(Int)
  BY <1>1, <1>3, EntryParts
<1>5. ids \in Seq(Int)
  BY <1>3, <1>4
<1>6. ElementsOf(ids) = ElementsOf(b.ids) \cup ElementsOf(W[n].ids)
  <2>. DEFINE f == b.ids
              g == W[n].ids
  <2>. HIDE DEF f, g
  <2>1. f \in Seq(Int) /\ g \in Seq(Int)
    BY <1>3, <1>4 DEF f, g
  <2>2. /\ DOMAIN f = 1 .. Len(f) /\ DOMAIN g = 1 .. Len(g)
        /\ DOMAIN (f \o g) = 1 .. (Len(f) + Len(g))
        /\ Len(f) \in Nat /\ Len(g) \in Nat
        /\ \A i \in 1 .. Len(f) : (f \o g)[i] = f[i]
        /\ \A i \in 1 .. Len(g) : (f \o g)[Len(f) + i] = g[i]
    BY <2>1
  <2>. DEFINE h == f \o g
              m == Len(f)
              l == Len(g)
  <2>. HIDE DEF h, m, l
  <2>3. \A i \in 1 .. (m + l) : i \in 1 .. m \/ (i - m \in 1 .. l /\ m + (i - m) = i)
    BY <2>2 DEF m, l
  <2>4. \A i \in 1 .. l : m + i \in 1 .. (m + l)
    BY <2>2 DEF m, l
  <2>5. \A i \in 1 .. m : i \in 1 .. (m + l)
    BY <2>2 DEF m, l
  <2>6. /\ DOMAIN f = 1 .. m /\ DOMAIN g = 1 .. l /\ DOMAIN h = 1 .. (m + l)
        /\ \A i \in 1 .. m : h[i] = f[i]
        /\ \A i \in 1 .. l : h[m + i] = g[i]
    BY <2>2 DEF h, m, l
  <2>7. \A i \in DOMAIN h : h[i] \in ElementsOf(f) \cup ElementsOf(g)
    <3>. SUFFICES ASSUME NEW i \in DOMAIN h PROVE h[i] \in ElementsOf(f) \cup ElementsOf(g)
      OBVIOUS
    <3>1. CASE i \in 1 .. m
      BY <2>6, <3>1 DEF ElementsOf
    <3>2. CASE i - m \in 1 .. l /\ m + (i - m) = i
      <4>1. h[m + (i - m)] = g[i - m]
        BY <2>6, <3>2
      <4>. QED BY <2>6, <3>2, <4>1 DEF ElementsOf
    <3>. QED BY <2>3, <2>6, <3>1, <3>2
  <2>8. \A i \in DOMAIN f : f[i] \in ElementsOf(h)
    BY <2>5, <2>6 DEF ElementsOf
  <2>9. \A i \in DOMAIN g : g[i] \in ElementsOf(h)
    <3>. SUFFICES ASSUME NEW i \in DOMAIN g PROVE g[i] \in ElementsOf(h)
      OBVIOUS
    <3>1. m + i \in DOMAIN h /\ h[m + i] = g[i]
      BY <2>4, <2>6
    <3>. QED BY <3>1, Zenon DEF ElementsOf
  <2>10. ElementsOf(h) = ElementsOf(f) \cup ElementsOf(g)
    BY <2>7, <2>8, <2>9 DEF ElementsOf
  <2>. QED BY <2>10, Zenon DEF h, f, g
<1>7. /\ c \in Entry /\ c.ids = ids /\ c.name = b.name /\ c.zone = b.zone
      /\ \A e : b = [e EXCEPT !.ids = b.ids] => c = [e EXCEPT !.ids = ids]
  BY <1>1, <1>5, EntryParts, Zenon
<1>8. [b EXCEPT !.ids = @ \o W[n].ids] = c
  BY <1>1, Zenon DEF Entry
<1>9. \A id : nx_check_ids(id, ids) =>
        nx_check_ids(id, b.ids) \/ nx_check_ids(id, W[n].ids)
  BY <1>3, <1>4, MergedIds, Zenon
<1>. HIDE DEF c, ids, D, E
<1>10. \A r : Keyed(c, r) <=> Keyed(b, r)
  BY <1>7, Zenon DEF Keyed
<1>11. PICK j0 \in D : Keyed(b, W[j0]) /\ b = [fresh(W[j0]) EXCEPT !.ids = b.ids]
  BY <1>1, Zenon
<1>12. \E j \in E : Keyed(c, W[j]) /\ c = [fresh(W[j]) EXCEPT !.ids = c.ids]
  <2>1. c = [fresh(W[j0]) EXCEPT !.ids = ids]
    BY <1>7, <1>11, Zenon
  <2>. QED BY <1>2, <1>7, <1>10, <1>11, <2>1, Zenon
<1>13. \A id \in Int : nx_check_ids(id, c.ids) =>
         \E j \in E : Keyed(c, W[j]) /\ nx_check_ids(id, W[j].ids)
  BY <1>1, <1>2, <1>7, <1>9, <1>10, Zenon
<1>14. \A j \in E : Keyed(c, W[j]) => ElementsOf(W[j].ids) \subseteq ElementsOf(c.ids)
  <2>. SUFFICES ASSUME NEW j \in E, Keyed(c, W[j])
                PROVE  ElementsOf(W[j].ids) \subseteq ElementsOf(c.ids)
    BY Zenon
  <2>1. CASE j = n
    BY <1>6, <1>7, <2>1
  <2>2. CASE j \in D
    <3>1. ElementsOf(W[j].ids) \subseteq ElementsOf(b.ids)
      BY <1>1, <1>10, <2>2, Zenon
    <3>. QED BY <1>6, <1>7, <3>1
  <2>. QED BY <1>2, <2>1, <2>2
<1>15. \A x \in ElementsOf(c.ids) : \E j \in E : Keyed(c, W[j]) /\ x \in ElementsOf(W[j].ids)
  <2>1. \A x \in ElementsOf(c.ids) : x \in ElementsOf(b.ids) \/ x \in ElementsOf(W[n].ids)
    BY <1>6, <1>7
  <2>. QED BY <1>1, <1>2, <1>10, <2>1, Zenon
<1>16. \A j \in E : ~(\A l \in E : Keyed(c, W[l]) => l = j)
  <2>. SUFFICES ASSUME NEW j \in E, \A l \in E : Keyed(c, W[l]) => l = j PROVE FALSE
    BY Zenon
  <2>1. n = j /\ j0 = j
    BY <1>2, <1>10, <1>11, Zenon
  <2>. QED BY <1>2, <2>1
<1>17. StandsFor(c, W, n + 1)
  BY <1>7, <1>12, <1>13, <1>14, <1>15, <1>16, Zenon DEF StandsFor, E
<1>. QED BY <1>8, <1>17

\* The whitelists before the n-th that are kept in lists, by what they hold.
Bare(W, n)      == {j \in 1 .. (n - 1) : W[j].locations = << >>}
Patterned(W, n) == {j \in 1 .. (n - 1) : W[j].locations # << >> /\ W[j].rx_mz}
Compiled(W)     == [j \in DOMAIN W |-> compiled(W[j])]

\* A list holds the elements of V whose indexes are in J.
Gathered(s, V, J) ==
  /\ \A i \in DOMAIN s : \E j \in J : s[i] = V[j]
  /\ \A j \in J : \E i \in DOMAIN s : s[i] = V[j]

\* The entries of a table have distinct keys, each stands for the whitelists of
\* its key, and every plain whitelist has one.
EntriesFor(wlr, W, n) ==
  /\ \A i \in DOMAIN wlr : StandsFor(wlr[i], W, n)
  /\ \A i, k \in DOMAIN wlr :
       wlr[i].name = wlr[k].name /\ wlr[i].zone = wlr[k].zone => i = k
  /\ \A j \in 1 .. (n - 1) :
       Plain(W[j]) => \E i \in DOMAIN wlr : Keyed(wlr[i], W[j])

Built(T, W, n) ==
  /\ T \in [disabled_rules : Seq(Accepted), rxmz_wlr : Seq(Accepted),
            tmp_wlr : Seq(Entry)]
  /\ Gathered(T.disabled_rules, W, Bare(W, n))
  /\ Gathered(T.rxmz_wlr, Compiled(W), Patterned(W, n))
  /\ EntriesFor(T.tmp_wlr, W, n)

\* t is s with x at place m, its last.
Appended(t, s, x, m) ==
  /\ \A i \in DOMAIN s : i \in DOMAIN t /\ t[i] = s[i]
  /\ m \in DOMAIN t /\ t[m] = x
  /\ \A i \in DOMAIN t : i \in DOMAIN s \/ i = m

LEMMA AppendFacts ==
  ASSUME NEW S, NEW s \in Seq(S), NEW x \in S, NEW t, t = Append(s, x)
  PROVE  t \in Seq(S) /\ \E m : Appended(t, s, x, m)
<1>1. /\ t \in Seq(S)
      /\ \A i \in DOMAIN s : i \in DOMAIN t /\ t[i] = s[i]
      /\ Len(s) + 1 \in DOMAIN t /\ t[Len(s) + 1] = x
      /\ \A i \in DOMAIN t : i \in DOMAIN s \/ i = Len(s) + 1
  OBVIOUS
<1>2. Appended(t, s, x, Len(s) + 1)
  BY <1>1, Zenon DEF Appended
<1>. QED BY <1>1, <1>2, Zenon

LEMMA SeqMade ==
  ASSUME NEW S, NEW n \in Nat, NEW f, f = [i \in 1 .. n |-> f[i]],
         \A i \in 1 .. n : f[i] \in S
  PROVE  f \in Seq(S)
<1>1. f \in [1 .. n -> S]
  OBVIOUS
<1>. QED BY <1>1

LEMMA GatherMore ==
  ASSUME NEW S, NEW s \in Seq(S), NEW x \in S, NEW V, NEW J, Gathered(s, V, J),
         NEW n, x = V[n]
  PROVE  Append(s, x) \in Seq(S) /\ Gathered(Append(s, x), V, J \cup {n})
<1>. DEFINE t == Append(s, x)
            K == J \cup {n}
<1>1. t \in Seq(S) /\ \E m : Appended(t, s, x, m)
  BY AppendFacts, Zenon
<1>. HIDE DEF t
<1>2. PICK m : Appended(t, s, x, m)
  BY <1>1, Zenon
<1>3. /\ \A i \in DOMAIN s : i \in DOMAIN t /\ t[i] = s[i]
      /\ m \in DOMAIN t /\ t[m] = x
      /\ \A i \in DOMAIN t : i \in DOMAIN s \/ i = m
  BY <1>2, Zenon DEF Appended
<1>4. n \in K /\ (\A j \in J : j \in K) /\ \A j \in K : j \in J \/ j = n
  OBVIOUS
<1>. HIDE DEF K
<1>5. ASSUME NEW i \in DOMAIN t
      PROVE  \E j \in K : t[i] = V[j]
  <2>1. CASE i = m
    BY <1>3, <1>4, <2>1, Zenon
  <2>2. CASE i \in DOMAIN s
    <3>1. PICK j \in J : s[i] = V[j]
      BY <2>2, Zenon DEF Gathered
    <3>2. t[i] = s[i]
      BY <1>3, <2>2, Zenon
    <3>. QED BY <1>4, <3>1, <3>2, Zenon
  <2>. QED BY <1>3, <2>1, <2>2, Zenon
<1>6. ASSUME NEW j \in K
      PROVE  \E i \in DOMAIN t : t[i] = V[j]
  <2>1. CASE j = n
    BY <1>3, <2>1, Zenon
  <2>2. CASE j \in J
    <3>1. PICK i \in DOMAIN s : s[i] = V[j]
      BY <2>2, Zenon DEF Gathered
    <3>2. i \in DOMAIN t /\ t[i] = s[i]
      BY <1>3, Zenon
    <3>. QED BY <3>1, <3>2, Zenon
  <2>. QED BY <1>4, <2>1, <2>2, Zenon
<1>7. Gathered(t, V, K)
  BY <1>5, <1>6, Zenon DEF Gathered
<1>. QED BY <1>1, <1>7 DEF t, K

LEMMA OneMore ==
  ASSUME NEW W, NEW n \in Nat \ {0}
  PROVE  /\ Bare(W, n + 1) =
              IF W[n].locations = << >> THEN Bare(W, n) \cup {n} ELSE Bare(W, n)
         /\ Patterned(W, n + 1) =
              IF W[n].locations # << >> /\ W[n].rx_mz
              THEN Patterned(W, n) \cup {n} ELSE Patterned(W, n)
         /\ \A j \in 1 .. ((n + 1) - 1) : j = n \/ j \in 1 .. (n - 1)
<1>1. 1 .. ((n + 1) - 1) = (1 .. (n - 1)) \cup {n}
  OBVIOUS
<1>. DEFINE D == 1 .. (n - 1)
            E == 1 .. ((n + 1) - 1)
<1>2. E = D \cup {n}
  BY <1>1
<1>. HIDE DEF D, E
<1>3. /\ {j \in E : W[j].locations = << >>} =
           IF W[n].locations = << >> THEN {j \in D : W[j].locations = << >>} \cup {n}
           ELSE {j \in D : W[j].locations = << >>}
      /\ {j \in E : W[j].locations # << >> /\ W[j].rx_mz} =
           IF W[n].locations # << >> /\ W[n].rx_mz
           THEN {j \in D : W[j].locations # << >> /\ W[j].rx_mz} \cup {n}
           ELSE {j \in D : W[j].locations # << >> /\ W[j].rx_mz}
  BY <1>2
<1>. QED BY <1>2, <1>3 DEF Bare, Patterned, D, E

LEMMA NothingBuilt ==
  ASSUME NEW W
  PROVE  Built(NoTables, W, 1)
<1>1. NoTables \in [disabled_rules : Seq(Accepted), rxmz_wlr : Seq(Accepted),
                    tmp_wlr : Seq(Entry)]
  BY DEF NoTables
<1>2. /\ NoTables.disabled_rules = << >> /\ NoTables.rxmz_wlr = << >>
      /\ NoTables.tmp_wlr = << >>
  BY DEF NoTables
<1>3. DOMAIN << >> = {} /\ 1 .. (1 - 1) = {}
  OBVIOUS
<1>. QED BY <1>1, <1>2, <1>3 DEF Built, Gathered, Bare, Patterned, EntriesFor

\* Whitelists that do not go to the entries leave them as they are.
LEMMA EntriesStay ==
  ASSUME NEW T, NEW W, NEW n \in Nat \ {0}, Built(T, W, n), ~Plain(W[n])
  PROVE  EntriesFor(T.tmp_wlr, W, n + 1)
<1>1. \A i \in DOMAIN T.tmp_wlr : ~Keyed(T.tmp_wlr[i], W[n])
  BY DEF Keyed
<1>2. \A i \in DOMAIN T.tmp_wlr : StandsFor(T.tmp_wlr[i], W, n)
  BY Zenon DEF Built, EntriesFor
<1>3. \A j \in 1 .. (n - 1) :
        Plain(W[j]) => \E i \in DOMAIN T.tmp_wlr : Keyed(T.tmp_wlr[i], W[j])
  BY Zenon DEF Built, EntriesFor
<1>4. \A i, k \in DOMAIN T.tmp_wlr :
        T.tmp_wlr[i].name = T.tmp_wlr[k].name /\ T.tmp_wlr[i].zone = T.tmp_wlr[k].zone
        => i = k
  BY Zenon DEF Built, EntriesFor
<1>5. \A i \in DOMAIN T.tmp_wlr : StandsFor(T.tmp_wlr[i], W, n + 1)
  BY <1>1, <1>2, EntryStays, Zenon
<1>6. \A j \in 1 .. ((n + 1) - 1) :
        Plain(W[j]) => \E i \in DOMAIN T.tmp_wlr : Keyed(T.tmp_wlr[i], W[j])
  BY <1>3, OneMore, Zenon
<1>. QED BY <1>4, <1>5, <1>6, Zenon DEF EntriesFor

\* A plain whitelist finds its entry, or makes it.
LEMMA EntriesGrow ==
  ASSUME NEW T, NEW W, NEW n \in Nat \ {0}, Built(T, W, n),
         W[n] \in BasicRules, Plain(W[n]), NEW wlr, wlr = wlr_merge(T.tmp_wlr, W[n])
  PROVE  wlr \in Seq(Entry) /\ EntriesFor(wlr, W, n + 1)
<1>. DEFINE old == T.tmp_wlr
            r == W[n]
            F == wlr_find(old, r)
<1>1. /\ old \in Seq(Entry)
      /\ \A i \in DOMAIN old : StandsFor(old[i], W, n)
      /\ \A i, k \in DOMAIN old : old[i].name = old[k].name /\ old[i].zone = old[k].zone => i = k
      /\ \A j \in 1 .. (n - 1) : Plain(W[j]) => \E i \in DOMAIN old : Keyed(old[i], W[j])
  BY DEF Built, EntriesFor
<1>2. /\ \A i \in DOMAIN old : i \in F <=> Keyed(old[i], r)
      /\ F \subseteq DOMAIN old
  BY Zenon DEF wlr_find, Keyed
<1>3. \A j \in 1 .. ((n + 1) - 1) : j = n \/ j \in 1 .. (n - 1)
  BY OneMore, Zenon
<1>4. fresh(r) \in Entry /\ fresh(r).name = fullname(r) /\ fresh(r).zone = wlr_zone(r)
  BY FreshEntry, Zenon
<1>. HIDE DEF old, F
<1>5. CASE F = {}
  <2>1. wlr = Append(old, fresh(r))
    BY <1>5, Zenon DEF wlr_merge, old, F
  <2>2. wlr \in Seq(Entry) /\ \E m : Appended(wlr, old, fresh(r), m)
    BY <1>1, <1>4, <2>1, AppendFacts, Zenon
  <2>10. PICK m : Appended(wlr, old, fresh(r), m)
    BY <2>2, Zenon
  <2>11. /\ \A i \in DOMAIN old : i \in DOMAIN wlr /\ wlr[i] = old[i]
         /\ m \in DOMAIN wlr /\ wlr[m] = fresh(r)
         /\ \A i \in DOMAIN wlr : i \in DOMAIN old \/ i = m
    BY <2>10, Zenon DEF Appended
  <2>3. \A i \in DOMAIN old : ~Keyed(old[i], r)
    BY <1>2, <1>5
  <2>4. \A j \in 1 .. (n - 1) : ~Keyed(fresh(r), W[j])
    <3>. SUFFICES ASSUME NEW j \in 1 .. (n - 1), Keyed(fresh(r), W[j]) PROVE FALSE
      BY Zenon
    <3>1. PICK i \in DOMAIN old : Keyed(old[i], W[j])
      BY <1>1, Zenon DEF Keyed
    <3>2. Keyed(old[i], r)
      BY <1>4, <3>1, Zenon DEF Keyed
    <3>. QED BY <2>3, <3>2
  <2>5. StandsFor(fresh(r), W, n + 1)
    BY <2>4, EntryStarts, Zenon
  <2>6. \A i \in DOMAIN wlr : StandsFor(wlr[i], W, n + 1)
    BY <1>1, <2>11, <2>3, <2>5, EntryStays, Zenon
  <2>7. \A i \in DOMAIN old : ~(old[i].name = fresh(r).name /\ old[i].zone = fresh(r).zone)
    BY <1>4, <2>3, Zenon DEF Keyed
  <2>8. \A i, k \in DOMAIN wlr : wlr[i].name = wlr[k].name /\ wlr[i].zone = wlr[k].zone => i = k
    <3>. SUFFICES ASSUME NEW i \in DOMAIN wlr, NEW k \in DOMAIN wlr,
                         wlr[i].name = wlr[k].name, wlr[i].zone = wlr[k].zone
                  PROVE  i = k
      BY Zenon
    <3>1. CASE i \in DOMAIN old /\ k \in DOMAIN old
      BY <1>1, <2>11, <3>1, Zenon
    <3>2. CASE i \in DOMAIN old /\ k = m
      BY <2>11, <2>7, <3>2, Zenon
    <3>3. CASE i = m /\ k \in DOMAIN old
      BY <2>11, <2>7, <3>3, Zenon
    <3>. QED BY <2>11, <3>1, <3>2, <3>3, Zenon
  <2>9. \A j \in 1 .. ((n + 1) - 1) : Plain(W[j]) => \E i \in DOMAIN wlr : Keyed(wlr[i], W[j])
    <3>1. Keyed(fresh(r), r)
      BY <1>4, Zenon DEF Keyed
    <3>2. ASSUME NEW j \in 1 .. ((n + 1) - 1), Plain(W[j])
          PROVE  \E i \in DOMAIN wlr : Keyed(wlr[i], W[j])
      <4>1. CASE j = n
        BY <2>11, <3>1, <4>1, Zenon
      <4>2. CASE j \in 1 .. (n - 1)
        BY <1>1, <2>11, <3>2, <4>2, Zenon
      <4>. QED BY <1>3, <4>1, <4>2, Zenon
    <3>. QED BY <3>2, Zenon
  <2>. QED BY <2>2, <2>6, <2>8, <2>9, Zenon DEF EntriesFor
<1>6. CASE F # {}
  <2>1. wlr = [i \in DOMAIN old |-> IF i \in F THEN [old[i] EXCEPT !.ids = @ \o r.ids]
                                    ELSE old[i]]
    BY <1>6, Zenon DEF wlr_merge, old, F
  <2>2. /\ DOMAIN wlr = DOMAIN old
        /\ \A i \in F : wlr[i] = [old[i] EXCEPT !.ids = @ \o r.ids]
        /\ \A i \in DOMAIN old : i \notin F => wlr[i] = old[i]
    BY <1>2, <2>1
  <2>3. \A i \in DOMAIN old : StandsFor(wlr[i], W, n + 1)
    <3>. SUFFICES ASSUME NEW i \in DOMAIN old PROVE StandsFor(wlr[i], W, n + 1)
      BY Zenon
    <3>1. CASE i \in F
      <4>1. StandsFor([old[i] EXCEPT !.ids = @ \o r.ids], W, n + 1)
        BY <1>1, <1>2, <3>1, EntryMerges, Zenon
      <4>. QED BY <2>2, <3>1, <4>1, Zenon
    <3>2. CASE i \notin F
      BY <1>1, <1>2, <2>2, <3>2, EntryStays, Zenon
    <3>. QED BY <3>1, <3>2
  <2>4. \A i \in DOMAIN old : wlr[i] \in Entry
    BY <2>3, Zenon DEF StandsFor
  <2>5. wlr \in Seq(Entry)
    <3>1. DOMAIN old = 1 .. Len(old) /\ Len(old) \in Nat
      BY <1>1, SeqFacts, Zenon
    <3>2. wlr = [i \in 1 .. Len(old) |-> wlr[i]]
      BY <2>1, <2>2, <3>1, Zenon
    <3>3. \A i \in 1 .. Len(old) : wlr[i] \in Entry
      BY <2>4, <3>1, Zenon
    <3>. QED BY <3>1, <3>2, <3>3, SeqMade, Zenon
  <2>6. \A i \in DOMAIN old : wlr[i].name = old[i].name /\ wlr[i].zone = old[i].zone
    <3>. SUFFICES ASSUME NEW i \in DOMAIN old
                  PROVE  wlr[i].name = old[i].name /\ wlr[i].zone = old[i].zone
      BY Zenon
    <3>1. old[i] \in Entry
      BY <1>1, SeqFacts, Zenon
    <3>2. CASE i \in F
      <4>. DEFINE b == old[i]
      <4>1. wlr[i] = [b EXCEPT !.ids = @ \o r.ids]
        BY <2>2, <3>2, Zenon
      <4>2. b \in Entry
        BY <3>1
      <4>3. PICK q \in BasicRules : \E ids \in Seq(Int) : b = WithIds(q, ids)
        BY <4>2, Entries, Zenon
      <4>4. PICK ids \in Seq(Int) : b = WithIds(q, ids)
        BY <4>3, Zenon
      <4>. HIDE DEF b
      <4>5. wlr[i].name = b.name /\ wlr[i].zone = b.zone
        BY <4>1, <4>4 DEF WithIds, fresh
      <4>. QED BY <4>5 DEF b
    <3>3. CASE i \notin F
      BY <2>2, <3>3, Zenon
    <3>. QED BY <3>2, <3>3
  <2>7. \A i \in DOMAIN old : \A q : Keyed(wlr[i], q) <=> Keyed(old[i], q)
    BY <2>6, Zenon DEF Keyed
  <2>8. PICK k \in DOMAIN old : Keyed(old[k], r)
    BY <1>2, <1>6
  <2>9. \A j \in 1 .. ((n + 1) - 1) : Plain(W[j]) => \E i \in DOMAIN wlr : Keyed(wlr[i], W[j])
    BY <1>1, <1>3, <2>2, <2>7, <2>8, Zenon
  <2>10. \A i, l \in DOMAIN wlr : wlr[i].name = wlr[l].name /\ wlr[i].zone = wlr[l].zone => i = l
    <3>. SUFFICES ASSUME NEW i \in DOMAIN wlr, NEW l \in DOMAIN wlr,
                         wlr[i].name = wlr[l].name, wlr[i].zone = wlr[l].zone
                  PROVE  i = l
      BY Zenon
    <3>1. i \in DOMAIN old /\ l \in DOMAIN old
      BY <2>2, Zenon
    <3>2. old[i].name = old[l].name /\ old[i].zone = old[l].zone
      BY <2>6, <3>1, Zenon
    <3>. QED BY <1>1, <3>1, <3>2, Zenon
  <2>. QED BY <2>2, <2>3, <2>5, <2>9, <2>10, Zenon DEF EntriesFor
<1>. QED BY <1>5, <1>6

\* Turn n of create_hashtables.
LEMMA BuiltMore ==
  ASSUME NEW T, NEW W, NEW n \in Nat \ {0}, n \in DOMAIN W, Built(T, W, n),
         W[n] \in Accepted
  PROVE  Built(add_whitelist(T, W[n]), W, n + 1)
<1>. DEFINE r == W[n]
            U == add_whitelist(T, r)
<1>1. /\ T \in [disabled_rules : Seq(Accepted), rxmz_wlr : Seq(Accepted),
                tmp_wlr : Seq(Entry)]
      /\ Gathered(T.disabled_rules, W, Bare(W, n))
      /\ Gathered(T.rxmz_wlr, Compiled(W), Patterned(W, n))
  BY Zenon DEF Built
<1>2. r \in BasicRules /\ r.rx_mz \in BOOLEAN
  BY DEF Accepted, BasicRules
<1>3. /\ T.disabled_rules \in Seq(Accepted) /\ T.rxmz_wlr \in Seq(Accepted)
      /\ T.tmp_wlr \in Seq(Entry)
  BY <1>1
<1>4. /\ Bare(W, n + 1) = IF r.locations = << >> THEN Bare(W, n) \cup {n} ELSE Bare(W, n)
      /\ Patterned(W, n + 1) = IF r.locations # << >> /\ r.rx_mz
                               THEN Patterned(W, n) \cup {n} ELSE Patterned(W, n)
  BY OneMore, Zenon
<1>5. CASE r.locations = << >>
  <2>. DEFINE s == Append(T.disabled_rules, r)
  <2>1. s \in Seq(Accepted) /\ Gathered(s, W, Bare(W, n) \cup {n})
    BY <1>1, <1>3, GatherMore, Zenon
  <2>. HIDE DEF s
  <2>2. U = [T EXCEPT !.disabled_rules = s]
    BY <1>5 DEF add_whitelist, s
  <2>. HIDE DEF U
  <2>3. /\ U.disabled_rules = s /\ U.rxmz_wlr = T.rxmz_wlr /\ U.tmp_wlr = T.tmp_wlr
        /\ U \in [disabled_rules : Seq(Accepted), rxmz_wlr : Seq(Accepted),
                  tmp_wlr : Seq(Entry)]
    BY <1>1, <2>1, <2>2
  <2>4. ~Plain(r)
    BY <1>5 DEF Plain
  <2>5. EntriesFor(T.tmp_wlr, W, n + 1)
    BY <2>4, EntriesStay, Zenon
  <2>6. Bare(W, n + 1) = Bare(W, n) \cup {n} /\ Patterned(W, n + 1) = Patterned(W, n)
    BY <1>4, <1>5, Zenon
  <2>7. Built(U, W, n + 1)
    BY <1>1, <2>1, <2>3, <2>5, <2>6, Zenon DEF Built
  <2>. QED BY <2>7 DEF U
<1>6. CASE r.locations # << >> /\ r.rx_mz
  <2>. DEFINE s == Append(T.rxmz_wlr, compiled(r))
  <2>1. Compiled(W)[n] = compiled(r)
    BY DEF Compiled
  <2>2. compiled(r) \in Accepted
    BY CompiledRule
  <2>3. s \in Seq(Accepted) /\ Gathered(s, Compiled(W), Patterned(W, n) \cup {n})
    BY <1>1, <1>3, <2>1, <2>2, GatherMore, Zenon
  <2>. HIDE DEF s
  <2>4. U = [T EXCEPT !.rxmz_wlr = s]
    BY <1>6 DEF add_whitelist, s
  <2>. HIDE DEF U
  <2>5. /\ U.rxmz_wlr = s /\ U.disabled_rules = T.disabled_rules /\ U.tmp_wlr = T.tmp_wlr
        /\ U \in [disabled_rules : Seq(Accepted), rxmz_wlr : Seq(Accepted),
                  tmp_wlr : Seq(Entry)]
    BY <1>1, <2>3, <2>4
  <2>6. ~Plain(r)
    BY <1>6 DEF Plain
  <2>7. EntriesFor(T.tmp_wlr, W, n + 1)
    BY <2>6, EntriesStay, Zenon
  <2>8. Patterned(W, n + 1) = Patterned(W, n) \cup {n} /\ Bare(W, n + 1) = Bare(W, n)
    BY <1>4, <1>6, Zenon
  <2>9. Built(U, W, n + 1)
    BY <1>1, <2>3, <2>5, <2>7, <2>8, Zenon DEF Built
  <2>. QED BY <2>9 DEF U
<1>7. CASE r.locations # << >> /\ ~r.rx_mz
  <2>. DEFINE wlr == wlr_merge(T.tmp_wlr, r)
  <2>1. Plain(r)
    BY <1>7 DEF Plain
  <2>2. wlr \in Seq(Entry) /\ EntriesFor(wlr, W, n + 1)
    <3>. HIDE DEF wlr
    <3>1. wlr = wlr_merge(T.tmp_wlr, W[n])
      BY DEF wlr
    <3>. QED BY <1>2, <2>1, <3>1, EntriesGrow, Zenon
  <2>. HIDE DEF wlr
  <2>3. U = [T EXCEPT !.tmp_wlr = wlr]
    BY <1>7 DEF add_whitelist, wlr
  <2>. HIDE DEF U
  <2>4. /\ U.tmp_wlr = wlr /\ U.disabled_rules = T.disabled_rules
        /\ U.rxmz_wlr = T.rxmz_wlr
        /\ U \in [disabled_rules : Seq(Accepted), rxmz_wlr : Seq(Accepted),
                  tmp_wlr : Seq(Entry)]
    BY <1>1, <2>2, <2>3
  <2>5. Patterned(W, n + 1) = Patterned(W, n) /\ Bare(W, n + 1) = Bare(W, n)
    BY <1>4, <1>7, Zenon
  <2>6. Built(U, W, n + 1)
    BY <1>1, <2>2, <2>4, <2>5, Zenon DEF Built
  <2>. QED BY <2>6 DEF U
<1>. QED BY <1>2, <1>5, <1>6, <1>7

-----------------------------------------------------------------------------
(***************************************************************************)
(* What the tables exempt                                                  *)
(***************************************************************************)

\* Entries that differ in their ids only answer alike.
Alike(b, c) ==
  /\ b.name = c.name /\ b.zone = c.zone
  /\ b.uri_only = c.uri_only /\ b.target_name = c.target_name

LEMMA AlikeAnswers ==
  ASSUME NEW b, NEW c, Alike(b, c), NEW item, NEW step, Answers(b, item, step),
         nx_check_ids(item.rule_id, c.ids)
  PROVE  Answers(c, item, step)
<1>1. /\ b.name = c.name /\ b.zone = c.zone
      /\ b.uri_only = c.uri_only /\ b.target_name = c.target_name
  BY DEF Alike
<1>2. Candidate(c, item, step)
  BY <1>1, Zenon DEF Answers, Candidate
<1>3. is_whitelist_adapted(b, item, AskedType(step))
  BY Zenon DEF Answers
<1>4. is_whitelist_adapted(c, item, AskedType(step))
  BY <1>1, <1>3 DEF is_whitelist_adapted
<1>. QED BY <1>2, <1>4, Zenon DEF Answers

LEMMA AnswersHolds ==
  ASSUME NEW b, NEW item, NEW step, Answers(b, item, step)
  PROVE  Candidate(b, item, step) /\ nx_check_ids(item.rule_id, b.ids)
BY DEF Answers, is_whitelist_adapted

\* With other ids, the entry of a whitelist is like it.
LEMMA OtherIds ==
  ASSUME NEW r, NEW b, b = [fresh(r) EXCEPT !.ids = b.ids]
  PROVE  Alike(b, fresh(r)) /\ Alike(fresh(r), b)
<1>. DEFINE x == b.ids
<1>1. b = [fresh(r) EXCEPT !.ids = x]
  OBVIOUS
<1>. HIDE DEF x
<1>. QED BY <1>1 DEF Alike, fresh

LEMMA AlikeChains ==
  ASSUME NEW b, NEW c, NEW d, Alike(b, c), Alike(c, d)
  PROVE  Alike(b, d) /\ Alike(c, b)
BY DEF Alike

\* Of clear whitelists, those of one key look alike.
LEMMA ClearAlike ==
  ASSUME NEW r, NEW s, ClearPlain(r), ClearPlain(s),
         fullname(r) = fullname(s), wlr_zone(r) = wlr_zone(s)
  PROVE  Alike(fresh(r), fresh(s))
<1>1. OneEach(r) /\ OneEach(s)
  BY DEF ClearPlain
<1>2. /\ UrlIdx(r) # {} => UriOf(r) \in Uris
      /\ NamedIdx(r) # {} => NameOf(r).target \notin Uris
      /\ UrlIdx(s) # {} => UriOf(s) \in Uris
      /\ NamedIdx(s) # {} => NameOf(s).target \notin Uris
  BY TargetsAreClear, Zenon
<1>3. /\ UrlIdx(r) # {} \/ NamedIdx(r) # {}
      /\ UrlIdx(s) # {} \/ NamedIdx(s) # {}
  BY <1>1, WhatIsLocated
<1>. DEFINE k == fullname(r)
            x == IF UrlIdx(r) # {} THEN UriOf(r) ELSE NameOf(r).target
            y == IF UrlIdx(s) # {} THEN UriOf(s) ELSE NameOf(s).target
<1>4. /\ Len(k) = IF UrlIdx(r) # {} /\ NamedIdx(r) # {}
                  THEN IF "target_name" \in r.flags THEN 4 ELSE 3
                  ELSE IF "target_name" \in r.flags THEN 2 ELSE 1
      /\ Len(k) = IF UrlIdx(s) # {} /\ NamedIdx(s) # {}
                  THEN IF "target_name" \in s.flags THEN 4 ELSE 3
                  ELSE IF "target_name" \in s.flags THEN 2 ELSE 1
  BY <1>1, KeyParts, Zenon
<1>5. /\ Len(k) = 1 => k[1] = x /\ k[1] = y
      /\ Len(k) = 2 => k[2] = x /\ k[2] = y
  BY <1>1, KeyParts, Zenon
<1>. HIDE DEF k, x, y
<1>6. /\ "target_name" \in r.flags <=> "target_name" \in s.flags
      /\ UrlIdx(r) # {} /\ NamedIdx(r) # {} <=> UrlIdx(s) # {} /\ NamedIdx(s) # {}
      /\ ~(UrlIdx(r) # {} /\ NamedIdx(r) # {}) => Len(k) \in {1, 2}
  BY <1>4
<1>7. NamedIdx(r) = {} <=> NamedIdx(s) = {}
  <2>1. CASE UrlIdx(r) # {} /\ NamedIdx(r) # {}
    BY <1>6, <2>1
  <2>2. CASE ~(UrlIdx(r) # {} /\ NamedIdx(r) # {})
    <3>1. x = y
      BY <1>5, <1>6, <2>2
    <3>2. (x \in Uris <=> UrlIdx(r) # {}) /\ (y \in Uris <=> UrlIdx(s) # {})
      BY <1>2, <1>3, <1>6, <2>2 DEF x, y
    <3>. QED BY <1>3, <1>6, <2>2, <3>1, <3>2
  <2>. QED BY <2>1, <2>2
<1>8. /\ ("target_name" \in r.flags) = ("target_name" \in s.flags)
      /\ (NamedIdx(r) = {}) = (NamedIdx(s) = {})
  BY <1>6, <1>7
<1>. QED BY <1>8 DEF Alike, fresh

\* An item for which an entry answers is exempt by one of its whitelists, if
\* those look alike.
LEMMA SomeoneExempts ==
  ASSUME NEW W, NEW n \in Nat \ {0}, NEW b, StandsFor(b, W, n),
         NEW item \in Item, NEW step \in 2 .. 7, Asks(item, step), Answers(b, item, step),
         \A j, l \in 1 .. (n - 1) : Keyed(b, W[j]) /\ Keyed(b, W[l]) =>
           Alike(fresh(W[j]), fresh(W[l]))
  PROVE  \E j \in 1 .. (n - 1) : Plain(W[j]) /\ Exempts(W[j], item)
<1>1. PICK l \in 1 .. (n - 1) : Keyed(b, W[l]) /\ b = [fresh(W[l]) EXCEPT !.ids = b.ids]
  BY Zenon DEF StandsFor
<1>2. nx_check_ids(item.rule_id, b.ids) /\ item.rule_id \in Int
  BY AnswersHolds DEF Item
<1>3. PICK j \in 1 .. (n - 1) : Keyed(b, W[j]) /\ nx_check_ids(item.rule_id, W[j].ids)
  BY <1>2, Zenon DEF StandsFor
<1>4. Alike(b, fresh(W[l])) /\ Alike(fresh(W[l]), fresh(W[j]))
  BY <1>1, <1>3, OtherIds, Zenon
<1>5. Alike(b, fresh(W[j]))
  BY <1>4, AlikeChains, Zenon
<1>6. fresh(W[j]).ids = W[j].ids
  BY DEF fresh
<1>7. Answers(fresh(W[j]), item, step)
  BY <1>3, <1>5, <1>6, AlikeAnswers, Zenon
<1>8. Plain(W[j])
  BY <1>3 DEF Keyed
<1>. QED BY <1>7, <1>8 DEF Exempts, Plain

\* What the tables exempt, some whitelist does, if those of one key look alike.
LEMMA TablesExempt ==
  ASSUME NEW W, NEW n \in Nat \ {0}, NEW T, Built(T, W, n), NEW item \in Item,
         1 .. (n - 1) \subseteq DOMAIN W,
         is_rule_whitelisted(T, item, Enough),
         \A i \in DOMAIN T.tmp_wlr :
           (\E step \in 2 .. 7 : Candidate(T.tmp_wlr[i], item, step)) =>
             \A j, l \in 1 .. (n - 1) :
               Keyed(T.tmp_wlr[i], W[j]) /\ Keyed(T.tmp_wlr[i], W[l]) =>
                 Alike(fresh(W[j]), fresh(W[l]))
  PROVE  \E j \in 1 .. (n - 1) : Exempts(W[j], item)
<1>1. CASE \E i \in DOMAIN T.disabled_rules : disabled(T.disabled_rules[i], item)
  <2>1. PICK i \in DOMAIN T.disabled_rules : disabled(T.disabled_rules[i], item)
    BY <1>1
  <2>2. Gathered(T.disabled_rules, W, Bare(W, n))
    BY Zenon DEF Built
  <2>3. PICK j \in Bare(W, n) : T.disabled_rules[i] = W[j]
    BY <2>2, Zenon DEF Gathered
  <2>4. j \in 1 .. (n - 1) /\ W[j].locations = << >> /\ disabled(W[j], item)
    BY <2>1, <2>3, Zenon DEF Bare
  <2>. QED BY <2>4, Zenon DEF Exempts
<1>2. CASE \E step \in 2 .. 7 : hashed(T, item, step)
  <2>1. PICK step \in 2 .. 7 : hashed(T, item, step)
    BY <1>2
  <2>2. Asks(item, step) /\ \E i \in DOMAIN T.tmp_wlr : Answers(T.tmp_wlr[i], item, step)
    BY <2>1, FoundAnswers, Zenon
  <2>3. PICK i \in DOMAIN T.tmp_wlr : Answers(T.tmp_wlr[i], item, step)
    BY <2>2
  <2>4. StandsFor(T.tmp_wlr[i], W, n)
    BY Zenon DEF Built, EntriesFor
  <2>5. Candidate(T.tmp_wlr[i], item, step)
    BY <2>3, AnswersHolds, Zenon
  <2>6. \A j, l \in 1 .. (n - 1) :
          Keyed(T.tmp_wlr[i], W[j]) /\ Keyed(T.tmp_wlr[i], W[l]) =>
            Alike(fresh(W[j]), fresh(W[l]))
    BY <2>5, Zenon
  <2>7. \E j \in 1 .. (n - 1) : Plain(W[j]) /\ Exempts(W[j], item)
    BY <2>2, <2>3, <2>4, <2>6, SomeoneExempts, Zenon
  <2>. QED BY <2>7, Zenon
<1>3. CASE \E i \in DOMAIN T.rxmz_wlr : whitelisted_rx(T.rxmz_wlr[i], item)
  <2>1. PICK i \in DOMAIN T.rxmz_wlr : whitelisted_rx(T.rxmz_wlr[i], item)
    BY <1>3
  <2>2. Gathered(T.rxmz_wlr, Compiled(W), Patterned(W, n))
    BY Zenon DEF Built
  <2>3. PICK j \in Patterned(W, n) : T.rxmz_wlr[i] = Compiled(W)[j]
    BY <2>2, Zenon DEF Gathered
  <2>4. j \in 1 .. (n - 1) /\ W[j].locations # << >> /\ W[j].rx_mz
    BY <2>3, Zenon DEF Patterned
  <2>5. Compiled(W)[j] = compiled(W[j])
    BY <2>4 DEF Compiled
  <2>. QED BY <2>1, <2>3, <2>4, <2>5, Zenon DEF Exempts
<1>. QED BY <1>1, <1>2, <1>3, NothingFails, Zenon

\* No two whitelists of a location compete.
Apart(W) == \A i, j \in DOMAIN W : i # j => ~Compete(W[i], W[j])

NoNegative(ids) == \A i \in DOMAIN ids : ~(ids[i] < 0)

\* Lists that do not compete for a key are merged, and have no negative ids.
LEMMA ApartMerged ==
  ASSUME NEW r, NEW s, ~Compete(r, s), Plain(r), Plain(s),
         lower_key(fullname(r)) = lower_key(fullname(s)),
         NEW zone \in Zones, wlr_zone(r) \in TableOf(zone), wlr_zone(s) \in TableOf(zone)
  PROVE  /\ fullname(r) = fullname(s) /\ wlr_zone(r) = wlr_zone(s)
         /\ Alike(fresh(r), fresh(s))
         /\ NoNegative(r.ids) /\ NoNegative(s.ids)
<1>1. \A q \in {r, s} : q.locations # << >> /\ ~q.rx_mz
  BY DEF Plain
<1>2. \E z \in Zones : {wlr_zone(r), wlr_zone(s)} \subseteq TableOf(z)
  BY DEF Zones
<1>3. ~(\/ fresh(r) # [fresh(s) EXCEPT !.ids = r.ids]
        \/ \E q \in {r, s} : \E i \in DOMAIN q.ids : q.ids[i] < 0)
  BY <1>1, <1>2, Zenon DEF Compete
<1>4. fresh(r) = [fresh(s) EXCEPT !.ids = r.ids]
  BY <1>3, Zenon
<1>5. /\ fresh(r).name = fullname(r) /\ fresh(r).zone = wlr_zone(r) /\ fresh(r).ids = r.ids
      /\ fresh(s).name = fullname(s) /\ fresh(s).zone = wlr_zone(s)
  BY DEF fresh
<1>6. Alike(fresh(r), fresh(s))
  BY <1>4, <1>5, OtherIds, Zenon
<1>7. r \in {r, s} /\ s \in {r, s}
  OBVIOUS
<1>8. NoNegative(r.ids) /\ NoNegative(s.ids)
  BY <1>3, <1>7, Zenon DEF NoNegative
<1>. QED BY <1>5, <1>6, <1>8, Zenon DEF Alike

LEMMA AskedZones ==
  ASSUME NEW item \in Item, NEW step
  PROVE  AskedZone(item, step) \in Zones
BY DEF AskedZone, Item, Zones

\* Apart, whitelists of entries under the key asked for look alike.
LEMMA ApartAlike ==
  ASSUME NEW W, Apart(W), NEW item \in Item, NEW step,
         NEW j \in DOMAIN W, NEW l \in DOMAIN W, NEW b, NEW c,
         Candidate(b, item, step), Candidate(c, item, step),
         Keyed(b, W[j]), Keyed(c, W[l])
  PROVE  /\ Alike(fresh(W[j]), fresh(W[l]))
         /\ b.name = c.name /\ b.zone = c.zone
         /\ j # l => NoNegative(W[j].ids) /\ NoNegative(W[l].ids)
<1>1. /\ Plain(W[j]) /\ b.name = fullname(W[j]) /\ b.zone = wlr_zone(W[j])
      /\ Plain(W[l]) /\ c.name = fullname(W[l]) /\ c.zone = wlr_zone(W[l])
  BY DEF Keyed
<1>2. /\ b.zone \in TableOf(AskedZone(item, step)) /\ c.zone \in TableOf(AskedZone(item, step))
      /\ lower_key(b.name) = lower_key(c.name)
  BY Zenon DEF Candidate
<1>3. CASE j = l
  BY <1>1, <1>3 DEF Alike
<1>4. CASE j # l
  <2>. DEFINE r == W[j]
              s == W[l]
              z == AskedZone(item, step)
  <2>1. ~Compete(r, s)
    BY <1>4, Zenon DEF Apart
  <2>2. z \in Zones
    BY AskedZones, Zenon
  <2>3. lower_key(fullname(r)) = lower_key(fullname(s))
    <3>. HIDE DEF r, s
    <3>1. b.name = fullname(r) /\ c.name = fullname(s)
      BY <1>1, Zenon DEF r, s
    <3>2. lower_key(b.name) = lower_key(c.name)
      BY <1>2, Zenon
    <3>. QED BY <3>1, <3>2, Zenon
  <2>4. wlr_zone(r) \in TableOf(z) /\ wlr_zone(s) \in TableOf(z)
    BY <1>1, <1>2, Zenon
  <2>5. Plain(r) /\ Plain(s)
    BY <1>1, Zenon
  <2>6. /\ b.name = fullname(r) /\ b.zone = wlr_zone(r)
        /\ c.name = fullname(s) /\ c.zone = wlr_zone(s)
    BY <1>1, Zenon
  <2>. HIDE DEF r, s, z
  <2>7. /\ fullname(r) = fullname(s) /\ wlr_zone(r) = wlr_zone(s)
        /\ Alike(fresh(r), fresh(s))
        /\ NoNegative(r.ids) /\ NoNegative(s.ids)
    BY <2>1, <2>2, <2>3, <2>4, <2>5, ApartMerged, Zenon
  <2>8. b.name = c.name /\ b.zone = c.zone
    BY <2>6, <2>7, Zenon
  <2>. QED BY <2>7, <2>8, Zenon DEF r, s
<1>. QED BY <1>3, <1>4

\* Apart, an entry holds what each of its whitelists holds.
LEMMA HoldsAll ==
  ASSUME NEW W, Apart(W), NEW n \in Nat \ {0}, 1 .. (n - 1) \subseteq DOMAIN W,
         \A i \in DOMAIN W : W[i] \in Accepted,
         NEW b, StandsFor(b, W, n), NEW j \in 1 .. (n - 1), Keyed(b, W[j]),
         NEW item \in Item, NEW step, Candidate(b, item, step),
         NEW id \in Int, nx_check_ids(id, W[j].ids)
  PROVE  nx_check_ids(id, b.ids)
<1>. DEFINE D == 1 .. (n - 1)
<1>1. CASE \A l \in D : Keyed(b, W[l]) => l = j
  <2>1. b.ids = W[j].ids
    BY <1>1, Zenon DEF StandsFor
  <2>. QED BY <2>1
<1>2. CASE ~(\A l \in D : Keyed(b, W[l]) => l = j)
  <2>1. PICK m \in D : Keyed(b, W[m]) /\ m # j
    BY <1>2, Zenon
  <2>2. \A l \in D : l \in DOMAIN W
    OBVIOUS
  <2>3. \A l \in D : Keyed(b, W[l]) => NoNegative(W[l].ids)
    <3>. SUFFICES ASSUME NEW l \in D, Keyed(b, W[l]) PROVE NoNegative(W[l].ids)
      BY Zenon
    <3>1. CASE l # j
      BY <2>2, <3>1, ApartAlike, Zenon
    <3>2. CASE l = j
      BY <2>1, <2>2, <3>2, ApartAlike, Zenon
    <3>. QED BY <3>1, <3>2
  <2>4. W[j].ids \in Seq(Int)
    <3>1. W[j] \in BasicRules
      BY <2>2 DEF Accepted
    <3>. QED BY <3>1 DEF BasicRules
  <2>5. PICK i \in DOMAIN W[j].ids : W[j].ids[i] \in {id, 0}
    <3>1. \A i \in DOMAIN W[j].ids : ~(W[j].ids[i] < 0)
      BY <2>3, Zenon DEF NoNegative
    <3>. QED BY <2>4, <3>1, PositiveIds, Zenon
  <2>. DEFINE x == W[j].ids[i]
  <2>6. x \in ElementsOf(b.ids)
    <3>1. ElementsOf(W[j].ids) \subseteq ElementsOf(b.ids)
      BY Zenon DEF StandsFor
    <3>2. x \in ElementsOf(W[j].ids)
      BY DEF ElementsOf
    <3>. QED BY <3>1, <3>2
  <2>7. b.ids \in Seq(Int)
    <3>1. b \in Entry
      BY Zenon DEF StandsFor
    <3>. QED BY <2>4, <3>1, EntryParts
  <2>8. \A h \in DOMAIN b.ids : ~(b.ids[h] < 0)
    <3>. SUFFICES ASSUME NEW h \in DOMAIN b.ids PROVE ~(b.ids[h] < 0)
      BY Zenon
    <3>. DEFINE y == b.ids[h]
    <3>1. y \in ElementsOf(b.ids)
      BY DEF ElementsOf
    <3>2. PICK l \in D : Keyed(b, W[l]) /\ y \in ElementsOf(W[l].ids)
      BY <3>1, Zenon DEF StandsFor
    <3>3. NoNegative(W[l].ids)
      BY <2>3, <3>2, Zenon
    <3>4. ~(y < 0)
      BY <3>2, <3>3, Zenon DEF ElementsOf, NoNegative
    <3>. QED BY <3>4
  <2>9. PICK h \in DOMAIN b.ids : b.ids[h] = x
    BY <2>6, Zenon DEF ElementsOf
  <2>10. b.ids[h] \in {id, 0}
    BY <2>5, <2>9
  <2>. QED BY <2>7, <2>8, <2>10, PositiveIds, Zenon
<1>. QED BY <1>1, <1>2

\* Apart, what a whitelist exempts alone the tables do.
LEMMA TheTablesTo ==
  ASSUME NEW W, Apart(W), NEW n \in Nat \ {0}, 1 .. (n - 1) \subseteq DOMAIN W,
         \A i \in DOMAIN W : W[i] \in Accepted, NEW T, Built(T, W, n),
         NEW j \in 1 .. (n - 1), NEW item \in Item, Exempts(W[j], item)
  PROVE  is_rule_whitelisted(T, item, Enough)
<1>1. W[j] \in BasicRules /\ W[j].rx_mz \in BOOLEAN /\ j \in DOMAIN W
  <2>1. j \in DOMAIN W
    OBVIOUS
  <2>. QED BY <2>1 DEF Accepted, BasicRules
<1>2. CASE W[j].locations = << >>
  <2>1. j \in Bare(W, n) /\ disabled(W[j], item)
    BY <1>2 DEF Bare, Exempts
  <2>2. PICK i \in DOMAIN T.disabled_rules : T.disabled_rules[i] = W[j]
    BY <2>1, Zenon DEF Built, Gathered
  <2>. QED BY <2>1, <2>2, NothingFails, Zenon
<1>3. CASE W[j].locations # << >> /\ W[j].rx_mz
  <2>1. j \in Patterned(W, n) /\ whitelisted_rx(compiled(W[j]), item)
    BY <1>3 DEF Patterned, Exempts
  <2>2. PICK i \in DOMAIN T.rxmz_wlr : T.rxmz_wlr[i] = Compiled(W)[j]
    BY <2>1, Zenon DEF Built, Gathered
  <2>3. Compiled(W)[j] = compiled(W[j])
    BY <1>1 DEF Compiled
  <2>. QED BY <2>1, <2>2, <2>3, NothingFails, Zenon
<1>4. CASE Plain(W[j])
  <2>. DEFINE tmp == T.tmp_wlr
              r == W[j]
  <2>1. PICK step \in 2 .. 7 : Asks(item, step) /\ Answers(fresh(r), item, step)
    BY <1>4, Zenon DEF Exempts, Plain
  <2>2. /\ tmp \in Seq(Entry)
        /\ \A i \in DOMAIN tmp : StandsFor(tmp[i], W, n)
        /\ \A i, k \in DOMAIN tmp : tmp[i].name = tmp[k].name /\ tmp[i].zone = tmp[k].zone => i = k
        /\ \A l \in 1 .. (n - 1) : Plain(W[l]) => \E i \in DOMAIN tmp : Keyed(tmp[i], W[l])
    BY DEF Built, EntriesFor
  <2>3. PICK i \in DOMAIN tmp : Keyed(tmp[i], r)
    BY <1>4, <2>2, Zenon
  <2>4. i \in Nat
    <3>1. DOMAIN tmp = 1 .. Len(tmp)
      BY <2>2, SeqFacts, Zenon
    <3>. QED BY <3>1
  <2>5. Candidate(fresh(r), item, step) /\ nx_check_ids(item.rule_id, r.ids)
    <3>1. fresh(r).ids = r.ids
      BY DEF fresh
    <3>. QED BY <2>1, <3>1, AnswersHolds, Zenon
  <2>6. fresh(r).name = fullname(r) /\ fresh(r).zone = wlr_zone(r) /\ Keyed(fresh(r), r)
    BY <1>4 DEF fresh, Keyed
  <2>7. Candidate(tmp[i], item, step)
    <3>1. tmp[i].name = fresh(r).name /\ tmp[i].zone = fresh(r).zone
      BY <2>3, <2>6, Zenon DEF Keyed
    <3>. QED BY <2>5, <3>1, Zenon DEF Candidate
  <2>8. \A l \in 1 .. (n - 1) : l \in DOMAIN W
    OBVIOUS
  <2>9. \A k \in DOMAIN tmp : Candidate(tmp[k], item, step) => k = i
    <3>. SUFFICES ASSUME NEW k \in DOMAIN tmp, Candidate(tmp[k], item, step) PROVE k = i
      BY Zenon
    <3>1. PICK l \in 1 .. (n - 1) : Keyed(tmp[k], W[l])
      BY <2>2, Zenon DEF StandsFor
    <3>2. l \in DOMAIN W /\ Keyed(tmp[i], W[j])
      BY <2>3, <2>8, Zenon
    <3>3. Candidate(tmp[i], item, step)
      BY <2>7
    <3>. DEFINE b == tmp[k]
                c == tmp[i]
    <3>4. /\ Keyed(b, W[l]) /\ Keyed(c, W[j]) /\ l \in DOMAIN W /\ j \in DOMAIN W
          /\ Candidate(b, item, step) /\ Candidate(c, item, step)
      BY <1>1, <3>1, <3>2, <3>3, Zenon
    <3>. HIDE DEF b, c, tmp, r
    <3>5. b.name = c.name /\ b.zone = c.zone
      BY <3>4, ApartAlike, SMTT(30)
    <3>6. tmp[k].name = tmp[i].name /\ tmp[k].zone = tmp[i].zone
      BY <3>5, Zenon DEF b, c
    <3>. QED BY <2>2, <3>6, Zenon
  <2>10. Answers(tmp[i], item, step)
    <3>1. StandsFor(tmp[i], W, n)
      BY <2>2, Zenon
    <3>2. PICK m \in 1 .. (n - 1) :
            Keyed(tmp[i], W[m]) /\ tmp[i] = [fresh(W[m]) EXCEPT !.ids = tmp[i].ids]
      BY <3>1, Zenon DEF StandsFor
    <3>3. Alike(fresh(W[m]), tmp[i]) /\ Alike(fresh(r), fresh(W[m]))
      BY <2>3, <2>7, <2>8, <3>2, OtherIds, ApartAlike, Zenon
    <3>4. Alike(fresh(r), tmp[i])
      BY <3>3, AlikeChains, Zenon
    <3>5. item.rule_id \in Int
      BY DEF Item
    <3>6. nx_check_ids(item.rule_id, tmp[i].ids)
      BY <2>3, <2>5, <2>7, <3>1, <3>5, HoldsAll, Zenon
    <3>. QED BY <2>1, <3>4, <3>6, AlikeAnswers, Zenon
  <2>11. hashed(T, item, step)
    BY <2>1, <2>4, <2>9, <2>10, AnswersFound, Zenon
  <2>. QED BY <2>11, NothingFails, Zenon
<1>. QED BY <1>1, <1>2, <1>3, <1>4 DEF Plain

-----------------------------------------------------------------------------
(***************************************************************************)
(* The location                                                            *)
(***************************************************************************)
TypeOK ==
  /\ phase \in {"conf", "build", "serve", "answered", "refused"}
  /\ whitelist_rules \in Seq(Accepted)
  /\ next \in Nat \ {0} /\ next <= Len(whitelist_rules) + 1

\* The tables stand for the whitelists create_hashtables has come to.
Aggregated ==
  /\ Built(tables, whitelist_rules, next)
  /\ \A j \in 1 .. (next - 1) : Taken(whitelist_rules[j])
  /\ phase = "conf" => next = 1 /\ tables = NoTables
  /\ phase \in {"serve", "answered"} => next = Len(whitelist_rules) + 1

\* The answer is the one the tables give.
Answered ==
  /\ phase # "answered" => lookup = NoLookup
  /\ phase = "answered" =>
       /\ lookup.item \in Item
       /\ lookup.whitelisted = is_rule_whitelisted(tables, lookup.item, lookup.failure)

WhitelistInv == TypeOK /\ Aggregated /\ Answered

LEMMA InitInv == Init => WhitelistInv
<1>. SUFFICES ASSUME Init PROVE WhitelistInv
  OBVIOUS
<1>1. /\ phase = "conf" /\ whitelist_rules = << >> /\ tables = NoTables
      /\ next = 1 /\ lookup = NoLookup
  BY DEF Init
<1>2. TypeOK
  BY <1>1 DEF TypeOK
<1>3. Built(tables, whitelist_rules, next)
  BY <1>1, NothingBuilt, Zenon
<1>4. 1 .. (1 - 1) = {} /\ "conf" # "serve" /\ "conf" # "answered"
  OBVIOUS
<1>5. Aggregated
  BY <1>1, <1>3, <1>4 DEF Aggregated
<1>6. Answered
  BY <1>1, <1>4, Zenon DEF Answered
<1>. QED BY <1>2, <1>5, <1>6 DEF WhitelistInv

\* A line of the configuration adds an accepted whitelist.
LEMMA BasicRuleInv ==
  ASSUME WhitelistInv, NEW ids \in IdLists, NEW mz \in MatchZones, BasicRule(ids, mz)
  PROVE  WhitelistInv'
<1>. DEFINE r == naxsi_zone(ids, mz)
<1>1. /\ phase = "conf" /\ tables' = tables /\ next' = next /\ lookup' = lookup
      /\ \/ phase' = "refused" /\ whitelist_rules' = whitelist_rules
         \/ /\ ~r.refused /\ whitelist_rules' = Append(whitelist_rules, r)
            /\ phase' = phase
  BY DEF BasicRule
<1>2. /\ whitelist_rules \in Seq(Accepted) /\ next = 1 /\ tables = NoTables
      /\ lookup = NoLookup
  BY <1>1 DEF WhitelistInv, TypeOK, Aggregated, Answered
<1>3. ids \in Seq(Int) /\ mz \in Seq(Keyword)
  BY WhitelistAssumption
<1>4. whitelist_rules' \in Seq(Accepted) /\ phase' \in {"conf", "refused"}
  <2>1. ~r.refused => r \in Accepted
    BY <1>3, ZoneAccepted, Zenon
  <2>. HIDE DEF r
  <2>. QED BY <1>1, <1>2, <2>1
<1>5. TypeOK'
  BY <1>1, <1>2, <1>4 DEF TypeOK
<1>6. Built(tables, whitelist_rules, next)'
  <2>1. Built(NoTables, whitelist_rules', 1)
    BY NothingBuilt, Zenon
  <2>. QED BY <1>1, <1>2, <2>1, Zenon
<1>7. Aggregated'
  BY <1>1, <1>2, <1>4, <1>6 DEF Aggregated
<1>8. Answered'
  BY <1>1, <1>2, <1>4 DEF Answered
<1>. QED BY <1>5, <1>7, <1>8 DEF WhitelistInv

\* A turn of create_hashtables takes one more whitelist, or refuses it.
LEMMA AggregateInv ==
  ASSUME WhitelistInv, Aggregate
  PROVE  WhitelistInv'
<1>. DEFINE r == whitelist_rules[next]
<1>1. /\ phase = "build" /\ next <= Len(whitelist_rules)
      /\ whitelist_rules' = whitelist_rules /\ lookup' = lookup
      /\ \/ phase' = "refused" /\ tables' = tables /\ next' = next
         \/ /\ r.locations = << >> \/ wlr_identified(r)
            /\ tables' = add_whitelist(tables, r) /\ next' = next + 1 /\ phase' = phase
  BY DEF Aggregate
<1>2. /\ whitelist_rules \in Seq(Accepted) /\ next \in Nat \ {0} /\ lookup = NoLookup
      /\ Built(tables, whitelist_rules, next)
      /\ \A j \in 1 .. (next - 1) : Taken(whitelist_rules[j])
  BY <1>1 DEF WhitelistInv, TypeOK, Aggregated, Answered
<1>3. next \in DOMAIN whitelist_rules /\ r \in Accepted
  BY <1>1, <1>2
<1>4. CASE phase' = "refused" /\ tables' = tables /\ next' = next
  <2>1. TypeOK'
    BY <1>1, <1>2, <1>4 DEF TypeOK
  <2>2. Aggregated'
    BY <1>1, <1>2, <1>4 DEF Aggregated
  <2>3. Answered'
    BY <1>1, <1>2, <1>4 DEF Answered
  <2>. QED BY <2>1, <2>2, <2>3 DEF WhitelistInv
<1>5. CASE /\ r.locations = << >> \/ wlr_identified(r)
           /\ tables' = add_whitelist(tables, r) /\ next' = next + 1 /\ phase' = phase
  <2>1. TypeOK'
    BY <1>1, <1>2, <1>5 DEF TypeOK
  <2>2. Built(add_whitelist(tables, r), whitelist_rules, next + 1)
    BY <1>2, <1>3, BuiltMore, Zenon
  <2>3. Built(tables, whitelist_rules, next)'
    BY <1>1, <1>5, <2>2, Zenon
  <2>4. Taken(r)
    BY <1>3, <1>5, Zenon DEF Taken, wlr_identified
  <2>5. \A j \in 1 .. (next' - 1) : Taken(whitelist_rules'[j])
    <3>1. \A j \in 1 .. (next' - 1) : j = next \/ j \in 1 .. (next - 1)
      BY <1>2, <1>5
    <3>. QED BY <1>1, <1>2, <2>4, <3>1, Zenon
  <2>6. Aggregated'
    BY <1>1, <1>5, <2>3, <2>5 DEF Aggregated
  <2>7. Answered'
    BY <1>1, <1>2, <1>5 DEF Answered
  <2>. QED BY <2>1, <2>6, <2>7 DEF WhitelistInv
<1>. QED BY <1>1, <1>4, <1>5

LEMMA StepInv == WhitelistInv /\ [Next]_vars => WhitelistInv'
<1>. SUFFICES ASSUME WhitelistInv, [Next]_vars PROVE WhitelistInv'
  OBVIOUS
<1>1. CASE \E ids \in IdLists, mz \in MatchZones : BasicRule(ids, mz)
  BY <1>1, BasicRuleInv, Zenon
<1>2. CASE EndConf
  <2>1. /\ phase = "conf" /\ phase' = "build"
        /\ UNCHANGED <<whitelist_rules, tables, next, lookup>>
    BY <1>2 DEF EndConf
  <2>. QED BY <2>1 DEF WhitelistInv, TypeOK, Aggregated, Answered
<1>3. CASE Aggregate
  BY <1>3, AggregateInv
<1>4. CASE Finalize
  <2>1. /\ phase = "build" /\ next > Len(whitelist_rules) /\ phase' = "serve"
        /\ UNCHANGED <<whitelist_rules, tables, next, lookup>>
    BY <1>4 DEF Finalize
  <2>2. next = Len(whitelist_rules) + 1
    <3>1. next \in Nat /\ Len(whitelist_rules) \in Nat /\ next <= Len(whitelist_rules) + 1
      BY DEF WhitelistInv, TypeOK
    <3>. QED BY <2>1, <3>1
  <2>. QED BY <2>1, <2>2 DEF WhitelistInv, TypeOK, Aggregated, Answered
<1>5. CASE \E item \in Items : \E failure \in Failures(tables, item) :
             Lookup(item, failure)
  <2>0. PICK item \in Items : \E failure \in Failures(tables, item) : Lookup(item, failure)
    BY <1>5, Zenon
  <2>1. PICK failure \in Failures(tables, item) : Lookup(item, failure)
    BY <2>0, Zenon
  <2>. DEFINE a == is_rule_whitelisted(tables, item, failure)
  <2>2. /\ phase = "serve" /\ phase' = "answered"
        /\ lookup' = [item |-> item, failure |-> failure, whitelisted |-> a]
        /\ UNCHANGED <<whitelist_rules, tables, next>>
    BY <2>1 DEF Lookup
  <2>3. item \in Item
    BY WhitelistAssumption
  <2>4. lookup'.item = item /\ lookup'.failure = failure /\ lookup'.whitelisted = a
    <3>. HIDE DEF a
    <3>. QED BY <2>2
  <2>5. lookup'.whitelisted = is_rule_whitelisted(tables', lookup'.item, lookup'.failure)
    BY <2>2, <2>4, Zenon
  <2>. HIDE DEF a
  <2>6. Answered'
    BY <2>2, <2>3, <2>4, <2>5, Zenon DEF Answered
  <2>. QED BY <2>2, <2>6 DEF WhitelistInv, TypeOK, Aggregated
<1>6. CASE UNCHANGED vars
  BY <1>6 DEF vars, WhitelistInv, TypeOK, Aggregated, Answered
<1>. QED BY <1>1, <1>2, <1>3, <1>4, <1>5, <1>6 DEF Next

\* At every turn of ngx_http_naxsi_create_hashtables_n the tables stand for
\* the whitelists it has come to, one entry for each key, and a lookup answers
\* by them.
THEOREM Aggregates == Spec => []WhitelistInv
BY InitInv, StepInv, PTL DEF Spec

\* The state of a lookup.
LEMMA WhenAnswered ==
  ASSUME WhitelistInv, phase = "answered"
  PROVE  /\ next \in Nat \ {0} /\ 1 .. (next - 1) = DOMAIN whitelist_rules
         /\ \A j \in DOMAIN whitelist_rules :
              /\ whitelist_rules[j] \in Accepted /\ whitelist_rules[j] \in WhitelistSet
              /\ Taken(whitelist_rules[j])
         /\ \A r \in WhitelistSet : \E j \in DOMAIN whitelist_rules : r = whitelist_rules[j]
         /\ Built(tables, whitelist_rules, next)
         /\ lookup.item \in Item
         /\ lookup.whitelisted = is_rule_whitelisted(tables, lookup.item, lookup.failure)
<1>1. /\ whitelist_rules \in Seq(Accepted) /\ next \in Nat \ {0}
      /\ next = Len(whitelist_rules) + 1
  BY DEF WhitelistInv, TypeOK, Aggregated
<1>2. 1 .. (next - 1) = DOMAIN whitelist_rules
  BY <1>1
<1>3. \A j \in DOMAIN whitelist_rules : whitelist_rules[j] \in Accepted
  BY <1>1
<1>. QED BY <1>1, <1>2, <1>3, Zenon
         DEF WhitelistInv, Aggregated, Answered, WhitelistSet

LEMMA ListedInv == WhitelistInv => OnlyWhatIsListed
<1>. SUFFICES ASSUME WhitelistInv,
                     \A r \in WhitelistSet :
                       /\ Clear(r) /\ ~r.rx_mz
                       /\ lookup # NoLookup =>
                            /\ FilesApart(r, lookup.item)
                            /\ "any" \in r.flags /\ r.locations # << >> =>
                                 lookup.item.name \notin Uris,
                     lookup.whitelisted
              PROVE  \E r \in WhitelistSet : Names(r, lookup.item)
  BY Zenon DEF OnlyWhatIsListed, OnlyListed
<1>. DEFINE W == whitelist_rules
            item == lookup.item
<1>1. phase = "answered" /\ lookup # NoLookup
  <2>1. ~NoLookup.whitelisted
    BY DEF NoLookup
  <2>2. lookup # NoLookup
    BY <2>1, Zenon
  <2>. QED BY <2>2, Zenon DEF WhitelistInv, Answered
<1>2. /\ next \in Nat \ {0} /\ 1 .. (next - 1) = DOMAIN W
      /\ \A j \in DOMAIN W : W[j] \in Accepted /\ W[j] \in WhitelistSet /\ Taken(W[j])
      /\ Built(tables, W, next) /\ item \in Item
      /\ lookup.whitelisted = is_rule_whitelisted(tables, item, lookup.failure)
  BY <1>1, WhenAnswered, Zenon
<1>3. is_rule_whitelisted(tables, item, Enough)
  <2>1. is_rule_whitelisted(tables, item, lookup.failure)
    BY <1>2
  <2>. QED BY <2>1, WhateverFails, Zenon
<1>. DEFINE b(i) == tables.tmp_wlr[i]
<1>4. \A i \in DOMAIN tables.tmp_wlr :
        (\E step \in 2 .. 7 : Candidate(tables.tmp_wlr[i], item, step)) =>
          \A j, l \in 1 .. (next - 1) :
            Keyed(tables.tmp_wlr[i], W[j]) /\ Keyed(tables.tmp_wlr[i], W[l]) =>
              Alike(fresh(W[j]), fresh(W[l]))
  <2>. SUFFICES ASSUME NEW i \in DOMAIN tables.tmp_wlr,
                       NEW j \in 1 .. (next - 1), NEW l \in 1 .. (next - 1),
                       Keyed(b(i), W[j]), Keyed(b(i), W[l])
                PROVE  Alike(fresh(W[j]), fresh(W[l]))
    BY Zenon
  <2>. DEFINE r == W[j]
              s == W[l]
  <2>1. Taken(r) /\ Clear(r) /\ Taken(s) /\ Clear(s)
    BY <1>2, Zenon
  <2>2. /\ Plain(r) /\ fullname(r) = b(i).name /\ wlr_zone(r) = b(i).zone
        /\ Plain(s) /\ fullname(s) = b(i).name /\ wlr_zone(s) = b(i).zone
    BY DEF Keyed
  <2>. HIDE DEF r, s, b
  <2>3. ClearPlain(r) /\ ClearPlain(s)
    BY <2>1, <2>2, TakenClear, Zenon
  <2>4. fullname(r) = fullname(s) /\ wlr_zone(r) = wlr_zone(s)
    BY <2>2, Zenon
  <2>. QED BY <2>3, <2>4, ClearAlike, Zenon DEF r, s
<1>5. 1 .. (next - 1) \subseteq DOMAIN W
  BY <1>2
<1>. HIDE DEF W, item
<1>6. PICK j \in 1 .. (next - 1) : Exempts(W[j], item)
  BY <1>2, <1>3, <1>4, <1>5, TablesExempt, Zenon
<1>. DEFINE r == W[j]
<1>7. r \in WhitelistSet /\ Taken(r)
  BY <1>2, <1>5, Zenon
<1>8. /\ Clear(r) /\ ~r.rx_mz /\ FilesApart(r, item)
      /\ "any" \in r.flags /\ r.locations # << >> => item.name \notin Uris
  BY <1>1, <1>7, Zenon DEF item
<1>9. Exempts(r, item)
  BY <1>6
<1>. HIDE DEF r
<1>10. Names(r, item)
  BY <1>2, <1>7, <1>8, <1>9, ExemptsWhatItNames, Zenon
<1>. QED BY <1>7, <1>10, Zenon DEF item

LEMMA AggregationInv == WhitelistInv => Aggregation
<1>. SUFFICES ASSUME WhitelistInv, phase = "answered", lookup.failure = Enough, NoneCompete
              PROVE  lookup.whitelisted =
                       \E r \in WhitelistSet :
                         is_rule_whitelisted(add_whitelist(NoTables, r), lookup.item, Enough)
  BY Zenon DEF Aggregation
<1>. DEFINE W == whitelist_rules
            item == lookup.item
            alone == \E r \in WhitelistSet :
                       is_rule_whitelisted(add_whitelist(NoTables, r), item, Enough)
<1>1. /\ next \in Nat \ {0} /\ 1 .. (next - 1) = DOMAIN W
      /\ \A j \in DOMAIN W : W[j] \in Accepted /\ W[j] \in WhitelistSet
      /\ \A r \in WhitelistSet : \E j \in DOMAIN W : r = W[j]
      /\ Built(tables, W, next) /\ item \in Item
      /\ lookup.whitelisted = is_rule_whitelisted(tables, item, Enough)
  BY WhenAnswered, Zenon
<1>2. Apart(W) /\ 1 .. (next - 1) \subseteq DOMAIN W
  BY <1>1, Zenon DEF NoneCompete, Apart
<1>3. \A r \in WhitelistSet : r \in BasicRules
  BY <1>1, Zenon DEF Accepted
<1>4. alone <=> \E j \in 1 .. (next - 1) : Exempts(W[j], item)
  <2>1. \A r \in WhitelistSet :
          is_rule_whitelisted(add_whitelist(NoTables, r), item, Enough)
            <=> Exempts(r, item)
    BY <1>3, AloneExempts, Zenon
  <2>. HIDE DEF W, item
  <2>. QED BY <1>1, <2>1, Zenon
<1>5. is_rule_whitelisted(tables, item, Enough) => \E j \in 1 .. (next - 1) : Exempts(W[j], item)
  <2>. SUFFICES ASSUME is_rule_whitelisted(tables, item, Enough)
                PROVE  \E j \in 1 .. (next - 1) : Exempts(W[j], item)
    OBVIOUS
  <2>. DEFINE b(i) == tables.tmp_wlr[i]
  <2>1. \A i \in DOMAIN tables.tmp_wlr :
          (\E step \in 2 .. 7 : Candidate(tables.tmp_wlr[i], item, step)) =>
            \A j, l \in 1 .. (next - 1) :
              Keyed(tables.tmp_wlr[i], W[j]) /\ Keyed(tables.tmp_wlr[i], W[l]) =>
                Alike(fresh(W[j]), fresh(W[l]))
    <3>. SUFFICES ASSUME NEW i \in DOMAIN tables.tmp_wlr, NEW step \in 2 .. 7,
                         Candidate(b(i), item, step),
                         NEW j \in 1 .. (next - 1), NEW l \in 1 .. (next - 1),
                         Keyed(b(i), W[j]), Keyed(b(i), W[l])
                  PROVE  Alike(fresh(W[j]), fresh(W[l]))
      BY Zenon
    <3>1. j \in DOMAIN W /\ l \in DOMAIN W
      BY <1>1, Zenon
    <3>. HIDE DEF W, item, b
    <3>. QED BY <1>1, <1>2, <3>1, ApartAlike, Zenon
  <2>. HIDE DEF W, item
  <2>. QED BY <1>1, <1>2, <2>1, TablesExempt, Zenon
<1>6. (\E j \in 1 .. (next - 1) : Exempts(W[j], item)) => is_rule_whitelisted(tables, item, Enough)
  <2>. HIDE DEF W, item
  <2>. QED BY <1>1, <1>2, TheTablesTo, Zenon
<1>7. is_rule_whitelisted(tables, item, Enough) <=> alone
  BY <1>4, <1>5, <1>6, Zenon
<1>8. is_rule_whitelisted(tables, item, Enough) \in BOOLEAN /\ alone \in BOOLEAN
  BY DEF is_rule_whitelisted
<1>. QED BY <1>1, <1>7, <1>8

LEMMA AppliesInv == WhitelistInv => WhitelistsApply
<1>. SUFFICES ASSUME WhitelistInv, phase = "answered", lookup.failure = Enough, NoneCompete,
                     NEW r \in WhitelistSet, Clear(r), ~("any" \in r.flags /\ r.rx_mz),
                     Names(r, lookup.item)
              PROVE  lookup.whitelisted
  BY Zenon DEF WhitelistsApply
<1>. DEFINE W == whitelist_rules
            item == lookup.item
<1>1. /\ next \in Nat \ {0} /\ 1 .. (next - 1) = DOMAIN W
      /\ \A j \in DOMAIN W : W[j] \in Accepted /\ Taken(W[j])
      /\ Built(tables, W, next) /\ item \in Item
      /\ lookup.whitelisted = is_rule_whitelisted(tables, item, Enough)
  BY WhenAnswered, Zenon
<1>2. Apart(W) /\ 1 .. (next - 1) \subseteq DOMAIN W
  BY <1>1, Zenon DEF NoneCompete, Apart
<1>3. PICK j \in DOMAIN W : r = W[j]
  BY WhenAnswered, Zenon
<1>4. Taken(r)
  BY <1>1, <1>3, Zenon
<1>5. Exempts(r, item)
  <2>. HIDE DEF W
  <2>. QED BY <1>1, <1>4, NamedIsExempt, Zenon
<1>6. j \in 1 .. (next - 1) /\ Exempts(W[j], item)
  BY <1>1, <1>3, <1>5, Zenon
<1>7. is_rule_whitelisted(tables, item, Enough)
  <2>. HIDE DEF W, item
  <2>. QED BY <1>1, <1>2, <1>6, TheTablesTo, Zenon
<1>. QED BY <1>1, <1>7

\* What is_rule_whitelisted_n exempts some whitelist of the location names, be
\* there as many as there may, merged as they may, and whatever could not be
\* allocated, when the whitelists are clear plain ones.
THEOREM ListedThroughout == Spec => []OnlyWhatIsListed
BY Aggregates, ListedInv, PTL

\* When none compete, together whitelists exempt exactly what each exempts
\* alone: neither the merge of create_hashtables nor the lower case of the
\* keys makes a difference.
THEOREM AggregationThroughout == Spec => []Aggregation
BY Aggregates, AggregationInv, PTL

\* When none compete and memory suffices, what a clear whitelist names is
\* exempt: the keys the lookup asks for are the ones create_hashtables made.
THEOREM AppliesThroughout == Spec => []WhitelistsApply
BY Aggregates, AppliesInv, PTL
-----------------------------------------------------------------------------

-----------------------------------------------------------------------------
(***************************************************************************)
(* Rules: the search for a pattern                                         *)
(***************************************************************************)
\* A text is in memory, its end perhaps before the end of the memory.
IsText(text) ==
  /\ text.bytes \in Seq(Chars) /\ text.len \in Nat /\ text.len <= Len(text.bytes)

\* Nothing begins in the text and ends beyond it.
Contained(text, needle) ==
  \A p \in 1 .. text.len : StandsAt(text.bytes, p, needle) => Within(text, p, needle)

Later(text, from, needle) == {p \in from .. text.len : Within(text, p, needle)}

\* What strfaststr answers: the first place from `from` on, or 0.
IsFirst(text, from, needle, p) ==
  IF Later(text, from, needle) = {} THEN p = 0
  ELSE p \in Later(text, from, needle) /\ \A q \in Later(text, from, needle) : p <= q

\* f follows the loop of strfaststr, and the answer is f's.
SearchLoop(text, from, needle, f) ==
  /\ f = [p \in from .. (text.len + 1) |->
            IF p = text.len + 1 THEN 0
            ELSE IF low[text.bytes[p]] # needle[1] THEN f[p + 1]
            ELSE IF StandsAt(text.bytes, p, needle) THEN p
            ELSE IF p + Len(needle) >= text.len + 1 THEN 0
            ELSE f[p + 1]]
  /\ strfaststr(text, from, needle)
       = IF (text.len + 1) - from < Len(needle) THEN 0 ELSE f[from]

\* The recursion of strfaststr has a solution.
LEMMA SearchIs ==
  ASSUME NEW text, text.len \in Nat, NEW from \in Nat, NEW needle,
         Len(needle) \in Nat
  PROVE  \E f : SearchLoop(text, from, needle, f)
<1>. DEFINE end == text.len + 1
            D == from .. end
            E(p, f) == IF p = end THEN 0
                       ELSE IF low[text.bytes[p]] # needle[1] THEN f[p + 1]
                       ELSE IF StandsAt(text.bytes, p, needle) THEN p
                       ELSE IF p + Len(needle) >= end THEN 0
                       ELSE f[p + 1]
            G == [x \in D \X [D -> Nat] |-> E(x[1], x[2])]
<1>1. /\ end \in Nat
      /\ \A p \in D : p \in Nat /\ (p # end => p + 1 \in D /\ p + 1 \in (p + 1) .. end)
  OBVIOUS
<1>2. \A p \in D : \A f \in [D -> Nat] : E(p, f) \in Nat
  BY <1>1
<1>3. G \in [D \X [D -> Nat] -> Nat]
  <2>. HIDE DEF E, D
  <2>. QED BY <1>2
<1>4. \A p \in D : \A f \in [D -> Nat] : G[<<p, f>>] = E(p, f)
  <2>. HIDE DEF E, D
  <2>. QED OBVIOUS
<1>5. \A p \in D : \A f, g \in [D -> Nat] :
        (\A q \in (p + 1) .. end : f[q] = g[q]) => E(p, f) = E(p, g)
  <2>. SUFFICES ASSUME NEW p \in D, NEW f \in [D -> Nat], NEW g \in [D -> Nat],
                       \A q \in (p + 1) .. end : f[q] = g[q]
                PROVE  E(p, f) = E(p, g)
    OBVIOUS
  <2>1. p # end => f[p + 1] = g[p + 1]
    BY <1>1
  <2>. HIDE DEF D, end
  <2>. QED BY <2>1, Zenon
<1>6. \E f \in [D -> Nat] : \A p \in D : f[p] = G[<<p, f>>]
  <2>. HIDE DEF G, E
  <2>1. \A p \in D : \A f, g \in [D -> Nat] :
          (\A q \in (p + 1) .. end : f[q] = g[q]) => G[<<p, f>>] = G[<<p, g>>]
    <3>. HIDE DEF D, end
    <3>. SUFFICES ASSUME NEW p \in D, NEW f \in [D -> Nat], NEW g \in [D -> Nat],
                         \A q \in (p + 1) .. end : f[q] = g[q]
                  PROVE  G[<<p, f>>] = G[<<p, g>>]
      OBVIOUS
    <3>1. E(p, f) = E(p, g)
      BY <1>5, Zenon
    <3>2. G[<<p, f>>] = E(p, f) /\ G[<<p, g>>] = E(p, g)
      BY <1>4, Zenon
    <3>. QED BY <3>1, <3>2, Zenon
  <2>2. Backward(from, end, Nat, G)
    <3>1. from \in Nat /\ end \in Nat /\ Nat # {}
      BY <1>1
    <3>. HIDE DEF end
    <3>. QED BY <1>3, <2>1, <3>1, Zenon DEF Backward
  <2>. HIDE DEF end
  <2>. HIDE DEF D
  <2>3. \E f \in [from .. end -> Nat] : \A p \in from .. end : f[p] = G[<<p, f>>]
    BY <2>2, BackwardExists
  <2>. QED BY <2>3 DEF D
<1>7. PICK f \in [D -> Nat] : \A p \in D : f[p] = E(p, f)
  <2>. HIDE DEF G, E, D
  <2>. QED BY <1>4, <1>6, Zenon
<1>8. f = [p \in D |-> E(p, f)]
  <2>. HIDE DEF E, D
  <2>. QED BY <1>7
<1>9. \E g : g = [p \in D |-> E(p, g)]
  <2>. HIDE DEF E, D
  <2>. QED BY <1>8, Zenon
<1>. QED BY <1>9, Zenon DEF strfaststr, SearchLoop

IsNeedle(needle) == needle \in Seq(Chars) /\ needle # << >>

LEMMA NeedleFacts ==
  ASSUME NEW needle, IsNeedle(needle)
  PROVE  Len(needle) \in Nat \ {0} /\ DOMAIN needle = 1 .. Len(needle) /\ 1 \in DOMAIN needle
BY DEF IsNeedle

\* strfaststr finds the first place of a needle that nothing that begins in
\* the text and ends beyond it looks like.
LEMMA StrFound ==
  ASSUME NEW text, IsText(text), NEW needle, IsNeedle(needle), Contained(text, needle),
         NEW from \in 1 .. text.len + 1
  PROVE  IsFirst(text, from, needle, strfaststr(text, from, needle))
<1>. DEFINE end == text.len + 1
            nl == Len(needle)
            D == from .. end
            bytes == text.bytes
            Mis(p) == low[bytes[p]] # needle[1]
            At(p) == StandsAt(bytes, p, needle)
            In(p) == Within(text, p, needle)
<1>1. /\ nl \in Nat /\ nl >= 1 /\ DOMAIN needle = 1 .. nl /\ 1 \in DOMAIN needle
      /\ text.len \in Nat /\ end \in Nat /\ from \in Nat /\ from >= 1
  BY NeedleFacts DEF IsText
<1>2. PICK f : SearchLoop(text, from, needle, f)
  <2>1. text.len \in Nat /\ from \in Nat /\ Len(needle) \in Nat
    BY <1>1
  <2>. QED BY <2>1, SearchIs, Zenon
<1>2a. /\ f = [p \in D |->
                  IF p = end THEN 0
                  ELSE IF Mis(p) THEN f[p + 1]
                  ELSE IF At(p) THEN p
                  ELSE IF p + nl >= end THEN 0
                  ELSE f[p + 1]]
      /\ strfaststr(text, from, needle) = IF end - from < nl THEN 0 ELSE f[from]
  BY <1>2, Zenon DEF SearchLoop
<1>3. \A p \in D : f[p] = IF p = end THEN 0
                          ELSE IF Mis(p) THEN f[p + 1]
                          ELSE IF At(p) THEN p
                          ELSE IF p + nl >= end THEN 0
                          ELSE f[p + 1]
  <2>. HIDE DEF D, Mis, At, end, nl
  <2>. DEFINE E(p) == IF p = end THEN 0
                      ELSE IF Mis(p) THEN f[p + 1]
                      ELSE IF At(p) THEN p
                      ELSE IF p + nl >= end THEN 0
                      ELSE f[p + 1]
  <2>1. f = [p \in D |-> E(p)]
    BY <1>2a, Zenon
  <2>2. \A p \in D : f[p] = E(p)
    <3>. HIDE DEF E
    <3>. QED BY <2>1
  <2>. QED BY <2>2, Zenon
<1>4. \A p \in D : p # end =>
        /\ Mis(p) => ~At(p)
        /\ At(p) <=> In(p)
        /\ In(p) => p + nl <= end
  <2>. SUFFICES ASSUME NEW p \in D, p # end
                PROVE  /\ Mis(p) => ~At(p)
                       /\ At(p) <=> In(p)
                       /\ In(p) => p + nl <= end
    OBVIOUS
  <2>1. p \in 1 .. text.len /\ p + 1 - 1 = p
    BY <1>1
  <2>2. Mis(p) => ~At(p)
    BY <1>1, <2>1 DEF StandsAt
  <2>3. At(p) <=> In(p)
    BY <2>1 DEF Contained, Within
  <2>4. In(p) => p + nl <= end
    BY <1>1, <2>1 DEF Within
  <2>. QED BY <2>2, <2>3, <2>4
<1>5. \A p \in Nat : p >= from =>
        \A q : q \in Later(text, p, needle) <=> q \in D /\ q # end /\ p <= q /\ In(q)
  BY <1>1 DEF Later
<1>. HIDE DEF Mis, At, In
<1>. DEFINE S == {p \in D : IsFirst(text, p, needle, f[p])}
<1>6. ASSUME NEW p \in D, \A j \in (p + 1) .. end : j \in S
      PROVE  p \in S
  <2>. DEFINE L == Later(text, p, needle)
  <2>1. p \in Nat /\ p >= from /\ p <= end
    BY <1>1
  <2>2. \A q : q \in L <=> q \in D /\ q # end /\ p <= q /\ In(q)
    BY <1>5, <2>1
  <2>3. CASE p = end
    <3>1. L = {}
      BY <1>1, <2>2, <2>3
    <3>2. f[p] = 0
      BY <1>3, <2>3
    <3>. QED BY <3>1, <3>2 DEF IsFirst
  <2>4. CASE p # end
    <3>1. p + 1 \in D /\ p + 1 \in (p + 1) .. end
      BY <1>1, <2>1, <2>4
    <3>. DEFINE M == Later(text, p + 1, needle)
    <3>2. \A q : q \in M <=> q \in D /\ q # end /\ p + 1 <= q /\ In(q)
      BY <1>1, <1>5, <2>1
    <3>3. IsFirst(text, p + 1, needle, f[p + 1])
      BY <1>6, <3>1
    <3>4. CASE In(p)
      <4>1. ~Mis(p) /\ At(p)
        BY <1>4, <2>4, <3>4
      <4>2. f[p] = p
        BY <1>3, <2>4, <4>1
      <4>3. p \in L /\ \A q \in L : p <= q
        BY <2>2, <2>4, <3>4
      <4>. HIDE DEF L
      <4>. QED BY <4>2, <4>3 DEF IsFirst, L
    <3>5. CASE ~In(p)
      <4>1. L = M
        <5>1. \A q \in D : p <= q /\ q # p <=> p + 1 <= q
          BY <1>1, <2>1
        <5>. HIDE DEF L, M
        <5>. QED BY <2>2, <3>2, <3>5, <5>1
      <4>2. ~At(p)
        BY <1>4, <2>4, <3>5
      <4>3. f[p] = f[p + 1] \/ (f[p] = 0 /\ p + nl >= end)
        BY <1>3, <2>4, <4>2
      <4>4. CASE f[p] = f[p + 1]
        BY <3>3, <4>1, <4>4 DEF IsFirst
      <4>5. CASE f[p] = 0 /\ p + nl >= end
        <5>1. M = {}
          <6>1. \A q \in M : q + nl <= end /\ q \in Nat /\ p + 1 <= q
            BY <1>1, <1>4, <3>2
          <6>. QED BY <1>1, <2>1, <4>5, <6>1
        <5>. QED BY <4>1, <4>5, <5>1 DEF IsFirst
      <4>. QED BY <4>3, <4>4, <4>5
    <3>. QED BY <3>4, <3>5
  <2>. QED BY <2>3, <2>4
<1>7. \A p \in D : p \in S
  <2>. HIDE DEF S, end
  <2>. QED BY <1>1, <1>6, DownFrom
<1>8. from \in D
  BY <1>1
<1>9. CASE end - from < nl
  <2>1. Later(text, from, needle) = {}
    BY <1>1, <1>4, <1>5, <1>9
  <2>. QED BY <1>2a, <1>9, <2>1 DEF IsFirst
<1>10. CASE ~(end - from < nl)
  BY <1>2a, <1>7, <1>8, <1>10
<1>. QED BY <1>9, <1>10

\* A sum along the places that J leads to, up to the first it leads nowhere from.
LEMMA SumExists ==
  ASSUME NEW hi \in Nat, NEW A \in [1 .. hi -> Nat], NEW J \in [1 .. hi -> Nat],
         \A i \in 1 .. hi : J[i] = 0 \/ J[i] \in (i + 1) .. hi
  PROVE  \E f \in [1 .. hi -> Nat] :
           \A i \in 1 .. hi : f[i] = IF J[i] = 0 THEN A[i] ELSE A[i] + f[J[i]]
<1>. DEFINE D == 1 .. hi
            E(i, f) == IF J[i] = 0 THEN A[i] ELSE A[i] + f[J[i]]
            G == [x \in D \X [D -> Nat] |-> E(x[1], x[2])]
<1>1. \A i \in D : J[i] = 0 \/ (J[i] \in D /\ J[i] \in (i + 1) .. hi)
  OBVIOUS
<1>2. ASSUME NEW i \in D, NEW f \in [D -> Nat]
      PROVE  E(i, f) \in Nat
  <2>1. A[i] \in Nat
    OBVIOUS
  <2>2. CASE J[i] = 0
    BY <2>1, <2>2
  <2>3. CASE J[i] # 0
    <3>1. f[J[i]] \in Nat
      BY <1>1, <2>3
    <3>2. \A x, y \in Nat : x + y \in Nat
      OBVIOUS
    <3>3. A[i] + f[J[i]] \in Nat
      BY <2>1, <3>1, <3>2, Zenon
    <3>. QED BY <2>3, <3>3, Zenon
  <2>. QED BY <2>2, <2>3
<1>3. G \in [D \X [D -> Nat] -> Nat] /\ \A i \in D : \A f \in [D -> Nat] : G[<<i, f>>] = E(i, f)
  <2>. HIDE DEF E, D
  <2>. QED BY <1>2
<1>4. ASSUME NEW i \in D, NEW f \in [D -> Nat], NEW g \in [D -> Nat],
             \A j \in (i + 1) .. hi : f[j] = g[j]
      PROVE  G[<<i, f>>] = G[<<i, g>>]
  <2>1. J[i] # 0 => f[J[i]] = g[J[i]]
    BY <1>1, <1>4
  <2>. HIDE DEF G, D
  <2>2. E(i, f) = E(i, g)
    BY <2>1
  <2>3. G[<<i, f>>] = E(i, f) /\ G[<<i, g>>] = E(i, g)
    <3>. HIDE DEF E
    <3>. QED BY <1>3, Zenon
  <2>. HIDE DEF E
  <2>. QED BY <2>2, <2>3, Zenon
<1>5. Backward(1, hi, Nat, G)
  <2>1. \A i \in 1 .. hi : \A f, g \in [1 .. hi -> Nat] :
          (\A j \in (i + 1) .. hi : f[j] = g[j]) => G[<<i, f>>] = G[<<i, g>>]
    <3>. HIDE DEF G
    <3>. QED BY <1>4, Zenon
  <2>2. 1 \in Nat /\ Nat # {}
    OBVIOUS
  <2>. HIDE DEF G
  <2>. QED BY <1>3, <2>1, <2>2, Zenon DEF Backward
<1>. HIDE DEF G, D
<1>6. \E f \in [1 .. hi -> Nat] : \A i \in 1 .. hi : f[i] = G[<<i, f>>]
  <2>. HIDE DEF E
  <2>. DEFINE one == 1
  <2>1. Backward(one, hi, Nat, G)
    BY <1>5
  <2>. HIDE DEF one
  <2>2. \E f \in [one .. hi -> Nat] : \A i \in one .. hi : f[i] = G[<<i, f>>]
    BY ONLY <2>1, BackwardExists
  <2>. QED BY <2>2 DEF one
<1>7. PICK f \in [1 .. hi -> Nat] : \A i \in 1 .. hi : f[i] = G[<<i, f>>]
  BY <1>6
<1>8. \A i \in 1 .. hi : f[i] = E(i, f)
  <2>. HIDE DEF E
  <2>. QED BY <1>3, <1>7, Zenon DEF D
<1>. QED BY <1>8, Zenon

\* One more place in front of others is one more.
LEMMA OneBefore ==
  ASSUME NEW S, IsFiniteSet(S), NEW p, p \notin S
  PROVE  IsFiniteSet(S \cup {p}) /\ Cardinality(S \cup {p}) = Cardinality(S) + 1
BY FS_AddElement

LEMMA LaterFacts ==
  ASSUME NEW text, IsText(text), NEW needle, IsNeedle(needle), NEW from \in 1 .. text.len + 1
  PROVE  /\ IsFiniteSet(Later(text, from, needle))
         /\ \A p \in Later(text, from, needle) :
              p \in from .. text.len /\ p + Len(needle) \in (p + 1) .. (text.len + 1)
<1>1. /\ text.len \in Nat /\ from \in Nat /\ Len(needle) \in Nat /\ Len(needle) >= 1
  <2>1. text.len \in Nat
    BY DEF IsText
  <2>2. Len(needle) \in Nat \ {0}
    BY NeedleFacts
  <2>. QED BY <2>1, <2>2
<1>2. Later(text, from, needle) \subseteq from .. text.len
  BY DEF Later
<1>3. IsFiniteSet(Later(text, from, needle))
  <2>1. IsFiniteSet(from .. text.len)
    <3>1. from \in Int /\ text.len \in Int
      BY <1>1
    <3>. QED BY ONLY <3>1, FS_Interval
  <2>. QED BY <1>2, <2>1, FS_Subset
<1>4. ASSUME NEW p \in Later(text, from, needle)
      PROVE  p \in from .. text.len /\ p + Len(needle) \in (p + 1) .. (text.len + 1)
  <2>1. p \in from .. text.len /\ p + Len(needle) - 1 <= text.len
    BY <1>4 DEF Later, Within
  <2>. QED BY <1>1, <2>1
<1>. QED BY <1>3, <1>4

\* From its first place on, the places of a needle are that one and the later.
LEMMA FirstAndLater ==
  ASSUME NEW text, IsText(text), NEW needle, NEW from \in 1 .. text.len + 1,
         NEW p, IsFirst(text, from, needle, p), Later(text, from, needle) # {}
  PROVE  /\ p \in from .. text.len /\ p + 1 \in 1 .. text.len + 1 /\ Within(text, p, needle)
         /\ p \notin Later(text, p + 1, needle)
         /\ Later(text, from, needle) = Later(text, p + 1, needle) \cup {p}
<1>1. text.len \in Nat /\ from \in Nat /\ from >= 1
  BY DEF IsText
<1>2. p \in Later(text, from, needle) /\ \A q \in Later(text, from, needle) : p <= q
  BY DEF IsFirst
<1>3. p \in from .. text.len /\ Within(text, p, needle)
  BY <1>2 DEF Later
<1>4. \A q : q \in Later(text, from, needle) <=> q \in from .. text.len /\ Within(text, q, needle)
  BY DEF Later
<1>5. \A q : q \in Later(text, p + 1, needle) <=> q \in (p + 1) .. text.len /\ Within(text, q, needle)
  BY DEF Later
<1>6. \A q \in from .. text.len : p <= q <=> q = p \/ q \in (p + 1) .. text.len
  BY <1>1, <1>3
<1>7. \A q \in (p + 1) .. text.len : q \in from .. text.len /\ q # p
  BY <1>1, <1>3
<1>8. Later(text, from, needle) = Later(text, p + 1, needle) \cup {p}
  BY <1>2, <1>3, <1>4, <1>5, <1>6, <1>7
<1>9. p \notin Later(text, p + 1, needle) /\ p + 1 \in 1 .. text.len + 1
  BY <1>1, <1>3, <1>5
<1>. QED BY <1>3, <1>8, <1>9

\* A string is counted at each of its places.
LEMMA CountsPlaces ==
  ASSUME NEW text, IsText(text), NEW needle, IsNeedle(needle), Contained(text, needle)
  PROVE  CountStr(text, needle) = Cardinality(Places(text, needle))
<1>. DEFINE hi == text.len + 1
            D == 1 .. hi
            P(from) == strfaststr(text, from, needle)
            J == [from \in D |-> IF P(from) = 0 \/ P(from) + 1 > text.len THEN 0
                                 ELSE P(from) + 1]
            A == [from \in D |-> IF P(from) = 0 THEN 0 ELSE 1]
            E(from, f) == IF P(from) = 0 THEN 0
                          ELSE IF P(from) + 1 > text.len THEN 1
                          ELSE 1 + f[P(from) + 1]
            L(from) == Later(text, from, needle)
<1>1. /\ text.len \in Nat /\ hi \in Nat /\ 1 \in D
      /\ \A i \in D : i \in Nat
  BY DEF IsText
<1>2. ASSUME NEW from \in D
      PROVE  /\ P(from) \in Nat
             /\ P(from) = 0 => L(from) = {}
             /\ P(from) # 0 =>
                  /\ P(from) \in from .. text.len
                  /\ L(from) = L(P(from) + 1) \cup {P(from)} /\ P(from) \notin L(P(from) + 1)
  <2>1. IsFirst(text, from, needle, P(from))
    BY StrFound
  <2>2. CASE L(from) = {}
    <3>1. P(from) = 0
      BY <2>1, <2>2 DEF IsFirst
    <3>. QED BY <2>2, <3>1
  <2>3. CASE L(from) # {}
    <3>1. /\ P(from) \in from .. text.len
          /\ L(from) = L(P(from) + 1) \cup {P(from)} /\ P(from) \notin L(P(from) + 1)
      <4>. HIDE DEF P
      <4>. QED BY <2>1, <2>3, FirstAndLater
    <3>. HIDE DEF P, L
    <3>2. P(from) \in Nat /\ P(from) # 0
      BY <1>1, <3>1
    <3>. QED BY <3>1, <3>2
  <2>. QED BY <2>2, <2>3
<1>3. \A from \in D : IsFiniteSet(L(from))
  BY LaterFacts
<1>. HIDE DEF P, L
<1>4. /\ A \in [D -> Nat] /\ J \in [D -> Nat]
      /\ \A i \in D : J[i] = 0 \/ J[i] \in (i + 1) .. hi
  BY <1>1, <1>2
<1>5. \E f \in [D -> Nat] : \A i \in D : f[i] = IF J[i] = 0 THEN A[i] ELSE A[i] + f[J[i]]
  <2>. HIDE DEF A, J, hi
  <2>. QED BY <1>1, <1>4, SumExists
<1>6. PICK f \in [D -> Nat] : \A i \in D : f[i] = IF J[i] = 0 THEN A[i] ELSE A[i] + f[J[i]]
  BY <1>5
<1>7. \A i \in D : f[i] = E(i, f)
  <2>. SUFFICES ASSUME NEW i \in D PROVE f[i] = E(i, f)
    OBVIOUS
  <2>1. /\ J[i] = IF P(i) = 0 \/ P(i) + 1 > text.len THEN 0 ELSE P(i) + 1
        /\ A[i] = IF P(i) = 0 THEN 0 ELSE 1
    OBVIOUS
  <2>2. f[i] = IF J[i] = 0 THEN A[i] ELSE A[i] + f[J[i]]
    BY <1>6
  <2>3. P(i) \in Nat
    BY <1>2
  <2>. HIDE DEF J, A, D
  <2>4. P(i) # 0 => P(i) + 1 # 0
    BY <2>3
  <2>. QED BY <2>1, <2>2, <2>4
<1>8. f = [i \in D |-> E(i, f)]
  <2>. HIDE DEF E, D
  <2>. QED BY <1>6, <1>7
<1>9. \E g : g = [i \in D |-> E(i, g)]
  <2>. HIDE DEF E, D
  <2>. QED BY <1>8, Zenon
<1>10. PICK g : g = [i \in D |-> E(i, g)] /\ CountStr(text, needle) = g[1]
  BY <1>9, Zenon DEF CountStr, P
<1>11. \A i \in D : g[i] = E(i, g)
  <2>. HIDE DEF E, D
  <2>. QED BY <1>10
<1>. DEFINE S == {i \in D : g[i] = Cardinality(L(i))}
<1>12. ASSUME NEW i \in D, \A j \in (i + 1) .. hi : j \in S
       PROVE  i \in S
  <2>1. CASE P(i) = 0
    <3>1. g[i] = 0 /\ L(i) = {}
      BY <1>2, <1>11, <2>1
    <3>. QED BY <3>1, FS_EmptySet
  <2>2. CASE P(i) # 0
    <3>. DEFINE p == P(i)
    <3>1. /\ p \in i .. text.len /\ p + 1 \in D /\ p + 1 \in (i + 1) .. hi
          /\ L(i) = L(p + 1) \cup {p} /\ p \notin L(p + 1)
      BY <1>1, <1>2, <2>2
    <3>. HIDE DEF p
    <3>2. Cardinality(L(i)) = Cardinality(L(p + 1)) + 1
      BY <1>3, <3>1, OneBefore
    <3>3. g[p + 1] = Cardinality(L(p + 1))
      BY <1>12, <3>1
    <3>4. Cardinality(L(p + 1)) \in Nat
      BY <1>3, <3>1, FS_CardinalityType
    <3>5. CASE p + 1 > text.len
      <4>1. g[i] = 1
        BY <1>11, <2>2, <3>5 DEF p
      <4>2. L(p + 1) = {}
        BY <1>1, <3>1, <3>5 DEF L, Later
      <4>. QED BY <3>2, <4>1, <4>2, FS_EmptySet, SMTT(30)
    <3>6. CASE ~(p + 1 > text.len)
      <4>1. g[i] = 1 + g[p + 1]
        BY <1>11, <2>2, <3>6 DEF p
      <4>. QED BY <3>2, <3>3, <3>4, <4>1
    <3>. QED BY <3>5, <3>6
  <2>. QED BY <2>1, <2>2
<1>13. \A i \in D : i \in S
  <2>. HIDE DEF S, hi
  <2>. QED BY <1>1, <1>12, DownFrom
<1>14. Places(text, needle) = L(1)
  BY Zenon DEF Places, L, Later
<1>. QED BY <1>1, <1>10, <1>13, <1>14

LEMMA LeastPlace ==
  ASSUME NEW n \in Nat, NEW S \in SUBSET (1 .. n), S # {}
  PROVE  \E i \in S : \A j \in S : i <= j
<1>. SUFFICES ASSUME \A i \in S : \E j \in S : ~(i <= j) PROVE FALSE
  OBVIOUS
<1>. DEFINE T == {i \in 0 .. n : \A j \in S : i < j}
<1>1. 0 \in T
  OBVIOUS
<1>2. ASSUME NEW i \in 1 .. n, i - 1 \in T
      PROVE  i \in T
  <2>1. \A j \in S : j \in Nat /\ i <= j
    BY <1>2
  <2>2. i \notin S
    BY <2>1
  <2>. QED BY <2>1, <2>2
<1>3. n \in T
  <2>1. \A i \in 0 .. n : i \in T
    <3>. HIDE DEF T
    <3>. QED BY <1>1, <1>2, UpTo
  <2>. QED BY <2>1
<1>4. PICK j \in S : j \in 1 .. n
  OBVIOUS
<1>5. n < j
  <2>1. \A i \in S : n < i
    BY <1>3
  <2>. QED BY <2>1
<1>. QED BY <1>4, <1>5

Disjoint(S, nl) == \A p, q \in S : p < q => p + nl <= q

\* Matches of an expression none of which overlaps another, and no more of
\* them can be added.
Greedy(text, needle, from, S) ==
  /\ S \subseteq Later(text, from, needle) /\ Disjoint(S, Len(needle))
  /\ \A p \in Later(text, from, needle) : Disjoint(S \cup {p}, Len(needle)) => p \in S

\* The first match of an expression.
LEMMA RxFirst ==
  ASSUME NEW text, IsText(text), NEW needle, NEW from \in 1 .. text.len + 1
  PROVE  /\ rx_from(text, from, needle) = {} <=> Later(text, from, needle) = {}
         /\ \A p \in rx_from(text, from, needle) : IsFirst(text, from, needle, p)
<1>. DEFINE L == Later(text, from, needle)
<1>1. text.len \in Nat /\ from \in Nat /\ from >= 1
  BY DEF IsText
<1>2. \A q : q \in L <=> q \in from .. text.len /\ Within(text, q, needle)
  BY DEF Later
<1>3. \A p : p \in rx_from(text, from, needle) <=>
        /\ p \in from .. text.len /\ Within(text, p, needle)
        /\ \A q \in from .. (p - 1) : ~Within(text, q, needle)
  BY DEF rx_from
<1>4. ASSUME L # {}
      PROVE  rx_from(text, from, needle) # {}
  <2>1. L \in SUBSET (1 .. text.len)
    BY <1>1, <1>2
  <2>2. PICK i \in L : \A j \in L : i <= j
    <3>. HIDE DEF L
    <3>. QED BY <1>1, <1>4, <2>1, LeastPlace
  <2>3. i \in from .. text.len /\ Within(text, i, needle)
    BY <1>2
  <2>4. ASSUME NEW q \in from .. (i - 1)
        PROVE  ~Within(text, q, needle)
    <3>1. q \in from .. text.len /\ ~(i <= q)
      BY <1>1, <2>3
    <3>. QED BY <1>2, <2>2, <3>1
  <2>. QED BY <1>3, <2>3, <2>4
<1>5. ASSUME NEW p \in rx_from(text, from, needle)
      PROVE  p \in L /\ \A q \in L : p <= q
  <2>1. /\ p \in from .. text.len /\ Within(text, p, needle)
        /\ \A q \in from .. (p - 1) : ~Within(text, q, needle)
    BY <1>3
  <2>2. ASSUME NEW q \in L
        PROVE  p <= q
    <3>1. q \in from .. text.len /\ Within(text, q, needle)
      BY <1>2
    <3>. QED BY <1>1, <2>1, <3>1
  <2>. QED BY <1>2, <2>1, <2>2
<1>6. L # {} => \A p \in rx_from(text, from, needle) : IsFirst(text, from, needle, p)
  <2>. HIDE DEF L
  <2>. QED BY <1>5, Zenon DEF IsFirst, L
<1>. QED BY <1>4, <1>5, <1>6

LEMMA TimesMore ==
  ASSUME NEW a \in Nat, NEW b \in Nat
  PROVE  (a + 1) * b = a * b + b /\ a * b \in Nat /\ 0 * b = 0
OBVIOUS

\* To matches behind the first one, that one can be added.
LEMMA GreedyMore ==
  ASSUME NEW text, IsText(text), NEW needle, IsNeedle(needle),
         NEW from \in 1 .. text.len + 1, NEW p, IsFirst(text, from, needle, p),
         Later(text, from, needle) # {},
         NEW S, Greedy(text, needle, p + Len(needle), S)
  PROVE  /\ Greedy(text, needle, from, S \cup {p}) /\ p \notin S
         /\ IsFiniteSet(S)
<1>. DEFINE nl == Len(needle)
            L(i) == Later(text, i, needle)
<1>1. /\ text.len \in Nat /\ nl \in Nat /\ nl >= 1 /\ from \in Nat /\ from >= 1
  <2>1. nl \in Nat \ {0}
    BY NeedleFacts
  <2>2. text.len \in Nat
    BY DEF IsText
  <2>. HIDE DEF nl
  <2>. QED BY <2>1, <2>2
<1>2. p \in from .. text.len /\ p \in L(from) /\ \A q \in L(from) : q \in Nat /\ p <= q
  <2>1. p \in L(from) /\ \A q \in L(from) : p <= q
    BY DEF IsFirst
  <2>2. \A q \in L(from) : q \in from .. text.len
    BY DEF Later
  <2>. HIDE DEF L
  <2>. QED BY <1>1, <2>1, <2>2
<1>3. \A q : q \in L(p + nl) <=> q \in L(from) /\ p + nl <= q
  <2>1. \A q : q \in L(p + nl) <=> q \in (p + nl) .. text.len /\ Within(text, q, needle)
    BY DEF Later
  <2>2. \A q : q \in L(from) <=> q \in from .. text.len /\ Within(text, q, needle)
    BY DEF Later
  <2>. HIDE DEF L, nl
  <2>3. \A q \in from .. text.len : p + nl <= q => q \in (p + nl) .. text.len
    BY <1>1, <1>2
  <2>4. \A q \in (p + nl) .. text.len : q \in from .. text.len /\ p + nl <= q
    BY <1>1, <1>2
  <2>. QED BY <2>1, <2>2, <2>3, <2>4
<1>4. /\ S \subseteq L(p + nl)
      /\ \A a, b \in S : a < b => a + nl <= b
      /\ \A q \in L(p + nl) : Disjoint(S \cup {q}, nl) => q \in S
  BY Zenon DEF Greedy, Disjoint
<1>5. IsFiniteSet(S)
  <2>1. IsFiniteSet(L(from))
    BY LaterFacts
  <2>2. S \subseteq L(from)
    BY <1>3, <1>4
  <2>. HIDE DEF L
  <2>. QED BY <2>1, <2>2, FS_Subset
<1>. HIDE DEF L, nl
<1>6. \A q \in S : q \in L(from) /\ p + nl <= q /\ q \in Nat
  BY <1>2, <1>3, <1>4
<1>7. p \notin S
  BY <1>1, <1>2, <1>6
<1>8. Disjoint(S \cup {p}, nl)
  <2>. SUFFICES ASSUME NEW a \in S \cup {p}, NEW b \in S \cup {p}, a < b
                PROVE  a + nl <= b
    BY DEF Disjoint
  <2>1. CASE a = p
    BY <1>1, <1>2, <1>6, <2>1
  <2>2. CASE a \in S /\ b \in S
    BY <1>4, <2>2
  <2>3. CASE a \in S /\ b = p
    BY <1>1, <1>2, <1>6, <2>3
  <2>. QED BY <2>1, <2>2, <2>3
<1>9. ASSUME NEW q \in L(from), Disjoint((S \cup {p}) \cup {q}, nl)
      PROVE  q \in S \cup {p}
  <2>. SUFFICES ASSUME q # p PROVE q \in S
    OBVIOUS
  <2>1. p < q
    BY <1>2
  <2>2. p + nl <= q
    BY <1>9, <2>1, Zenon DEF Disjoint
  <2>3. q \in L(p + nl)
    BY <1>3, <2>2
  <2>4. Disjoint(S \cup {q}, nl)
    BY <1>9, Zenon DEF Disjoint
  <2>. QED BY <1>4, <2>3, <2>4
<1>10. S \cup {p} \subseteq L(from)
  BY <1>2, <1>6
<1>. QED BY <1>5, <1>7, <1>8, <1>9, <1>10, Zenon DEF Greedy, L, nl

\* The captures of an expression are counted at greedy places.
LEMMA CountsCaptures ==
  ASSUME NEW text, IsText(text), NEW pattern, IsNeedle(pattern.word),
         Captures(pattern.groups) \in Nat
  PROVE  \E S : /\ Greedy(text, pattern.word, 1, S) /\ IsFiniteSet(S)
                /\ CountRx(text, pattern) = Cardinality(S) * Captures(pattern.groups)
<1>. DEFINE hi == text.len + 1
            D == 1 .. hi
            word == pattern.word
            nl == Len(word)
            R(from) == rx_from(text, from, word)
            P(from) == CHOOSE p \in R(from) : TRUE
            caps == Captures(pattern.groups)
            J == [from \in D |-> IF R(from) = {} THEN 0 ELSE P(from) + nl]
            A == [from \in D |-> IF R(from) = {} THEN 0 ELSE caps]
            E(from, f) == IF R(from) = {} THEN 0 ELSE caps + f[P(from) + nl]
            L(from) == Later(text, from, word)
<1>1. /\ text.len \in Nat /\ hi \in Nat /\ 1 \in D
      /\ \A i \in D : i \in Nat
      /\ nl \in Nat /\ nl >= 1
  <2>1. text.len \in Nat
    BY DEF IsText
  <2>2. nl \in Nat \ {0}
    BY NeedleFacts
  <2>. HIDE DEF nl
  <2>. QED BY <2>1, <2>2
<1>2. ASSUME NEW from \in D
      PROVE  /\ R(from) = {} <=> L(from) = {}
             /\ R(from) # {} =>
                  /\ IsFirst(text, from, word, P(from))
                  /\ P(from) \in from .. text.len
                  /\ P(from) + nl \in (from + 1) .. hi
  <2>1. /\ R(from) = {} <=> L(from) = {}
        /\ \A p \in R(from) : IsFirst(text, from, word, p)
    BY RxFirst
  <2>2. R(from) # {} => P(from) \in R(from)
    <3>. HIDE DEF R
    <3>. QED OBVIOUS
  <2>3. ASSUME R(from) # {}
        PROVE  /\ P(from) \in from .. text.len
               /\ P(from) + nl \in (from + 1) .. hi
    <3>1. IsFirst(text, from, word, P(from)) /\ L(from) # {}
      <4>. HIDE DEF P, R, L
      <4>. QED BY <2>1, <2>2, <2>3
    <3>2. P(from) \in L(from)
      <4>. HIDE DEF P
      <4>. QED BY <3>1 DEF IsFirst
    <3>3. P(from) \in from .. text.len /\ P(from) + nl \in (P(from) + 1) .. (text.len + 1)
      <4>. HIDE DEF P
      <4>. QED BY <3>2, LaterFacts
    <3>. HIDE DEF P, nl
    <3>. QED BY <1>1, <3>3
  <2>. HIDE DEF P, R, L
  <2>. QED BY <2>1, <2>2, <2>3
<1>. HIDE DEF P, R, nl, caps
<1>3. ASSUME NEW i \in D
      PROVE  /\ J[i] = IF R(i) = {} THEN 0 ELSE P(i) + nl
             /\ A[i] = IF R(i) = {} THEN 0 ELSE caps
             /\ A[i] \in Nat /\ J[i] \in Nat
             /\ J[i] = 0 \/ J[i] \in (i + 1) .. hi
             /\ J[i] = 0 <=> R(i) = {}
  <2>1. /\ J[i] = IF R(i) = {} THEN 0 ELSE P(i) + nl
        /\ A[i] = IF R(i) = {} THEN 0 ELSE caps
    OBVIOUS
  <2>2. caps \in Nat
    BY DEF caps
  <2>3. R(i) # {} => P(i) + nl \in (i + 1) .. hi
    BY <1>2
  <2>. HIDE DEF J, A, L
  <2>. QED BY <1>1, <2>1, <2>2, <2>3
<1>4. /\ A \in [D -> Nat] /\ J \in [D -> Nat]
      /\ \A i \in D : J[i] = 0 \/ J[i] \in (i + 1) .. hi
  <2>1. A = [i \in D |-> A[i]] /\ J = [i \in D |-> J[i]]
    OBVIOUS
  <2>. HIDE DEF A, J, D
  <2>. QED BY <1>3, <2>1
<1>. HIDE DEF A, J, L
<1>5. \E f \in [D -> Nat] : \A i \in D : f[i] = IF J[i] = 0 THEN A[i] ELSE A[i] + f[J[i]]
  <2>. HIDE DEF hi
  <2>. QED BY <1>1, <1>4, SumExists
<1>6. PICK f \in [D -> Nat] : \A i \in D : f[i] = IF J[i] = 0 THEN A[i] ELSE A[i] + f[J[i]]
  BY <1>5
<1>7. \A i \in D : f[i] = E(i, f)
  <2>. HIDE DEF D
  <2>. QED BY <1>3, <1>6
<1>8. f = [i \in D |-> E(i, f)]
  <2>. HIDE DEF E, D
  <2>. QED BY <1>6, <1>7
<1>9. \E g : g = [i \in D |-> E(i, g)]
  <2>. HIDE DEF E, D
  <2>. QED BY <1>8, Zenon
<1>10. PICK g : g = [i \in D |-> E(i, g)] /\ CountRx(text, pattern) = g[1]
  BY <1>9, Zenon DEF CountRx, P, R, caps, nl
<1>11. \A i \in D : g[i] = E(i, g)
  <2>. HIDE DEF E, D
  <2>. QED BY <1>10
<1>. DEFINE T == {i \in D : \E S : /\ Greedy(text, word, i, S) /\ IsFiniteSet(S)
                                   /\ g[i] = Cardinality(S) * caps}
<1>12. ASSUME NEW i \in D, \A j \in (i + 1) .. hi : j \in T
       PROVE  i \in T
  <2>1. CASE R(i) = {}
    <3>1. g[i] = 0
      BY <1>11, <2>1
    <3>2. Later(text, i, word) = {}
      BY <1>2, <2>1 DEF L
    <3>3. Greedy(text, word, i, {})
      BY <3>2, Zenon DEF Greedy, Disjoint
    <3>4. Cardinality({}) = 0 /\ IsFiniteSet({})
      BY FS_EmptySet
    <3>5. 0 * caps = 0
      BY TimesMore DEF caps
    <3>. HIDE DEF caps
    <3>. QED BY <3>1, <3>3, <3>4, <3>5
  <2>2. CASE R(i) # {}
    <3>. DEFINE p == P(i)
    <3>1. /\ IsFirst(text, i, word, p) /\ Later(text, i, word) # {}
          /\ p + nl \in (i + 1) .. hi
      BY <1>2, <2>2 DEF L
    <3>2. PICK S : /\ Greedy(text, word, p + nl, S) /\ IsFiniteSet(S)
                   /\ g[p + nl] = Cardinality(S) * caps
      BY <1>12, <3>1
    <3>3. Greedy(text, word, i, S \cup {p}) /\ p \notin S
      <4>. HIDE DEF p
      <4>. QED BY <3>1, <3>2, GreedyMore DEF nl
    <3>4. IsFiniteSet(S \cup {p}) /\ Cardinality(S \cup {p}) = Cardinality(S) + 1
      BY <3>2, <3>3, OneBefore
    <3>5. g[i] = caps + g[p + nl]
      BY <1>11, <2>2
    <3>6. Cardinality(S) \in Nat /\ caps \in Nat
      BY <3>2, FS_CardinalityType DEF caps
    <3>7. (Cardinality(S) + 1) * caps = Cardinality(S) * caps + caps /\ Cardinality(S) * caps \in Nat
      BY <3>6, TimesMore
    <3>. DEFINE c == Cardinality(S) * caps
                d == (Cardinality(S) + 1) * caps
    <3>8. d = c + caps /\ c \in Nat /\ g[i] = caps + c
      BY <3>2, <3>5, <3>7
    <3>9. g[i] = d
      <4>. HIDE DEF c, d
      <4>. QED BY <3>6, <3>8
    <3>10. g[i] = Cardinality(S \cup {p}) * caps
      BY <3>4, <3>9
    <3>. QED BY <3>3, <3>4, <3>10
  <2>. QED BY <2>1, <2>2
<1>13. \A i \in D : i \in T
  <2>. HIDE DEF T, hi
  <2>. QED BY <1>1, <1>12, DownFrom
<1>14. 1 \in T
  BY <1>1, <1>13
<1>. QED BY <1>10, <1>14 DEF caps

\* A rule as it is configured, and an item that is inspected.
LEMMA LineFacts ==
  ASSUME NEW line \in Lines
  PROVE  /\ line.mz \in Seq(Keyword) /\ line.mz # << >>
         /\ line.negative \in BOOLEAN
         /\ line.pattern.type \in {"STR", "RX"} /\ line.pattern.groups \in Nat
         /\ IsNeedle(line.pattern.word)
         /\ \A k \in DOMAIN line.mz : line.mz[k].rx => line.mz[k].mz \in Located
BY RulesAssumption DEF Pattern, IsNeedle

LEMMA InputTexts ==
  ASSUME NEW it \in Inputs
  PROVE  IsText(NameText(it)) /\ IsText(ValueText(it))
<1>1. /\ spelling[it.name] \in Seq(Chars) /\ it.after_name \in Seq(Chars)
      /\ it.value \in Seq(Chars) /\ it.after_value \in Seq(Chars)
  BY RulesAssumption
<1>2. ASSUME NEW s \in Seq(Chars), NEW t \in Seq(Chars)
      PROVE  s \o t \in Seq(Chars) /\ Len(s) \in Nat /\ Len(s) <= Len(s \o t)
  OBVIOUS
<1>3. IsText([bytes |-> spelling[it.name] \o it.after_name, len |-> Len(spelling[it.name])])
  BY <1>1, <1>2 DEF IsText
<1>4. IsText([bytes |-> it.value \o it.after_value, len |-> Len(it.value)])
  BY <1>1, <1>2 DEF IsText
<1>. QED BY <1>3, <1>4 DEF NameText, ValueText

\* The places of a pattern in a text.
LEMMA PlacesFinite ==
  ASSUME NEW text, IsText(text), NEW needle, IsNeedle(needle)
  PROVE  /\ Places(text, needle) = Later(text, 1, needle)
         /\ IsFiniteSet(Places(text, needle))
<1>1. 1 \in 1 .. text.len + 1
  BY DEF IsText
<1>2. IsFiniteSet(Later(text, 1, needle))
  BY <1>1, LaterFacts
<1>3. Places(text, needle) = Later(text, 1, needle)
  BY DEF Places, Later
<1>. QED BY <1>2, <1>3

\* A plain rule's search of a text: what it counts and when it counts at all.
Searched(text, line) ==
  LET places == Places(text, line.pattern.word)
  IN /\ nb_match(text, line.pattern) > 0 <=> places # {}
     /\ IF line.pattern.type = "STR"
        THEN nb_match(text, line.pattern) = Cardinality(places)
        ELSE \E S \in SUBSET places :
               /\ Disjoint(S, Len(line.pattern.word))
               /\ nb_match(text, line.pattern)
                    = Cardinality(S) * (line.pattern.groups + 1)
               /\ \A p \in places :
                    Disjoint(S \cup {p}, Len(line.pattern.word)) => p \in S

LEMMA CardPositive ==
  ASSUME NEW S, IsFiniteSet(S)
  PROVE  Cardinality(S) \in Nat /\ (Cardinality(S) > 0 <=> S # {})
<1>1. Cardinality(S) \in Nat /\ (Cardinality(S) = 0 <=> S = {})
  BY FS_CardinalityType, FS_EmptySet
<1>. HIDE DEF Cardinality
<1>. QED BY <1>1

LEMMA SearchedString ==
  ASSUME NEW text, IsText(text), NEW line \in Lines, line.pattern.type = "STR",
         ~Overruns(text, line)
  PROVE  Searched(text, line)
<1>. DEFINE word == line.pattern.word
            places == Places(text, word)
<1>1. IsNeedle(word)
  BY LineFacts
<1>2. Contained(text, word)
  BY DEF Overruns, Contained
<1>3. nb_match(text, line.pattern) = Cardinality(places)
  <2>1. nb_match(text, line.pattern) = CountStr(text, word)
    BY DEF nb_match
  <2>2. CountStr(text, word) = Cardinality(places)
    <3>. HIDE DEF word
    <3>. QED BY <1>1, <1>2, CountsPlaces
  <2>. QED BY <2>1, <2>2
<1>4. IsFiniteSet(places)
  <2>. HIDE DEF word
  <2>. QED BY <1>1, PlacesFinite
<1>5. nb_match(text, line.pattern) > 0 <=> places # {}
  <2>. HIDE DEF places
  <2>. QED BY <1>3, <1>4, CardPositive
<1>. QED BY <1>3, <1>5 DEF Searched

LEMMA SearchedExpression ==
  ASSUME NEW text, IsText(text), NEW line \in Lines, line.pattern.type = "RX",
         Roomy(line)
  PROVE  Searched(text, line)
<1>. DEFINE word == line.pattern.word
            caps == line.pattern.groups + 1
            places == Places(text, word)
            nb == nb_match(text, line.pattern)
<1>1. IsNeedle(word) /\ caps \in Nat /\ caps > 0
  BY LineFacts
<1>2. Captures(line.pattern.groups) = caps
  BY LineFacts, RulesAssumption DEF Roomy, Captures
<1>3. PICK S : /\ Greedy(text, word, 1, S) /\ IsFiniteSet(S)
               /\ CountRx(text, line.pattern) = Cardinality(S) * caps
  <2>1. \E S : /\ Greedy(text, word, 1, S) /\ IsFiniteSet(S)
               /\ CountRx(text, line.pattern) = Cardinality(S) * Captures(line.pattern.groups)
    BY <1>1, <1>2, CountsCaptures
  <2>. QED BY <1>2, <2>1
<1>4. nb = Cardinality(S) * caps
  BY <1>3 DEF nb_match
<1>5. places = Later(text, 1, word)
  <2>. HIDE DEF word
  <2>. QED BY <1>1, PlacesFinite
<1>6. /\ S \in SUBSET places /\ Disjoint(S, Len(word))
      /\ \A p \in places : Disjoint(S \cup {p}, Len(word)) => p \in S
  <2>. HIDE DEF word
  <2>. QED BY <1>3, <1>5 DEF Greedy
<1>7. S = {} <=> places = {}
  <2>1. ASSUME S = {}, NEW p \in places
        PROVE  FALSE
    <3>1. ~(p < p)
      <4>1. p \in 1 .. text.len /\ text.len \in Nat
        BY <2>1 DEF Places, IsText
      <4>. QED BY <4>1
    <3>2. Disjoint(S \cup {p}, Len(word))
      BY <2>1, <3>1, Zenon DEF Disjoint
    <3>. QED BY <1>6, <2>1, <3>2
  <2>. QED BY <1>6, <2>1
<1>8. nb > 0 <=> S # {}
  <2>1. Cardinality(S) \in Nat /\ (Cardinality(S) > 0 <=> S # {})
    BY <1>3, CardPositive
  <2>. DEFINE n == Cardinality(S)
  <2>2. n \in Nat /\ (n > 0 <=> S # {}) /\ nb = n * caps
    BY <1>4, <2>1
  <2>. HIDE DEF n, nb, caps
  <2>3. CASE n = 0
    <3>1. nb = 0
      BY <1>1, <2>2, <2>3, TimesMore
    <3>. QED BY <2>2, <2>3, <3>1
  <2>4. CASE n # 0
    <3>1. n - 1 \in Nat /\ n = (n - 1) + 1
      BY <2>2, <2>4
    <3>2. nb = (n - 1) * caps + caps /\ (n - 1) * caps \in Nat
      <4>1. ((n - 1) + 1) * caps = (n - 1) * caps + caps /\ (n - 1) * caps \in Nat
        BY <1>1, <3>1, TimesMore
      <4>. QED BY <2>2, <3>1, <4>1
    <3>. DEFINE m == (n - 1) * caps
    <3>3. nb = m + caps /\ m \in Nat
      BY <3>2
    <3>. HIDE DEF m
    <3>4. nb > 0
      BY <1>1, <3>3
    <3>. QED BY <2>2, <2>4, <3>4
  <2>. QED BY <2>3, <2>4
<1>9. nb > 0 <=> places # {}
  <2>. HIDE DEF nb, places
  <2>. QED BY <1>7, <1>8
<1>. HIDE DEF places, word, nb, caps
<1>10. \E T \in SUBSET places :
         /\ Disjoint(T, Len(word)) /\ nb = Cardinality(T) * caps
         /\ \A p \in places : Disjoint(T \cup {p}, Len(word)) => p \in T
  BY <1>4, <1>6
<1>. QED BY <1>9, <1>10, Zenon DEF Searched, places, word, nb, caps

-----------------------------------------------------------------------------
(***************************************************************************)
(* Rules: what a match zone asks for                                       *)
(***************************************************************************)
LEMMA SameOne ==
  ASSUME NEW S, IsFiniteSet(S), Cardinality(S) <= 1, NEW a \in S, NEW b \in S
  PROVE  a = b
<1>. SUFFICES ASSUME a # b PROVE FALSE
  OBVIOUS
<1>1. IsFiniteSet({a}) /\ Cardinality({a}) = 1
  BY FS_Singleton
<1>2. b \notin {a}
  OBVIOUS
<1>3. Cardinality({a} \cup {b}) = 2 /\ IsFiniteSet({a} \cup {b})
  BY <1>1, <1>2, FS_AddElement
<1>4. {a} \cup {b} \in SUBSET S
  OBVIOUS
<1>5. Cardinality({a} \cup {b}) <= Cardinality(S) /\ Cardinality(S) \in Nat
  BY <1>4, FS_Subset, FS_CardinalityType
<1>. QED BY <1>3, <1>5

LEMMA ImageFinite ==
  ASSUME NEW S, IsFiniteSet(S), NEW T, NEW f \in [S -> T], \A t \in T : \E s \in S : f[s] = t
  PROVE  IsFiniteSet(T) /\ Cardinality(T) <= Cardinality(S)
<1>1. f \in Surjection(S, T)
  BY DEF Surjection
<1>. QED BY <1>1, FS_Surjection

\* The words of a line, and what its rule holds of them.
LEMMA WordsFinite ==
  ASSUME NEW line \in Lines
  PROVE  IsFiniteSet(Words(line))
<1>. DEFINE n == Len(line.mz)
<1>1. n \in Nat /\ DOMAIN line.mz = 1 .. n /\ line.mz \in [1 .. n -> Keyword]
  BY LineFacts
<1>2. IsFiniteSet(1 .. n)
  BY <1>1, FS_Interval
<1>3. Words(line) = {line.mz[i] : i \in 1 .. n}
  BY <1>1 DEF Words
<1>. DEFINE f == [i \in 1 .. n |-> line.mz[i]]
<1>4. /\ f \in [1 .. n -> Words(line)]
      /\ \A t \in Words(line) : \E i \in 1 .. n : f[i] = t
  BY <1>3
<1>. HIDE DEF f, n
<1>. QED BY <1>2, <1>4, ImageFinite

\* A rule whose line is configured.
Read(line) == naxsi_zone(<< >>, line.mz)

RuleIs(r, line) ==
  /\ r.flags \subseteq BasicFlags /\ r.rx_mz \in BOOLEAN
  /\ r.locations \in Seq(Location) /\ Coherent(r)
  /\ \A f : f \in r.flags <=> \E k \in Words(line) : f \in FlagsOf(k.mz)
  /\ r.rx_mz <=> \E k \in Words(line) : k.rx
  /\ \A i \in DOMAIN r.locations : \E k \in Words(line) : Says(r.locations[i], k)
  /\ \A k \in Words(line) : k.mz \in Located =>
       \E i \in DOMAIN r.locations : Says(r.locations[i], k)

LEMMA ReadIs ==
  ASSUME NEW line \in Lines, ~Read(line).refused
  PROVE  RuleIs(Read(line), line)
<1>. DEFINE r == Read(line)
            n == Len(line.mz)
<1>1. line.mz \in Seq(Keyword) /\ << >> \in Seq(Int)
  BY LineFacts
<1>2. r \in Accepted /\ HoldsOf(r, line.mz, n)
  BY <1>1, ZoneAccepted, ZoneHolds DEF Read
<1>3. DOMAIN line.mz = 1 .. n
  BY <1>1
<1>. HIDE DEF r, n
<1>4. \A k : k \in Words(line) <=> \E i \in 1 .. n : k = line.mz[i]
  BY <1>3, Zenon DEF Words
<1>5. r.flags \subseteq BasicFlags /\ Coherent(r)
  BY <1>2 DEF Accepted, BasicRules
<1>. HIDE DEF Words
<1>6. /\ \A f : f \in r.flags <=> \E k \in Words(line) : f \in FlagsOf(k.mz)
      /\ r.rx_mz <=> \E k \in Words(line) : k.rx
  BY <1>2, <1>4, Zenon DEF HoldsOf
<1>7. /\ \A i \in DOMAIN r.locations : \E k \in Words(line) : Says(r.locations[i], k)
      /\ \A k \in Words(line) : k.mz \in Located =>
           \E i \in DOMAIN r.locations : Says(r.locations[i], k)
  <2>1. ASSUME NEW i \in DOMAIN r.locations
        PROVE  \E k \in Words(line) : Says(r.locations[i], k)
    <3>1. PICK j \in 1 .. n : Says(r.locations[i], line.mz[j])
      BY <1>2 DEF HoldsOf
    <3>. QED BY <1>4, <3>1
  <2>2. ASSUME NEW k \in Words(line), k.mz \in Located
        PROVE  \E i \in DOMAIN r.locations : Says(r.locations[i], k)
    <3>1. PICK j \in 1 .. n : k = line.mz[j]
      BY <1>4
    <3>. QED BY <1>2, <2>2, <3>1 DEF HoldsOf
  <2>. QED BY <2>1, <2>2
<1>8. r.rx_mz \in BOOLEAN /\ r.locations \in Seq(Location)
  BY <1>2 DEF HoldsOf
<1>9. RuleIs(r, line)
  BY <1>5, <1>6, <1>7, <1>8 DEF RuleIs
<1>. QED BY <1>9 DEF r

LEMMA WordFacts ==
  ASSUME NEW line \in Lines, NEW k \in Words(line)
  PROVE  k \in Keyword /\ (k.rx => k.mz \in Located)
BY LineFacts DEF Words

\* A location fits what its keyword is the same as.
LEMMA ClearFits ==
  ASSUME NEW line \in Lines, ClearRule(line), NEW r, RuleIs(r, line),
         NEW i \in DOMAIN r.locations, NEW k \in Words(line), Says(r.locations[i], k),
         NEW str
  PROVE  FitsLocation(r, r.locations[i], str) <=> Same(k, str)
<1>1. k \in Keyword /\ k.mz \in Located /\ r.locations[i].target = k.target
  BY WordFacts DEF Says
<1>2. r.locations[i] \in Location
  BY DEF RuleIs
<1>3. CASE k.rx
  <2>1. r.rx_mz /\ r.locations[i].target_rx
    BY <1>3 DEF RuleIs, Says
  <2>. QED BY <1>1, <1>3, <2>1, Zenon DEF FitsLocation, Same
<1>4. CASE ~k.rx
  <2>1. ~r.rx_mz
    <3>1. \A k2 \in Words(line) : k2.rx => k2.rx = k.rx
      BY <1>1, WordFacts DEF ClearRule
    <3>. QED BY <1>4, <3>1 DEF RuleIs
  <2>. QED BY <1>1, <1>4, <2>1, Zenon DEF FitsLocation, Same
<1>. QED BY <1>3, <1>4

LEMMA UriHolds ==
  ASSUME NEW line \in Lines, ClearRule(line), NEW r, RuleIs(r, line), NEW uri
  PROVE  uri_constraint_ok(r, uri)
           <=> \A k \in Words(line) : k.mz = "$URL" => Same(k, uri)
<1>1. UrlIdx(r) \subseteq DOMAIN r.locations
  BY DEF UrlIdx
<1>2. ASSUME NEW i \in UrlIdx(r)
      PROVE  \E k \in Words(line) : k.mz = "$URL" /\ Says(r.locations[i], k)
  BY DEF UrlIdx, RuleIs, Says
<1>3. ASSUME \A k \in Words(line) : k.mz = "$URL" => Same(k, uri)
      PROVE  uri_constraint_ok(r, uri)
  <2>1. ASSUME NEW i \in UrlIdx(r)
        PROVE  FitsLocation(r, r.locations[i], uri)
    <3>1. PICK k \in Words(line) : k.mz = "$URL" /\ Says(r.locations[i], k)
      BY <1>2
    <3>. QED BY <1>1, <1>3, <3>1, ClearFits
  <2>2. FirstUrl(r) \subseteq UrlIdx(r)
    BY DEF FirstUrl
  <2>. QED BY <2>1, <2>2 DEF uri_constraint_ok
<1>4. ASSUME uri_constraint_ok(r, uri), NEW k \in Words(line), k.mz = "$URL"
      PROVE  Same(k, uri)
  <2>1. UrlIdx(r) # {}
    <3>1. PICK i \in DOMAIN r.locations : Says(r.locations[i], k)
      BY <1>4 DEF RuleIs, Located
    <3>. QED BY <1>4, <3>1 DEF Says, UrlIdx
  <2>2. PICK i \in UrlIdx(r) : \A j \in UrlIdx(r) : i <= j
    <3>1. Len(r.locations) \in Nat /\ DOMAIN r.locations = 1 .. Len(r.locations)
      BY DEF RuleIs
    <3>2. UrlIdx(r) \in SUBSET (1 .. Len(r.locations))
      BY <1>1, <3>1
    <3>. QED BY <2>1, <3>1, <3>2, LeastPlace
  <2>3. FitsLocation(r, r.locations[i], uri)
    BY <1>4, <2>2 DEF uri_constraint_ok, FirstUrl
  <2>4. PICK k2 \in Words(line) : k2.mz = "$URL" /\ Says(r.locations[i], k2)
    BY <1>2
  <2>5. Same(k2, uri)
    BY <1>1, <2>3, <2>4, ClearFits
  <2>6. k2 = k
    <3>. DEFINE S == {x \in Words(line) : x.mz = "$URL"}
    <3>1. IsFiniteSet(S)
      BY WordsFinite, FS_Subset
    <3>2. Cardinality(S) <= 1
      BY Zenon DEF ClearRule
    <3>3. k \in S /\ k2 \in S
      BY <1>4, <2>4
    <3>. HIDE DEF S
    <3>. QED BY <3>1, <3>2, <3>3, SameOne
  <2>. QED BY <2>5, <2>6
<1>. QED BY <1>3, <1>4

\* The keyword of a named variable and that of the zone, of a source.
VarWord(source) ==
  CASE source = "headers" -> "$HEADERS_VAR"
    [] source = "args"    -> "$ARGS_VAR"
    [] source = "body"    -> "$BODY_VAR"
    [] OTHER              -> "none"
ZoneWord(source) ==
  CASE source = "headers" -> "HEADERS"
    [] source = "uri"     -> "URL"
    [] source = "args"    -> "ARGS"
    [] source = "body"    -> "BODY"
    [] source = "file"    -> "FILE_EXT"
    [] source = "raw"     -> "RAW_BODY"

\* A rule is in the list of a source.
Listed(r, source) == r.flags \cap Kept(ListOf(source)) # {}

LEMMA AskedWords ==
  ASSUME NEW line, NEW it
  PROVE  /\ ByVar(line, it) <=> \E k \in Words(line) :
                                  k.mz = VarWord(it.source) /\ Same(k, it.name)
         /\ ByZone(line, it) <=> \E k \in Words(line) :
                                  k.mz \in {"ANY", ZoneWord(it.source)}
BY Zenon DEF ByVar, ByZone, Has, VarWord, ZoneWord

\* The keywords that set a flag.
LEMMA FlagWords ==
  ASSUME NEW k \in Keyword
  PROVE  /\ "headers" \in FlagsOf(k.mz) <=> k.mz \in {"ANY", "HEADERS"}
         /\ "headers_var" \in FlagsOf(k.mz) <=> k.mz = "$HEADERS_VAR"
         /\ "url" \in FlagsOf(k.mz) <=> k.mz \in {"ANY", "URL"}
         /\ "args" \in FlagsOf(k.mz) <=> k.mz \in {"ANY", "ARGS"}
         /\ "args_var" \in FlagsOf(k.mz) <=> k.mz = "$ARGS_VAR"
         /\ "body" \in FlagsOf(k.mz) <=> k.mz \in {"ANY", "BODY", "FILE_EXT"}
         /\ "body_rule" \in FlagsOf(k.mz) <=> k.mz \in {"ANY", "BODY"}
         /\ "body_var" \in FlagsOf(k.mz) <=> k.mz = "$BODY_VAR"
         /\ "file_ext" \in FlagsOf(k.mz) <=> k.mz \in {"ANY", "FILE_EXT"}
         /\ "raw_body" \in FlagsOf(k.mz) <=> k.mz \in {"ANY", "RAW_BODY"}
         /\ "target_name" \in FlagsOf(k.mz) <=> k.mz = "NAME"
         /\ "any" \in FlagsOf(k.mz) <=> k.mz = "ANY"
BY DEF Keyword, Located, FlagsOf

LEMMA RuleFlags ==
  ASSUME NEW line \in Lines, NEW r, RuleIs(r, line)
  PROVE  LET F(f, mzs) == f \in r.flags <=> Has(line, mzs)
         IN /\ F("headers", {"ANY", "HEADERS"}) /\ F("headers_var", {"$HEADERS_VAR"})
            /\ F("url", {"ANY", "URL"})
            /\ F("args", {"ANY", "ARGS"}) /\ F("args_var", {"$ARGS_VAR"})
            /\ F("body", {"ANY", "BODY", "FILE_EXT"}) /\ F("body_rule", {"ANY", "BODY"})
            /\ F("body_var", {"$BODY_VAR"})
            /\ F("file_ext", {"ANY", "FILE_EXT"}) /\ F("raw_body", {"ANY", "RAW_BODY"})
            /\ F("target_name", {"NAME"}) /\ F("any", {"ANY"})
<1>1. \A f : f \in r.flags <=> \E k \in Words(line) : f \in FlagsOf(k.mz)
  BY Zenon DEF RuleIs
<1>2. \A k \in Words(line) : k \in Keyword
  BY WordFacts
<1>3. ASSUME NEW f, NEW mzs,
             \A k \in Words(line) : f \in FlagsOf(k.mz) <=> k.mz \in mzs
      PROVE  f \in r.flags <=> Has(line, mzs)
  BY <1>1, <1>3, Zenon DEF Has
<1>4. "headers" \in r.flags <=> Has(line, {"ANY", "HEADERS"})
  BY <1>2, <1>3, FlagWords
<1>5. "headers_var" \in r.flags <=> Has(line, {"$HEADERS_VAR"})
  BY <1>2, <1>3, FlagWords
<1>6. "url" \in r.flags <=> Has(line, {"ANY", "URL"})
  BY <1>2, <1>3, FlagWords
<1>7. "args" \in r.flags <=> Has(line, {"ANY", "ARGS"})
  BY <1>2, <1>3, FlagWords
<1>8. "args_var" \in r.flags <=> Has(line, {"$ARGS_VAR"})
  BY <1>2, <1>3, FlagWords
<1>9. "body" \in r.flags <=> Has(line, {"ANY", "BODY", "FILE_EXT"})
  BY <1>2, <1>3, FlagWords
<1>10. "body_rule" \in r.flags <=> Has(line, {"ANY", "BODY"})
  BY <1>2, <1>3, FlagWords
<1>11. "body_var" \in r.flags <=> Has(line, {"$BODY_VAR"})
  BY <1>2, <1>3, FlagWords
<1>12. "file_ext" \in r.flags <=> Has(line, {"ANY", "FILE_EXT"})
  BY <1>2, <1>3, FlagWords
<1>13. "raw_body" \in r.flags <=> Has(line, {"ANY", "RAW_BODY"})
  BY <1>2, <1>3, FlagWords
<1>14. "target_name" \in r.flags <=> Has(line, {"NAME"})
  BY <1>2, <1>3, FlagWords
<1>15. "any" \in r.flags <=> Has(line, {"ANY"})
  BY <1>2, <1>3, FlagWords
<1>. QED BY <1>4, <1>5, <1>6, <1>7, <1>8, <1>9, <1>10, <1>11, <1>12, <1>13,
            <1>14, <1>15

\* An item is at a named location if and only if a variable of the rule is
\* the item's.
LEMMA NamedIsAsked ==
  ASSUME NEW line \in Lines, ClearRule(line), NEW r, RuleIs(r, line),
         NEW it \in Inputs, Listed(r, it.source)
  PROVE  NamedHere(r, it) # {} <=> ByVar(line, it)
<1>1. it.source \in Sources
  BY RulesAssumption
<1>2. ASSUME NEW var \in Located \ {"$URL"}
      PROVE  VarZone(var) = ZoneOf(it.source)
               <=> var = VarWord(it.source) \/ (it.source = "raw" /\ var = "$BODY_VAR")
  BY <1>1 DEF Sources, Located, VarZone, ZoneOf, VarWord
<1>3. VarWord(it.source) \in Located \ {"$URL"} \/ VarWord(it.source) = "none"
  BY <1>1 DEF Sources, Located, VarWord
<1>4. ASSUME it.source = "raw", NEW i \in NamedIdx(r), r.locations[i].var = "$BODY_VAR"
      PROVE  FALSE
  <2>1. PICK k \in Words(line) : k.mz = "$BODY_VAR"
    BY <1>4 DEF NamedIdx, RuleIs, Says
  <2>2. Has(line, {"BODY", "$BODY_VAR", "FILE_EXT"})
    BY <2>1 DEF Has
  <2>3. ~Has(line, {"RAW_BODY"})
    BY <2>2 DEF ClearRule
  <2>4. "raw_body" \in r.flags
    BY <1>4 DEF Listed, Kept, ListOf
  <2>5. Has(line, {"ANY"})
    BY <2>3, <2>4, RuleFlags DEF Has
  <2>6. "any" \in r.flags
    BY <2>5, RuleFlags
  <2>. QED BY <1>4, <2>6 DEF RuleIs, Coherent
<1>5. ASSUME NEW i \in NamedHere(r, it)
      PROVE  ByVar(line, it)
  <2>1. /\ i \in NamedIdx(r) /\ VarZone(r.locations[i].var) = ZoneOf(it.source)
        /\ FitsLocation(r, r.locations[i], it.name)
    BY DEF NamedHere
  <2>2. i \in DOMAIN r.locations
    BY <2>1 DEF NamedIdx
  <2>3. PICK k \in Words(line) : Says(r.locations[i], k)
    BY <2>2 DEF RuleIs
  <2>4. k.mz = r.locations[i].var /\ k.mz \in Located \ {"$URL"}
    BY <2>1, <2>3 DEF NamedIdx, Says
  <2>5. k.mz = VarWord(it.source)
    BY <1>2, <1>4, <2>1, <2>4
  <2>6. Same(k, it.name)
    BY <2>1, <2>2, <2>3, ClearFits
  <2>. QED BY <2>5, <2>6, AskedWords
<1>6. ASSUME ByVar(line, it)
      PROVE  NamedHere(r, it) # {}
  <2>1. PICK k \in Words(line) : k.mz = VarWord(it.source) /\ Same(k, it.name)
    BY <1>6, AskedWords
  <2>2. k.mz \in Located \ {"$URL"}
    BY <1>3, <2>1, WordFacts DEF Keyword, Located
  <2>3. PICK i \in DOMAIN r.locations : Says(r.locations[i], k)
    BY <2>2 DEF RuleIs
  <2>4. i \in NamedIdx(r) /\ r.locations[i].var = k.mz
    BY <2>2, <2>3 DEF NamedIdx, Says
  <2>5. FitsLocation(r, r.locations[i], it.name)
    BY <2>1, <2>3, ClearFits
  <2>6. VarZone(k.mz) = ZoneOf(it.source)
    BY <1>2, <2>1, <2>2
  <2>. QED BY <2>4, <2>5, <2>6 DEF NamedHere
<1>. QED BY <1>5, <1>6

\* A rule of the list is in the zone if and only if it asks for the zone.
LEMMA ZoneIsAsked ==
  ASSUME NEW line \in Lines, ClearRule(line), NEW r, RuleIs(r, line),
         NEW it \in Inputs, Listed(r, it.source)
  PROVE  r.flags \cap ZoneFlags(ZoneOf(it.source)) # {} <=> ByZone(line, it)
<1>1. it.source \in Sources
  BY RulesAssumption
<1>2. ByZone(line, it) <=> Has(line, {"ANY", ZoneWord(it.source)})
  BY AskedWords, Zenon DEF Has
<1>3. CASE it.source = "headers"
  BY <1>2, <1>3, RuleFlags DEF ZoneFlags, ZoneOf, ZoneWord
<1>4. CASE it.source = "uri"
  BY <1>2, <1>4, RuleFlags DEF ZoneFlags, ZoneOf, ZoneWord
<1>5. CASE it.source = "args"
  BY <1>2, <1>5, RuleFlags DEF ZoneFlags, ZoneOf, ZoneWord
<1>6. CASE it.source = "file"
  BY <1>2, <1>6, RuleFlags DEF ZoneFlags, ZoneOf, ZoneWord
<1>7. CASE it.source \in {"body", "raw"}
  <2>. DEFINE B == Has(line, {"BODY"})
              V == Has(line, {"$BODY_VAR"})
              E == Has(line, {"FILE_EXT"})
              R == Has(line, {"RAW_BODY"})
              A == Has(line, {"ANY"})
  <2>1. r.flags \cap ZoneFlags(ZoneOf(it.source)) # {}
          <=> "raw_body" \in r.flags \/ "body_rule" \in r.flags
    BY <1>7 DEF ZoneFlags, ZoneOf
  <2>2. \A a, b : Has(line, {a, b}) <=> Has(line, {a}) \/ Has(line, {b})
    BY DEF Has
  <2>3. \A a, b, c : Has(line, {a, b, c}) <=> Has(line, {a}) \/ Has(line, {b}) \/ Has(line, {c})
    BY DEF Has
  <2>4. R => ~B /\ ~V /\ ~E
    BY <2>3 DEF ClearRule
  <2>5. /\ "raw_body" \in r.flags <=> A \/ R
        /\ "body_rule" \in r.flags <=> A \/ B
        /\ "body" \in r.flags <=> A \/ B \/ E
        /\ "body_var" \in r.flags <=> V
    BY <2>2, <2>3, RuleFlags
  <2>. HIDE DEF A, B, E, R, V
  <2>6. CASE it.source = "body"
    <3>1. ZoneWord(it.source) = "BODY" /\ ("body" \in r.flags \/ "body_var" \in r.flags)
      BY <2>6 DEF ZoneWord, Listed, Kept, ListOf
    <3>2. ByZone(line, it) <=> A \/ B
      BY <1>2, <2>2, <3>1 DEF A, B
    <3>. QED BY <2>1, <2>4, <2>5, <3>1, <3>2
  <2>7. CASE it.source = "raw"
    <3>1. ZoneWord(it.source) = "RAW_BODY" /\ "raw_body" \in r.flags
      BY <2>7 DEF ZoneWord, Listed, Kept, ListOf
    <3>2. ByZone(line, it) <=> A \/ R
      BY <1>2, <2>2, <3>1 DEF A, R
    <3>. QED BY <2>1, <2>5, <3>1, <3>2
  <2>. QED BY <1>7, <2>6, <2>7
<1>. QED BY <1>1, <1>3, <1>4, <1>5, <1>6, <1>7 DEF Sources

\* What a rule asks for is run against its list.
LEMMA AskedIsListed ==
  ASSUME NEW line \in Lines, NEW r, RuleIs(r, line), NEW it \in Inputs,
         ByVar(line, it) \/ ByZone(line, it)
  PROVE  Listed(r, it.source)
<1>1. it.source \in Sources
  BY RulesAssumption
<1>2. \/ VarWord(it.source) # "none" /\ Has(line, {VarWord(it.source)})
      \/ Has(line, {"ANY", ZoneWord(it.source)})
  <2>1. \A k \in Words(line) : k.mz # "none"
    BY WordFacts DEF Keyword, Located
  <2>. QED BY <2>1, AskedWords DEF Has
<1>3. \A a, b : Has(line, {a, b}) <=> Has(line, {a}) \/ Has(line, {b})
  BY DEF Has
<1>4. \A a, b, c : Has(line, {a, b, c}) <=> Has(line, {a}) \/ Has(line, {b}) \/ Has(line, {c})
  BY DEF Has
<1>5. CASE it.source = "headers"
  BY <1>2, <1>3, <1>5, RuleFlags DEF VarWord, ZoneWord, Listed, Kept, ListOf
<1>6. CASE it.source = "args"
  BY <1>2, <1>3, <1>6, RuleFlags DEF VarWord, ZoneWord, Listed, Kept, ListOf
<1>7. CASE it.source = "body"
  BY <1>2, <1>3, <1>4, <1>7, RuleFlags DEF VarWord, ZoneWord, Listed, Kept, ListOf
<1>8. CASE it.source = "file"
  BY <1>2, <1>3, <1>4, <1>8, RuleFlags DEF VarWord, ZoneWord, Listed, Kept, ListOf
<1>9. CASE it.source = "uri"
  BY <1>2, <1>3, <1>9, RuleFlags DEF VarWord, ZoneWord, Listed, Kept, ListOf
<1>10. CASE it.source = "raw"
  BY <1>2, <1>3, <1>10, RuleFlags DEF VarWord, ZoneWord, Listed, Kept, ListOf
<1>. QED BY <1>1, <1>5, <1>6, <1>7, <1>8, <1>9, <1>10 DEF Sources

-----------------------------------------------------------------------------
(***************************************************************************)
(* Rules: the run of one rule                                              *)
(***************************************************************************)
\* The places of a sequence of hits that are in a name, or in a value.
In(s, t) == {i \in DOMAIN s : s[i].target_name = t}

\* What the run of a rule against an item may find.
Finding(it, line) ==
  {[target_name |-> FALSE, nb_match |-> nb_match(ValueText(it), line.pattern)],
   [target_name |-> TRUE, nb_match |-> nb_match(NameText(it), line.pattern)]}

\* Two runs, one after the other.
LEMMA BothParts ==
  ASSUME NEW T, NEW s \in Seq(T), NEW u \in Seq(T), NEW t
  PROVE  /\ s \o u \in Seq(T)
         /\ ElementsOf(s \o u) = ElementsOf(s) \cup ElementsOf(u)
         /\ IsFiniteSet(In(s, t)) /\ IsFiniteSet(In(s \o u, t))
         /\ Cardinality(In(s \o u, t)) <= Cardinality(In(s, t)) + Cardinality(In(u, t))
<1>. DEFINE m == Len(s)
            n == Len(u)
            su == s \o u
<1>1. /\ m \in Nat /\ n \in Nat /\ DOMAIN s = 1 .. m /\ DOMAIN u = 1 .. n
      /\ su \in Seq(T) /\ DOMAIN su = 1 .. (m + n)
      /\ \A i \in 1 .. m : su[i] = s[i]
      /\ \A i \in 1 .. n : su[m + i] = u[i]
  OBVIOUS
<1>2. \A i \in 1 .. (m + n) : i \in 1 .. m \/ (i - m \in 1 .. n /\ m + (i - m) = i)
  BY <1>1
<1>. HIDE DEF m, n, su
<1>3. ElementsOf(su) = ElementsOf(s) \cup ElementsOf(u)
  <2>1. \A i \in 1 .. m : i \in 1 .. (m + n)
    BY <1>1
  <2>2. \A i \in 1 .. n : m + i \in 1 .. (m + n)
    BY <1>1
  <2>3. ASSUME NEW x \in ElementsOf(su)
        PROVE  x \in ElementsOf(s) \cup ElementsOf(u)
    <3>1. PICK i \in 1 .. (m + n) : x = su[i]
      BY <1>1 DEF ElementsOf
    <3>2. CASE i \in 1 .. m
      BY <1>1, <3>1, <3>2 DEF ElementsOf
    <3>3. CASE i - m \in 1 .. n /\ m + (i - m) = i
      <4>1. x = u[i - m]
        BY <1>1, <3>1, <3>3
      <4>. QED BY <1>1, <3>3, <4>1 DEF ElementsOf
    <3>. QED BY <1>2, <3>2, <3>3
  <2>4. ASSUME NEW x \in ElementsOf(s) \cup ElementsOf(u)
        PROVE  x \in ElementsOf(su)
    <3>1. CASE x \in ElementsOf(s)
      <4>1. PICK i \in 1 .. m : x = s[i]
        BY <1>1, <3>1 DEF ElementsOf
      <4>. QED BY <1>1, <2>1, <4>1 DEF ElementsOf
    <3>2. CASE x \in ElementsOf(u)
      <4>1. PICK i \in 1 .. n : x = u[i]
        BY <1>1, <3>2 DEF ElementsOf
      <4>. QED BY <1>1, <2>2, <4>1 DEF ElementsOf
    <3>. QED BY <3>1, <3>2
  <2>. QED BY <2>3, <2>4
<1>4. \A k \in Nat : IsFiniteSet(1 .. k)
  BY FS_Interval
<1>5. In(s, t) \in SUBSET (1 .. m) /\ In(u, t) \in SUBSET (1 .. n) /\ In(su, t) \in SUBSET (1 .. (m + n))
  BY <1>1 DEF In
<1>6. IsFiniteSet(In(s, t)) /\ IsFiniteSet(In(u, t)) /\ IsFiniteSet(In(su, t))
  <2>1. m + n \in Nat
    BY <1>1
  <2>. QED BY <1>1, <1>4, <1>5, <2>1, FS_Subset
<1>. DEFINE V == {m + i : i \in In(u, t)}
            f == [i \in In(u, t) |-> m + i]
<1>7. IsFiniteSet(V) /\ Cardinality(V) <= Cardinality(In(u, t))
  <2>1. f \in [In(u, t) -> V] /\ \A v \in V : \E i \in In(u, t) : f[i] = v
    OBVIOUS
  <2>. HIDE DEF f, V
  <2>. QED BY <1>6, <2>1, ImageFinite
<1>8. In(su, t) \in SUBSET (In(s, t) \cup V)
  <2>1. ASSUME NEW i \in In(su, t)
        PROVE  i \in In(s, t) \cup V
    <3>1. i \in 1 .. (m + n) /\ su[i].target_name = t
      BY <1>1 DEF In
    <3>2. CASE i \in 1 .. m
      BY <1>1, <3>1, <3>2 DEF In
    <3>3. CASE i - m \in 1 .. n /\ m + (i - m) = i
      <4>1. u[i - m].target_name = t
        BY <1>1, <3>1, <3>3
      <4>2. i - m \in In(u, t)
        BY <1>1, <3>3, <4>1 DEF In
      <4>. QED BY <3>3, <4>2
    <3>. QED BY <1>2, <3>1, <3>2, <3>3
  <2>. HIDE DEF V
  <2>. QED BY <2>1
<1>. HIDE DEF V
<1>9. /\ IsFiniteSet(In(s, t) \cup V)
      /\ Cardinality(In(s, t) \cup V) = Cardinality(In(s, t)) + Cardinality(V)
                                        - Cardinality(In(s, t) \cap V)
  BY <1>6, <1>7, FS_Union
<1>10. IsFiniteSet(In(s, t) \cap V)
  BY <1>6, FS_Subset
<1>. DEFINE a == Cardinality(In(s, t))
            b == Cardinality(In(u, t))
            c == Cardinality(V)
            d == Cardinality(In(s, t) \cap V)
            e == Cardinality(In(s, t) \cup V)
            g == Cardinality(In(su, t))
<1>11. a \in Nat /\ b \in Nat /\ c \in Nat /\ d \in Nat /\ e \in Nat /\ g \in Nat
  BY <1>6, <1>7, <1>9, <1>10, FS_CardinalityType
<1>12. g <= e
  BY <1>8, <1>9, FS_Subset
<1>13. c <= b /\ e = a + c - d
  BY <1>7, <1>9
<1>. HIDE DEF a, b, c, d, e, g
<1>14. g <= a + b
  BY <1>11, <1>12, <1>13
<1>. QED BY <1>1, <1>3, <1>6, <1>14 DEF a, b, g, su

LEMMA NoPart ==
  ASSUME NEW T, NEW t
  PROVE  << >> \in Seq(T) /\ ElementsOf(<< >>) = {} /\ Cardinality(In(<< >>, t)) = 0
<1>1. << >> \in Seq(T) /\ DOMAIN << >> = {}
  OBVIOUS
<1>2. In(<< >>, t) = {}
  BY <1>1 DEF In
<1>. QED BY <1>1, <1>2, FS_EmptySet DEF ElementsOf

LEMMA OnePart ==
  ASSUME NEW x, NEW t
  PROVE  /\ ElementsOf(<<x>>) = {x}
         /\ Cardinality(In(<<x>>, t)) = IF x.target_name = t THEN 1 ELSE 0
<1>. DEFINE s == <<x>>
<1>1. DOMAIN s = {1} /\ s[1] = x
  OBVIOUS
<1>. HIDE DEF s
<1>2. ElementsOf(s) = {x}
  BY <1>1 DEF ElementsOf
<1>3. CASE x.target_name = t
  <2>1. In(s, t) = {1}
    BY <1>1, <1>3 DEF In
  <2>. QED BY <1>2, <1>3, <2>1, FS_Singleton DEF s
<1>4. CASE x.target_name # t
  <2>1. In(s, t) = {}
    BY <1>1, <1>4 DEF In
  <2>. QED BY <1>2, <1>4, <2>1, FS_EmptySet DEF s
<1>. QED BY <1>3, <1>4

InTheValue(it, line) ==
  [target_name |-> FALSE, nb_match |-> nb_match(ValueText(it), line.pattern)]
InTheName(it, line) ==
  [target_name |-> TRUE, nb_match |-> nb_match(NameText(it), line.pattern)]

\* What the value and the name give.
LEMMA ValuePart ==
  ASSUME NEW it, NEW line, NEW t \in BOOLEAN
  PROVE  /\ InValue(it, line) \in Seq(Finding(it, line))
         /\ ElementsOf(InValue(it, line))
              = IF process_basic_rule_buffer(ValueText(it), line)
                THEN {InTheValue(it, line)} ELSE {}
         /\ Cardinality(In(InValue(it, line), t)) <= IF t THEN 0 ELSE 1
<1>. DEFINE v == InTheValue(it, line)
            s == InValue(it, line)
<1>1. v.target_name = FALSE /\ v \in Finding(it, line)
  BY DEF InTheValue, Finding
<1>2. s = IF process_basic_rule_buffer(ValueText(it), line) THEN <<v>> ELSE << >>
  BY DEF InValue, Hit, InTheValue
<1>. HIDE DEF v, s
<1>3. <<v>> \in Seq(Finding(it, line))
  BY <1>1
<1>4. ElementsOf(<<v>>) = {v} /\ Cardinality(In(<<v>>, t)) = IF v.target_name = t THEN 1 ELSE 0
  BY OnePart
<1>5. << >> \in Seq(Finding(it, line)) /\ ElementsOf(<< >>) = {} /\ Cardinality(In(<< >>, t)) = 0
  BY NoPart
<1>6. CASE process_basic_rule_buffer(ValueText(it), line)
  <2>1. s = <<v>>
    BY <1>2, <1>6
  <2>2. Cardinality(In(s, t)) = IF t THEN 0 ELSE 1
    BY <1>1, <1>4, <2>1
  <2>. QED BY <1>3, <1>4, <1>6, <2>1, <2>2 DEF s, v
<1>7. CASE ~process_basic_rule_buffer(ValueText(it), line)
  <2>1. s = << >>
    BY <1>2, <1>7
  <2>. QED BY <1>5, <1>7, <2>1 DEF s, v
<1>. QED BY <1>6, <1>7

LEMMA NamePart ==
  ASSUME NEW it, NEW line, NEW t \in BOOLEAN
  PROVE  /\ InName(it, line) \in Seq(Finding(it, line))
         /\ ElementsOf(InName(it, line))
              = IF ~line.negative /\ process_basic_rule_buffer(NameText(it), line)
                THEN {InTheName(it, line)} ELSE {}
         /\ Cardinality(In(InName(it, line), t)) <= IF t THEN 1 ELSE 0
<1>. DEFINE v == InTheName(it, line)
            s == InName(it, line)
<1>1. v.target_name = TRUE /\ v \in Finding(it, line)
  BY DEF InTheName, Finding
<1>2. s = IF ~line.negative /\ process_basic_rule_buffer(NameText(it), line)
          THEN <<v>> ELSE << >>
  BY DEF InName, Hit, InTheName
<1>. HIDE DEF v, s
<1>3. <<v>> \in Seq(Finding(it, line))
  BY <1>1
<1>4. ElementsOf(<<v>>) = {v} /\ Cardinality(In(<<v>>, t)) = IF v.target_name = t THEN 1 ELSE 0
  BY OnePart
<1>5. << >> \in Seq(Finding(it, line)) /\ ElementsOf(<< >>) = {} /\ Cardinality(In(<< >>, t)) = 0
  BY NoPart
<1>6. CASE ~line.negative /\ process_basic_rule_buffer(NameText(it), line)
  <2>1. s = <<v>>
    BY <1>2, <1>6
  <2>2. Cardinality(In(s, t)) = IF t THEN 1 ELSE 0
    BY <1>1, <1>4, <2>1
  <2>. QED BY <1>3, <1>4, <1>6, <2>1, <2>2 DEF s, v
<1>7. CASE ~(~line.negative /\ process_basic_rule_buffer(NameText(it), line))
  <2>1. s = << >>
    BY <1>2, <1>7
  <2>. QED BY <1>5, <1>7, <2>1 DEF s, v
<1>. QED BY <1>6, <1>7

\* The run of one rule: whether its URL holds, the item is at a named location
\* of the rule, or in its zone, and the rule is after names only.
Found(it, line, ok, named, zone, names) ==
  {h \in Finding(it, line) :
     /\ ok
     /\ IF h.target_name
        THEN /\ named \/ zone
             /\ ~line.negative /\ process_basic_rule_buffer(NameText(it), line)
        ELSE /\ named \/ (zone /\ ~names)
             /\ process_basic_rule_buffer(ValueText(it), line)}

LEMMA HitsAre ==
  ASSUME NEW it, NEW line, NEW r
  PROVE  LET ok == uri_constraint_ok(r, it.uri)
             named == NamedHere(r, it) # {}
             zone == r.flags \cap ZoneFlags(ZoneOf(it.source)) # {}
             names == "target_name" \in r.flags
         IN /\ Hits(r, it, line) \in Seq(Finding(it, line))
            /\ ElementsOf(Hits(r, it, line)) = Found(it, line, ok, named, zone, names)
            /\ \A t \in BOOLEAN :
                 Cardinality(In(Hits(r, it, line), t)) <= IF named /\ zone THEN 2 ELSE 1
<1>. DEFINE ok == uri_constraint_ok(r, it.uri)
            named == NamedHere(r, it) # {}
            zone == r.flags \cap ZoneFlags(ZoneOf(it.source)) # {}
            names == "target_name" \in r.flags
            P == process_basic_rule_buffer(ValueText(it), line)
            Q == ~line.negative /\ process_basic_rule_buffer(NameText(it), line)
            v == InTheValue(it, line)
            w == InTheName(it, line)
            T == Finding(it, line)
            V == InValue(it, line)
            N == InName(it, line)
            L == in_locations(r, it, line)
            Z == in_zone(r, it, line)
            H == Hits(r, it, line)
            Zv == IF names THEN << >> ELSE V
            card(s, t) == Cardinality(In(s, t))
<1>1. /\ T = {v, w} /\ v.target_name = FALSE /\ w.target_name = TRUE
  BY DEF Finding, InTheValue, InTheName
<1>2. /\ L = IF ~named THEN << >> ELSE V \o N
      /\ Z = IF ~zone THEN << >> ELSE Zv \o N
      /\ H = IF ok THEN L \o Z ELSE << >>
  BY DEF in_locations, in_zone, Hits
<1>3. /\ V \in Seq(T) /\ N \in Seq(T) /\ << >> \in Seq(T)
      /\ ElementsOf(V) = IF P THEN {v} ELSE {}
      /\ ElementsOf(N) = IF Q THEN {w} ELSE {}
      /\ ElementsOf(<< >>) = {}
  <2>1. TRUE \in BOOLEAN
    OBVIOUS
  <2>. QED BY <2>1, ValuePart, NamePart, NoPart, Zenon
<1>4. \A t \in BOOLEAN : /\ card(V, t) <= (IF t THEN 0 ELSE 1)
                         /\ card(N, t) <= (IF t THEN 1 ELSE 0)
                         /\ card(<< >>, t) = 0
  <2>1. \A t \in BOOLEAN : card(V, t) <= (IF t THEN 0 ELSE 1)
    BY ValuePart
  <2>2. \A t \in BOOLEAN : card(N, t) <= (IF t THEN 1 ELSE 0)
    BY NamePart
  <2>3. \A t \in BOOLEAN : card(<< >>, t) = 0
    BY NoPart
  <2>. HIDE DEF card
  <2>. QED BY <2>1, <2>2, <2>3
<1>5. ASSUME NEW s \in Seq(T), NEW u \in Seq(T)
      PROVE  /\ s \o u \in Seq(T)
             /\ ElementsOf(s \o u) = ElementsOf(s) \cup ElementsOf(u)
             /\ \A t : card(s \o u, t) <= card(s, t) + card(u, t)
             /\ \A t : card(s, t) \in Nat
  <2>. HIDE DEF T
  <2>1. s \o u \in Seq(T) /\ ElementsOf(s \o u) = ElementsOf(s) \cup ElementsOf(u)
    BY BothParts
  <2>2. \A t : card(s \o u, t) <= card(s, t) + card(u, t)
    BY BothParts
  <2>3. ASSUME NEW t
        PROVE  card(s, t) \in Nat
    <3>1. IsFiniteSet(In(s, t))
      BY BothParts
    <3>. QED BY <3>1, FS_CardinalityType
  <2>. HIDE DEF card
  <2>. QED BY <2>1, <2>2, <2>3
<1>6. (P \in BOOLEAN) /\ (Q \in BOOLEAN) /\ (named \in BOOLEAN) /\ (zone \in BOOLEAN)
        /\ (ok \in BOOLEAN) /\ (names \in BOOLEAN)
  BY DEF process_basic_rule_buffer, uri_constraint_ok
<1>7. Found(it, line, ok, named, zone, names)
        = {h \in T : /\ ok
                     /\ IF h.target_name THEN (named \/ zone) /\ Q
                        ELSE (named \/ (zone /\ ~names)) /\ P}
  BY Zenon DEF Found
<1>. HIDE DEF ok, named, zone, names, P, Q, v, w, T, V, N, L, Z, H, card
<1>8. /\ Zv \in Seq(T) /\ ElementsOf(Zv) = IF ~names /\ P THEN {v} ELSE {}
      /\ \A t \in BOOLEAN : card(Zv, t) <= IF t THEN 0 ELSE 1
  <2>1. CASE names
    <3>1. Zv = << >>
      BY <2>1
    <3>. HIDE DEF Zv
    <3>2. \A t \in BOOLEAN : card(Zv, t) <= IF t THEN 0 ELSE 1
      BY <1>4, <3>1
    <3>. QED BY <1>3, <2>1, <3>1, <3>2
  <2>2. CASE ~names
    <3>1. Zv = V
      BY <2>2
    <3>. HIDE DEF Zv
    <3>2. \A t \in BOOLEAN : card(Zv, t) <= IF t THEN 0 ELSE 1
      BY <1>4, <3>1
    <3>. QED BY <1>3, <2>2, <3>1, <3>2
  <2>. QED BY <2>1, <2>2
<1>. HIDE DEF Zv
<1>9. /\ L \in Seq(T)
      /\ ElementsOf(L) = (IF named /\ P THEN {v} ELSE {}) \cup (IF named /\ Q THEN {w} ELSE {})
      /\ \A t \in BOOLEAN : card(L, t) <= IF named THEN 1 ELSE 0
  <2>1. CASE named
    <3>1. L = V \o N
      BY <1>2, <2>1
    <3>2. \A t \in BOOLEAN : card(L, t) <= 1
      <4>1. \A t : card(L, t) <= card(V, t) + card(N, t) /\ card(V, t) \in Nat /\ card(N, t) \in Nat
        BY <1>3, <1>5, <3>1
      <4>2. L \in Seq(T)
        BY <1>3, <1>5, <3>1
      <4>3. \A t : card(L, t) \in Nat
        BY <1>5, <4>2
      <4>. QED BY <1>4, <4>1, <4>3
    <3>. QED BY <1>3, <1>5, <2>1, <3>1, <3>2
  <2>2. CASE ~named
    BY <1>2, <1>3, <1>4, <2>2
  <2>. QED BY <2>1, <2>2
<1>10. /\ Z \in Seq(T)
       /\ ElementsOf(Z) = (IF zone /\ ~names /\ P THEN {v} ELSE {})
                          \cup (IF zone /\ Q THEN {w} ELSE {})
       /\ \A t \in BOOLEAN : card(Z, t) <= IF zone THEN 1 ELSE 0
  <2>1. CASE zone
    <3>1. Z = Zv \o N
      BY <1>2, <2>1
    <3>2. \A t \in BOOLEAN : card(Z, t) <= 1
      <4>1. \A t : card(Z, t) <= card(Zv, t) + card(N, t) /\ card(Zv, t) \in Nat /\ card(N, t) \in Nat
        BY <1>3, <1>5, <1>8, <3>1
      <4>2. Z \in Seq(T)
        BY <1>3, <1>5, <1>8, <3>1
      <4>3. \A t : card(Z, t) \in Nat
        BY <1>5, <4>2
      <4>. QED BY <1>4, <1>8, <4>1, <4>3
    <3>. QED BY <1>3, <1>5, <1>8, <2>1, <3>1, <3>2
  <2>2. CASE ~zone
    BY <1>2, <1>3, <1>4, <2>2
  <2>. QED BY <2>1, <2>2
<1>11. /\ L \o Z \in Seq(T) /\ ElementsOf(L \o Z) = ElementsOf(L) \cup ElementsOf(Z)
       /\ \A t \in BOOLEAN : card(L \o Z, t) <= IF named /\ zone THEN 2 ELSE 1
  <2>1. L \o Z \in Seq(T) /\ ElementsOf(L \o Z) = ElementsOf(L) \cup ElementsOf(Z)
    BY <1>5, <1>9, <1>10
  <2>2. \A t : card(L \o Z, t) <= card(L, t) + card(Z, t)
    BY <1>5, <1>9, <1>10
  <2>3. \A t : card(L, t) \in Nat /\ card(Z, t) \in Nat /\ card(L \o Z, t) \in Nat
    BY <1>5, <1>9, <1>10, <2>1
  <2>. QED BY <1>9, <1>10, <2>1, <2>2, <2>3
<1>12. H \in Seq(T)
  BY <1>2, <1>3, <1>11
<1>13. ElementsOf(H) = {h \in T : /\ ok
                     /\ IF h.target_name THEN (named \/ zone) /\ Q
                        ELSE (named \/ (zone /\ ~names)) /\ P}
  <2>1. CASE ok
    <3>1. ElementsOf(H) = ElementsOf(L) \cup ElementsOf(Z)
      BY <1>2, <1>11, <2>1
    <3>2. v \in ElementsOf(H) <=> (named \/ (zone /\ ~names)) /\ P
      BY <1>1, <1>9, <1>10, <3>1
    <3>3. w \in ElementsOf(H) <=> (named \/ zone) /\ Q
      BY <1>1, <1>9, <1>10, <3>1
    <3>4. ElementsOf(H) \subseteq T
      BY <1>1, <1>9, <1>10, <3>1
    <3>. QED BY <1>1, <2>1, <3>2, <3>3, <3>4
  <2>2. CASE ~ok
    BY <1>2, <1>3, <2>2
  <2>. QED BY <2>1, <2>2
<1>14. \A t \in BOOLEAN : card(H, t) <= IF named /\ zone THEN 2 ELSE 1
  BY <1>2, <1>4, <1>11
<1>. QED BY <1>7, <1>12, <1>13, <1>14 DEF ok, named, zone, names, T, H, card

-----------------------------------------------------------------------------
(***************************************************************************)
(* Rules: the lists and their runs                                         *)
(***************************************************************************)
\* The numbers of the lines in a list, and what naxsi_zone put them there for.
ListHolds(l) ==
  /\ lists[l] \in Seq(1 .. Len(lines))
  /\ \A p, q \in DOMAIN lists[l] : p < q => lists[l][p] < lists[l][q]
  /\ \A n \in 1 .. Len(lines) :
       (\E p \in DOMAIN lists[l] : lists[l][p] = n)
         <=> Read(lines[n]).flags \cap Kept(l) # {}

\* What a rule finds in the item inspected.
HitsOf(n) == Hits(Read(lines[n]), input, lines[n])

\* A rule's matches are those of one run, one after the other.
OneRun(n) ==
  \E a \in Nat :
    /\ a + Len(HitsOf(n)) <= Len(applied)
    /\ \A i \in DOMAIN applied :
         applied[i].line = n <=> i \in (a + 1) .. (a + Len(HitsOf(n)))
    /\ \A j \in 1 .. Len(HitsOf(n)) : applied[a + j].hit = HitsOf(n)[j]

NoRun(n) == \A i \in DOMAIN applied : applied[i].line # n

\* The rules of the item's list, and those of them whose turn is over.
TheList == lists[ListOf(input.source)]
Ran(n) == \E p \in DOMAIN TheList : p < turn /\ TheList[p] = n

Note == [line : Nat, hit : UNION {Finding(input, line) : line \in Lines}]

Configured ==
  /\ pc \in {"conf", "rules", "done", "refused"}
  /\ lines \in Seq(Lines) /\ \A n \in DOMAIN lines : ~Read(lines[n]).refused
  /\ lists \in [RuleLists -> Seq(Nat)] /\ \A l \in RuleLists : ListHolds(l)
Before == pc \in {"conf", "refused"} => turn = 1 /\ applied = << >>
During ==
  pc \in {"rules", "done"} =>
    /\ input \in Inputs /\ turn \in Nat \ {0}
    /\ applied \in Seq(Note)
    /\ \A n \in DOMAIN lines : IF Ran(n) THEN OneRun(n) ELSE NoRun(n)
After == pc = "done" => ~More

RulesInv == Configured /\ Before /\ During /\ After

LEMMA RulesInitInv == RulesInit => RulesInv
<1>. SUFFICES ASSUME RulesInit PROVE RulesInv
  OBVIOUS
<1>1. /\ pc = "conf" /\ lines = << >> /\ lists = [l \in RuleLists |-> << >>]
      /\ turn = 1 /\ applied = << >>
  BY DEF RulesInit
<1>2. lines \in Seq(Lines) /\ DOMAIN lines = {} /\ Len(lines) = 0 /\ 1 .. Len(lines) = {}
  BY <1>1
<1>3. lists \in [RuleLists -> Seq(Nat)]
  BY <1>1
<1>4. ASSUME NEW l \in RuleLists
      PROVE  ListHolds(l)
  <2>1. lists[l] = << >> /\ << >> \in Seq(1 .. Len(lines)) /\ DOMAIN << >> = {}
    BY <1>1
  <2>. QED BY <1>2, <2>1 DEF ListHolds
<1>5. Configured
  BY <1>1, <1>2, <1>3, <1>4 DEF Configured
<1>. QED BY <1>1, <1>5 DEF RulesInv, Before, During, After

LEMMA SeqWider ==
  ASSUME NEW A, NEW B, A \subseteq B, NEW s \in Seq(A)
  PROVE  s \in Seq(B)
<1>1. Len(s) \in Nat /\ s \in [1 .. Len(s) -> A]
  OBVIOUS
<1>2. s \in [1 .. Len(s) -> B]
  BY <1>1
<1>. QED BY <1>1, <1>2

\* A number put at the end of the lists it belongs to.
LEMMA LineListed ==
  ASSUME Configured, NEW line \in Lines, ~Read(line).refused,
         lines' = Append(lines, line),
         lists' = [l \in RuleLists |->
                     IF Read(line).flags \cap Kept(l) # {}
                     THEN Append(lists[l], Len(lines) + 1) ELSE lists[l]],
         pc' = pc
  PROVE  Configured'
<1>. DEFINE m == Len(lines)
            F(k, l) == Read(k).flags \cap Kept(l) # {}
<1>1. /\ m \in Nat /\ DOMAIN lines = 1 .. m
      /\ lines' \in Seq(Lines) /\ Len(lines') = m + 1 /\ DOMAIN lines' = 1 .. (m + 1)
      /\ \A n \in 1 .. m : lines'[n] = lines[n]
      /\ lines'[m + 1] = line
  BY DEF Configured
<1>. HIDE DEF m
<1>2. \A n \in DOMAIN lines' : ~Read(lines'[n]).refused
  <2>1. ASSUME NEW n \in 1 .. (m + 1)
        PROVE  ~Read(lines'[n]).refused
    <3>1. CASE n = m + 1
      BY <1>1, <3>1
    <3>2. CASE n # m + 1
      <4>1. n \in 1 .. m
        BY <1>1, <3>2
      <4>. QED BY <1>1, <4>1 DEF Configured
    <3>. QED BY <3>1, <3>2
  <2>. QED BY <1>1, <2>1
<1>3. ASSUME NEW l \in RuleLists
      PROVE  lists'[l] \in Seq(Nat) /\ ListHolds(l)'
  <2>. DEFINE s == lists[l]
              t == lists'[l]
              k == Len(s)
  <2>1. /\ s \in Seq(1 .. m) /\ k \in Nat /\ DOMAIN s = 1 .. k
        /\ \A p, q \in 1 .. k : p < q => s[p] < s[q]
        /\ \A n \in 1 .. m : (\E p \in 1 .. k : s[p] = n) <=> F(lines[n], l)
        /\ \A p \in 1 .. k : s[p] \in 1 .. m
    <3>1. ListHolds(l)
      BY DEF Configured
    <3>2. s \in Seq(1 .. m) /\ k \in Nat /\ DOMAIN s = 1 .. k
      BY <3>1 DEF ListHolds, m
    <3>3. \A p \in 1 .. k : s[p] \in 1 .. m
      <4>. HIDE DEF s
      <4>. QED BY <3>2, ElementOfSeq DEF k
    <3>4. /\ \A p, q \in DOMAIN s : p < q => s[p] < s[q]
          /\ \A n \in 1 .. m : (\E p \in DOMAIN s : s[p] = n) <=> F(lines[n], l)
      <4>. HIDE DEF F
      <4>. QED BY <3>1, Zenon DEF ListHolds, m, F
    <3>. HIDE DEF s, k, F
    <3>. QED BY <3>2, <3>3, <3>4
  <2>2. t = IF F(line, l) THEN Append(s, m + 1) ELSE s
    BY DEF m
  <2>. HIDE DEF s, t, k, F
  <2>3. CASE F(line, l)
    <3>1. /\ t \in Seq(1 .. (m + 1)) /\ DOMAIN t = 1 .. (k + 1)
          /\ \A p \in 1 .. k : t[p] = s[p]
          /\ t[k + 1] = m + 1
      <4>1. s \in Seq(1 .. (m + 1)) /\ m + 1 \in 1 .. (m + 1) /\ t = Append(s, m + 1)
        <5>1. 1 .. m \subseteq 1 .. (m + 1) /\ m + 1 \in 1 .. (m + 1)
          BY <1>1
        <5>. QED BY <2>1, <2>2, <2>3, <5>1, SeqWider
      <4>. QED BY <2>1, <4>1 DEF k
    <3>2. \A p, q \in DOMAIN t : p < q => t[p] < t[q]
      <4>1. ASSUME NEW p \in 1 .. (k + 1), NEW q \in 1 .. (k + 1), p < q
            PROVE  t[p] < t[q]
        <5>1. p \in 1 .. k /\ t[p] = s[p] /\ s[p] \in 1 .. m
          BY <2>1, <3>1, <4>1
        <5>2. CASE q = k + 1
          BY <1>1, <3>1, <5>1, <5>2
        <5>3. CASE q # k + 1
          <6>1. q \in 1 .. k
            BY <2>1, <5>3
          <6>. QED BY <2>1, <3>1, <4>1, <5>1, <6>1
        <5>. QED BY <5>2, <5>3
      <4>. QED BY <3>1, <4>1
    <3>3. ASSUME NEW n \in 1 .. (m + 1)
          PROVE  (\E p \in DOMAIN t : t[p] = n) <=> F(lines'[n], l)
      <4>1. CASE n = m + 1
        <5>1. k + 1 \in DOMAIN t
          BY <2>1, <3>1
        <5>. QED BY <1>1, <2>3, <3>1, <4>1, <5>1
      <4>2. CASE n # m + 1
        <5>1. n \in 1 .. m /\ lines'[n] = lines[n]
          BY <1>1, <4>2
        <5>2. (\E p \in 1 .. k : s[p] = n) <=> (\E p \in 1 .. (k + 1) : t[p] = n)
          <6>1. ASSUME NEW p \in 1 .. k, s[p] = n
                PROVE  p \in 1 .. (k + 1) /\ t[p] = n
            BY <2>1, <3>1, <6>1
          <6>2. ASSUME NEW p \in 1 .. (k + 1), t[p] = n
                PROVE  p \in 1 .. k /\ s[p] = n
            <7>1. p # k + 1
              BY <3>1, <4>2, <6>2
            <7>2. p \in 1 .. k
              BY <2>1, <7>1
            <7>. QED BY <3>1, <6>2, <7>2
          <6>. QED BY <6>1, <6>2
        <5>. QED BY <2>1, <3>1, <5>1, <5>2
      <4>. QED BY <4>1, <4>2
    <3>4. t \in Seq(Nat)
      <4>1. 1 .. (m + 1) \subseteq Nat
        BY <1>1
      <4>. QED BY <3>1, <4>1, SeqWider
    <3>. QED BY <1>1, <3>1, <3>2, <3>3, <3>4 DEF ListHolds, t, F
  <2>4. CASE ~F(line, l)
    <3>1. t = s
      BY <2>2, <2>4
    <3>2. t \in Seq(1 .. (m + 1)) /\ t \in Seq(Nat)
      <4>1. 1 .. m \subseteq 1 .. (m + 1) /\ 1 .. m \subseteq Nat
        BY <1>1
      <4>. QED BY <2>1, <3>1, <4>1, SeqWider
    <3>3. ASSUME NEW n \in 1 .. (m + 1)
          PROVE  (\E p \in DOMAIN t : t[p] = n) <=> F(lines'[n], l)
      <4>1. CASE n = m + 1
        <5>1. ~\E p \in DOMAIN t : t[p] = n
          BY <1>1, <2>1, <3>1, <4>1
        <5>. QED BY <1>1, <2>4, <4>1, <5>1
      <4>2. CASE n # m + 1
        <5>1. n \in 1 .. m /\ lines'[n] = lines[n]
          BY <1>1, <4>2
        <5>. QED BY <2>1, <3>1, <5>1
      <4>. QED BY <4>1, <4>2
    <3>. QED BY <1>1, <2>1, <3>1, <3>2, <3>3 DEF ListHolds, t, F
  <2>. QED BY <2>3, <2>4
<1>4. lists' \in [RuleLists -> Seq(Nat)]
  <2>1. lists' = [l \in RuleLists |-> lists'[l]]
    OBVIOUS
  <2>. QED BY <1>3, <2>1
<1>. QED BY <1>1, <1>2, <1>3, <1>4 DEF Configured

LEMMA RuleStep ==
  ASSUME RulesInv, NEW line \in Lines, Rule(line)
  PROVE  RulesInv'
<1>1. /\ pc = "conf" /\ UNCHANGED <<input, turn, ctx, applied>>
      /\ turn = 1 /\ applied = << >> /\ Configured
  BY DEF Rule, RulesInv, Before
<1>2. CASE Read(line).refused
  <2>1. pc' = "refused" /\ UNCHANGED <<lines, lists>>
    BY <1>2 DEF Rule, Read
  <2>2. Configured'
    BY <1>1, <2>1 DEF Configured, ListHolds
  <2>. QED BY <1>1, <2>1, <2>2 DEF RulesInv, Before, During, After
<1>3. CASE ~Read(line).refused
  <2>1. /\ pc' = pc
        /\ lines' = Append(lines, line)
        /\ lists' = [l \in RuleLists |->
                       IF Read(line).flags \cap Kept(l) # {}
                       THEN Append(lists[l], Len(lines) + 1) ELSE lists[l]]
    BY <1>3, Zenon DEF Rule, Read
  <2>2. Configured'
    BY <1>1, <1>3, <2>1, LineListed
  <2>. QED BY <1>1, <2>1, <2>2 DEF RulesInv, Before, During, After
<1>. QED BY <1>2, <1>3

\* The list of an item.
LEMMA ListFacts ==
  ASSUME Configured, input \in Inputs
  PROVE  /\ ListOf(input.source) \in RuleLists
         /\ TheList \in Seq(Nat) /\ Len(TheList) \in Nat
         /\ DOMAIN TheList = 1 .. Len(TheList)
         /\ Len(lines) \in Nat /\ DOMAIN lines = 1 .. Len(lines)
         /\ \A p \in DOMAIN TheList : TheList[p] \in DOMAIN lines
         /\ \A p, q \in DOMAIN TheList : p < q => TheList[p] < TheList[q]
         /\ \A n \in DOMAIN lines :
              (\E p \in DOMAIN TheList : TheList[p] = n)
                <=> Listed(Read(lines[n]), input.source)
<1>1. input.source \in Sources
  BY RulesAssumption
<1>2. ListOf(input.source) \in RuleLists
  BY <1>1 DEF Sources, ListOf, RuleLists
<1>. DEFINE s == TheList
            m == Len(lines)
<1>3. ListHolds(ListOf(input.source)) /\ s \in Seq(Nat)
  BY <1>2 DEF Configured, TheList
<1>4. m \in Nat /\ DOMAIN lines = 1 .. m
  BY DEF Configured
<1>5. /\ s \in Seq(1 .. m) 
      /\ \A p, q \in DOMAIN s : p < q => s[p] < s[q]
      /\ \A n \in 1 .. m : (\E p \in DOMAIN s : s[p] = n)
           <=> Listed(Read(lines[n]), input.source)
  BY <1>3, Zenon DEF ListHolds, TheList, Listed, m
<1>. HIDE DEF s, m
<1>6. Len(s) \in Nat /\ DOMAIN s = 1 .. Len(s)
  BY <1>3
<1>7. \A p \in DOMAIN s : s[p] \in 1 .. m
  BY <1>5, <1>6, ElementOfSeq
<1>. QED BY <1>2, <1>3, <1>4, <1>5, <1>6, <1>7 DEF s, m

LEMMA InspectStep ==
  ASSUME RulesInv, NEW it \in Inputs, Inspect(it)
  PROVE  RulesInv'
<1>1. /\ pc = "conf" /\ pc' = "rules" /\ input' = it
      /\ UNCHANGED <<lines, lists, turn, ctx, applied>>
      /\ turn = 1 /\ applied = << >> /\ Configured
  BY DEF Inspect, RulesInv, Before
<1>2. Configured'
  BY <1>1 DEF Configured, ListHolds
<1>3. input' \in Inputs
  BY <1>1
<1>4. \A p \in DOMAIN TheList' : p \in Nat /\ p >= 1
  <2>1. (Len(TheList) \in Nat /\ DOMAIN TheList = 1 .. Len(TheList))'
    BY <1>2, <1>3, ListFacts
  <2>. QED BY <2>1
<1>5. \A n : ~Ran(n)'
  BY <1>1, <1>4 DEF Ran
<1>6. \A n : NoRun(n)' /\ applied' \in Seq(Note')
  BY <1>1 DEF NoRun
<1>7. During'
  BY <1>1, <1>3, <1>5, <1>6 DEF During
<1>. QED BY <1>1, <1>2, <1>7 DEF RulesInv, Before, After

LEMMA DuringStays ==
  ASSUME During, UNCHANGED <<lines, lists, input, turn, applied>>,
         pc \in {"rules", "done"}
  PROVE  During'
<1>1. Note' = Note
  BY DEF Note
<1>2. ASSUME NEW n
      PROVE  Ran(n)' <=> Ran(n)
  BY DEF Ran, TheList
<1>3. ASSUME NEW n
      PROVE  NoRun(n)' <=> NoRun(n)
  BY DEF NoRun
<1>4. ASSUME NEW n
      PROVE  OneRun(n)' <=> OneRun(n)
  <2>1. HitsOf(n)' = HitsOf(n)
    BY DEF HitsOf
  <2>. QED BY <2>1, Zenon DEF OneRun
<1>5. /\ input \in Inputs /\ turn \in Nat \ {0} /\ applied \in Seq(Note)
      /\ \A n \in DOMAIN lines : IF Ran(n) THEN OneRun(n) ELSE NoRun(n)
  BY DEF During
<1>6. /\ input' \in Inputs /\ turn' \in Nat \ {0} /\ applied' \in Seq(Note')
      /\ \A n \in DOMAIN lines' : IF Ran(n)' THEN OneRun(n)' ELSE NoRun(n)'
  BY <1>1, <1>2, <1>3, <1>4, <1>5
<1>. QED BY <1>6 DEF During

LEMMA DoneStep ==
  ASSUME RulesInv, Done
  PROVE  RulesInv'
<1>1. /\ pc = "rules" /\ ~More /\ pc' = "done"
      /\ UNCHANGED <<lines, lists, input, turn, ctx, applied>>
  BY DEF Done
<1>2. Configured'
  BY <1>1 DEF RulesInv, Configured, ListHolds
<1>3. During'
  BY <1>1, DuringStays DEF RulesInv
<1>4. ~More'
  BY <1>1 DEF More
<1>. QED BY <1>1, <1>2, <1>3, <1>4 DEF RulesInv, Before, After

LEMMA StutterStep ==
  ASSUME RulesInv, UNCHANGED rulesVars
  PROVE  RulesInv'
<1>1. UNCHANGED <<pc, lines, lists, input, turn, ctx, applied>>
  BY DEF rulesVars
<1>2. Configured'
  BY <1>1 DEF RulesInv, Configured, ListHolds
<1>3. During'
  <2>1. CASE pc \in {"rules", "done"}
    BY <1>1, <2>1, DuringStays DEF RulesInv
  <2>2. CASE pc \notin {"rules", "done"}
    BY <1>1, <2>2 DEF During
  <2>. QED BY <2>1, <2>2
<1>4. Before' /\ After'
  BY <1>1 DEF RulesInv, Before, After, More
<1>. QED BY <1>2, <1>3, <1>4 DEF RulesInv

LEMMA ConcatFacts ==
  ASSUME NEW T, NEW s \in Seq(T), NEW t \in Seq(T)
  PROVE  /\ s \o t \in Seq(T) /\ Len(s \o t) = Len(s) + Len(t)
         /\ \A i \in 1 .. Len(s) : (s \o t)[i] = s[i]
         /\ \A i \in 1 .. Len(t) : (s \o t)[Len(s) + i] = t[i]
OBVIOUS

\* The matches of one rule, added to those of others.
LEMMA RunAdded ==
  ASSUME NEW k \in Nat, NEW h,
         applied \in Seq(Note), HitsOf(k) = h, h \in Seq(UNION {Finding(input, line) : line \in Lines}),
         applied' = applied \o [i \in DOMAIN h |-> [line |-> k, hit |-> h[i]]]
  PROVE  /\ applied' \in Seq(Note)
         /\ Len(applied') = Len(applied) + Len(h)
         /\ \A i \in 1 .. Len(applied) : applied'[i] = applied[i]
         /\ \A i \in 1 .. Len(h) : /\ applied'[Len(applied) + i].line = k
                                   /\ applied'[Len(applied) + i].hit = h[i]
<1>. DEFINE U == UNION {Finding(input, line) : line \in Lines}
            new == [i \in DOMAIN h |-> [line |-> k, hit |-> h[i]]]
            m == Len(applied)
            n == Len(h)
<1>. HIDE DEF U
<1>1. n \in Nat /\ DOMAIN h = 1 .. n /\ \A i \in 1 .. n : h[i] \in U
  BY DEF U
<1>2. m \in Nat /\ DOMAIN applied = 1 .. m
  OBVIOUS
<1>3. \A i \in 1 .. n : [line |-> k, hit |-> h[i]] \in Note
  BY <1>1 DEF Note, U
<1>. HIDE DEF n
<1>4. new = [i \in 1 .. n |-> [line |-> k, hit |-> h[i]]]
  BY <1>1
<1>5. new \in [1 .. n -> Note]
  BY <1>3, <1>4
<1>6. new \in Seq(Note) /\ Len(new) = n
  <2>. HIDE DEF new
  <2>. QED BY <1>1, <1>5
<1>7. \A i \in 1 .. n : new[i].line = k /\ new[i].hit = h[i]
  BY <1>4
<1>. HIDE DEF new
<1>8. applied' = applied \o new
  BY DEF new
<1>. HIDE DEF m
<1>9. /\ applied' \in Seq(Note) /\ Len(applied') = m + n
      /\ \A i \in 1 .. m : applied'[i] = applied[i]
      /\ \A i \in 1 .. n : applied'[m + i] = new[i]
  <2>1. applied \o new \in Seq(Note)
    BY <1>6, ConcatFacts
  <2>2. /\ Len(applied \o new) = m + n
        /\ \A i \in 1 .. m : (applied \o new)[i] = applied[i]
        /\ \A i \in 1 .. n : (applied \o new)[m + i] = new[i]
    BY <1>6, ConcatFacts DEF m
  <2>. QED BY <1>8, <2>1, <2>2
<1>. QED BY <1>7, <1>9 DEF m, n

LEMMA ApplyStep ==
  ASSUME RulesInv, Apply
  PROVE  RulesInv'
<1>0. PICK n0 : n0 = TheList[turn]
  OBVIOUS
<1>. DEFINE h == HitsOf(n0)
<1>1. /\ pc = "rules" /\ More /\ turn' = turn + 1
      /\ UNCHANGED <<pc, lines, lists, input>>
      /\ applied' = applied \o [i \in DOMAIN h |-> [line |-> n0, hit |-> h[i]]]
  BY <1>0, Zenon DEF Apply, TheList, HitsOf, Read
<1>2. /\ Configured /\ input \in Inputs /\ turn \in Nat \ {0} /\ applied \in Seq(Note)
      /\ \A n \in DOMAIN lines : IF Ran(n) THEN OneRun(n) ELSE NoRun(n)
  BY <1>1 DEF RulesInv, During
<1>3. /\ turn \in 1 .. Len(TheList) /\ turn \in DOMAIN TheList
      /\ DOMAIN TheList = 1 .. Len(TheList) /\ Len(TheList) \in Nat
      /\ n0 \in DOMAIN lines /\ n0 \in Nat /\ lines[n0] \in Lines
  <2>1. turn <= Len(TheList)
    BY <1>1 DEF More, TheList
  <2>2. Len(TheList) \in Nat /\ DOMAIN TheList = 1 .. Len(TheList)
    BY <1>2, ListFacts
  <2>3. turn \in DOMAIN TheList
    BY <1>2, <2>1, <2>2
  <2>4. n0 \in DOMAIN lines
    BY <1>0, <1>2, <2>3, ListFacts
  <2>5. n0 \in Nat /\ lines[n0] \in Lines
    BY <1>2, <2>4 DEF Configured
  <2>. QED BY <1>2, <2>1, <2>2, <2>3, <2>4, <2>5
<1>4. Configured'
  BY <1>1, <1>2 DEF Configured, ListHolds
<1>5. h \in Seq(UNION {Finding(input, line) : line \in Lines})
  <2>1. h \in Seq(Finding(input, lines[n0]))
    BY HitsAre DEF HitsOf
  <2>2. Finding(input, lines[n0]) \subseteq UNION {Finding(input, line) : line \in Lines}
    BY <1>3
  <2>. HIDE DEF h
  <2>. QED BY <2>1, <2>2, SeqWider
<1>. DEFINE m == Len(applied)
            k == Len(h)
<1>6. /\ applied' \in Seq(Note) /\ Len(applied') = m + k
      /\ \A i \in 1 .. m : applied'[i] = applied[i]
      /\ \A i \in 1 .. k : applied'[m + i].line = n0 /\ applied'[m + i].hit = h[i]
  BY <1>1, <1>2, <1>3, <1>5, RunAdded, ZenonT(60)
<1>7. m \in Nat /\ k \in Nat /\ DOMAIN applied = 1 .. m
  <2>. HIDE DEF h
  <2>. QED BY <1>2, <1>5
<1>8. DOMAIN applied' = 1 .. (m + k)
  BY <1>6
<1>9. \A i \in 1 .. (m + k) : i \in 1 .. m \/ (i - m \in 1 .. k /\ m + (i - m) = i)
  <2>. HIDE DEF m, k
  <2>. QED BY <1>7
<1>10. Note' = Note /\ \A n : HitsOf(n)' = HitsOf(n)
  BY <1>1 DEF Note, HitsOf
<1>11. TheList' = TheList
  BY <1>1 DEF TheList
<1>12. \A n : Ran(n)' <=> Ran(n) \/ n = n0
  <2>1. ASSUME NEW n
        PROVE  Ran(n)' <=> \E p \in DOMAIN TheList : p < turn + 1 /\ TheList[p] = n
    BY <1>1, <1>11, Zenon DEF Ran
  <2>2. \A p \in DOMAIN TheList : p < turn + 1 <=> p < turn \/ p = turn
    BY <1>2, <1>3
  <2>. QED BY <1>0, <1>3, <2>1, <2>2 DEF Ran
<1>13. ~Ran(n0)
  <2>1. ASSUME NEW p \in DOMAIN TheList, p < turn, TheList[p] = n0
        PROVE  FALSE
    <3>1. TheList[p] < TheList[turn]
      BY <1>2, <1>3, <2>1, ListFacts
    <3>. QED BY <1>0, <1>3, <2>1, <3>1
  <2>. QED BY <2>1 DEF Ran
<1>14. NoRun(n0)
  BY <1>2, <1>3, <1>13
<1>. HIDE DEF m, k, h
<1>15. OneRun(n0)'
  <2>1. \A i \in DOMAIN applied' : applied'[i].line = n0 <=> i \in (m + 1) .. (m + k)
    <3>1. ASSUME NEW i \in 1 .. m
          PROVE  applied'[i].line # n0 /\ i \notin (m + 1) .. (m + k)
      BY <1>6, <1>7, <1>14 DEF NoRun
    <3>2. ASSUME NEW i \in 1 .. (m + k), i - m \in 1 .. k, m + (i - m) = i
          PROVE  applied'[i].line = n0 /\ i \in (m + 1) .. (m + k)
      <4>1. applied'[m + (i - m)].line = n0
        BY <1>6, <3>2
      <4>2. i \in (m + 1) .. (m + k)
        BY <1>7, <3>2
      <4>. QED BY <3>2, <4>1, <4>2
    <3>. QED BY <1>8, <1>9, <3>1, <3>2
  <2>2. HitsOf(n0)' = h /\ Len(h) = k
    BY <1>10 DEF h, k
  <2>3. m + Len(HitsOf(n0)') <= Len(applied')
    BY <1>6, <1>7, <2>2
  <2>. QED BY <1>6, <1>7, <2>1, <2>2, <2>3, Zenon DEF OneRun
<1>16. ASSUME NEW n \in DOMAIN lines, n # n0, NoRun(n)
       PROVE  NoRun(n)'
  <2>1. ASSUME NEW i \in 1 .. (m + k)
        PROVE  applied'[i].line # n
    <3>1. CASE i \in 1 .. m
      BY <1>6, <1>7, <1>16, <3>1 DEF NoRun
    <3>2. CASE i - m \in 1 .. k /\ m + (i - m) = i
      <4>1. applied'[i].line = n0
        BY <1>6, <3>2
      <4>. QED BY <1>16, <4>1
    <3>. QED BY <1>9, <3>1, <3>2
  <2>. QED BY <1>8, <2>1 DEF NoRun
<1>17. ASSUME NEW n \in DOMAIN lines, n # n0, OneRun(n)
       PROVE  OneRun(n)'
  <2>. DEFINE q == Len(HitsOf(n))
              g == HitsOf(n)
  <2>1. PICK a \in Nat :
          /\ a + q <= m
          /\ \A i \in 1 .. m : applied[i].line = n <=> i \in (a + 1) .. (a + q)
          /\ \A j \in 1 .. q : applied[a + j].hit = g[j]
    BY <1>7, <1>17 DEF OneRun, m
  <2>2. q \in Nat
    <3>1. g \in Seq(Finding(input, lines[n]))
      BY HitsAre DEF HitsOf
    <3>. QED BY <3>1
  <2>3. HitsOf(n)' = g
    BY <1>10
  <2>. HIDE DEF g, q
  <2>4. a + q <= Len(applied')
    BY <1>6, <1>7, <2>1, <2>2
  <2>5. ASSUME NEW i \in 1 .. (m + k)
        PROVE  applied'[i].line = n <=> i \in (a + 1) .. (a + q)
    <3>1. CASE i \in 1 .. m
      BY <1>6, <2>1, <3>1
    <3>2. CASE i - m \in 1 .. k /\ m + (i - m) = i
      <4>1. applied'[i].line = n0
        BY <1>6, <3>2
      <4>2. i \notin (a + 1) .. (a + q)
        BY <1>7, <2>1, <2>2, <3>2
      <4>. QED BY <1>17, <4>1, <4>2
    <3>. QED BY <1>9, <3>1, <3>2
  <2>6. ASSUME NEW j \in 1 .. q
        PROVE  applied'[a + j].hit = g[j]
    <3>1. a + j \in 1 .. m
      BY <1>7, <2>1, <2>2
    <3>. QED BY <1>6, <2>1, <3>1
  <2>7. q = Len(HitsOf(n)')
    BY <2>3 DEF g, q
  <2>. QED BY <1>8, <2>3, <2>4, <2>5, <2>6, <2>7, Zenon DEF OneRun
<1>18. \A n \in DOMAIN lines' : IF Ran(n)' THEN OneRun(n)' ELSE NoRun(n)'
  <2>1. ASSUME NEW n \in DOMAIN lines
        PROVE  IF Ran(n)' THEN OneRun(n)' ELSE NoRun(n)'
    BY <1>2, <1>12, <1>15, <1>16, <1>17
  <2>. QED BY <1>1, <2>1
<1>19. input' \in Inputs /\ turn' \in Nat \ {0} /\ applied' \in Seq(Note')
  BY <1>1, <1>2, <1>6, <1>10
<1>20. During'
  BY <1>18, <1>19 DEF During
<1>. QED BY <1>1, <1>4, <1>20 DEF RulesInv, Before, After

LEMMA RulesStepInv == RulesInv /\ [RulesNext]_rulesVars => RulesInv'
<1>. SUFFICES ASSUME RulesInv, [RulesNext]_rulesVars PROVE RulesInv'
  OBVIOUS
<1>1. CASE \E line \in Lines : Rule(line)
  BY <1>1, RuleStep
<1>2. CASE \E it \in Inputs : Inspect(it)
  BY <1>2, InspectStep
<1>3. CASE Apply
  BY <1>3, ApplyStep
<1>4. CASE Done
  BY <1>4, DoneStep
<1>5. CASE UNCHANGED rulesVars
  BY <1>5, StutterStep
<1>. QED BY <1>1, <1>2, <1>3, <1>4, <1>5 DEF RulesNext

\* The lists hold each line once, in order, that has a flag for them, and the
\* matches of a rule are those of one run of it, when its turn is over.
THEOREM OnceEachInItsLists == RulesSpec => []RulesInv
BY RulesInitInv, RulesStepInv, PTL DEF RulesSpec

-----------------------------------------------------------------------------
(***************************************************************************)
(* Rules: the invariants                                                   *)
(***************************************************************************)
LEMMA PlainSearched ==
  ASSUME NEW line \in Lines, PlainRule(line), input \in Inputs
  PROVE  Searched(NameText(input), line) /\ Searched(ValueText(input), line)
<1>1. IsText(NameText(input)) /\ IsText(ValueText(input))
  BY InputTexts
<1>2. line.pattern.type \in {"STR", "RX"}
  BY LineFacts
<1>3. CASE line.pattern.type = "STR"
  <2>1. ~Overruns(NameText(input), line) /\ ~Overruns(ValueText(input), line)
    BY DEF PlainRule, Texts
  <2>. QED BY <1>1, <1>3, <2>1, SearchedString
<1>4. CASE line.pattern.type = "RX"
  <2>1. Roomy(line)
    BY DEF PlainRule
  <2>. QED BY <1>1, <1>4, <2>1, SearchedExpression
<1>. QED BY <1>2, <1>3, <1>4

LEMMA PlainProcess ==
  ASSUME NEW line \in Lines, NEW text, Searched(text, line)
  PROVE  process_basic_rule_buffer(text, line) <=> (Occurs(text, line) # line.negative)
<1>. DEFINE p == nb_match(text, line.pattern) > 0
            o == Occurs(text, line)
<1>1. (p <=> o) /\ (p \in BOOLEAN) /\ (o \in BOOLEAN) /\ line.negative \in BOOLEAN
  BY LineFacts DEF Searched, Occurs
<1>2. process_basic_rule_buffer(text, line) <=> (p # line.negative)
  BY DEF process_basic_rule_buffer
<1>. HIDE DEF p, o
<1>3. (p # line.negative) <=> (o # line.negative)
  BY <1>1
<1>. QED BY <1>2, <1>3 DEF o

\* The matches of a rule whose turn is over are what one run of it finds.
LEMMA RunMatches ==
  ASSUME NEW n, NEW t \in BOOLEAN, OneRun(n), applied \in Seq(Note),
         HitsOf(n) \in Seq(Finding(input, lines[n]))
  PROVE  /\ \A i \in Matches(n, t) : /\ applied[i].hit \in ElementsOf(HitsOf(n))
                                     /\ applied[i].hit.target_name = t
         /\ \A h \in ElementsOf(HitsOf(n)) : h.target_name = t => Matches(n, t) # {}
         /\ Cardinality(Matches(n, t)) <= Cardinality(In(HitsOf(n), t))
<1>. DEFINE g == HitsOf(n)
            q == Len(g)
            M == Matches(n, t)
<1>1. PICK a \in Nat :
        /\ a + q <= Len(applied)
        /\ \A i \in DOMAIN applied : applied[i].line = n <=> i \in (a + 1) .. (a + q)
        /\ \A j \in 1 .. q : applied[a + j].hit = g[j]
  BY DEF OneRun
<1>2. q \in Nat /\ DOMAIN g = 1 .. q
  OBVIOUS
<1>3. Len(applied) \in Nat /\ DOMAIN applied = 1 .. Len(applied)
  OBVIOUS
<1>4. \A i : i \in M <=> /\ i \in DOMAIN applied
                         /\ applied[i].line = n /\ applied[i].hit.target_name = t
  BY DEF Matches
<1>5. \A j : j \in In(g, t) <=> j \in 1 .. q /\ g[j].target_name = t
  BY <1>2 DEF In
<1>6. \A h : h \in ElementsOf(g) <=> \E j \in 1 .. q : h = g[j]
  BY <1>2 DEF ElementsOf
<1>7. IsFiniteSet(In(g, t))
  BY BothParts
<1>. HIDE DEF g, q, M
<1>8. ASSUME NEW i \in M
      PROVE  i - a \in In(g, t) /\ a + (i - a) = i /\ applied[i].hit = g[i - a]
  <2>1. i \in (a + 1) .. (a + q) /\ i \in Nat
    BY <1>1, <1>3, <1>4
  <2>2. i - a \in 1 .. q /\ a + (i - a) = i
    BY <1>2, <2>1
  <2>3. applied[a + (i - a)].hit = g[i - a]
    BY <1>1, <2>2
  <2>. QED BY <1>4, <1>5, <2>2, <2>3
<1>9. ASSUME NEW j \in In(g, t)
      PROVE  a + j \in M
  <2>1. j \in 1 .. q /\ g[j].target_name = t
    BY <1>5
  <2>2. a + j \in DOMAIN applied /\ a + j \in (a + 1) .. (a + q)
    BY <1>1, <1>2, <1>3, <2>1
  <2>. QED BY <1>1, <1>4, <2>1, <2>2
<1>10. Cardinality(M) <= Cardinality(In(g, t))
  <2>. DEFINE f == [j \in In(g, t) |-> a + j]
  <2>1. f \in [In(g, t) -> M]
    BY <1>9
  <2>2. \A i \in M : \E j \in In(g, t) : f[j] = i
    BY <1>8
  <2>. HIDE DEF f
  <2>. QED BY <1>7, <2>1, <2>2, ImageFinite
<1>11. \A i \in M : applied[i].hit \in ElementsOf(g) /\ applied[i].hit.target_name = t
  BY <1>4, <1>5, <1>6, <1>8
<1>12. \A h \in ElementsOf(g) : h.target_name = t => M # {}
  BY <1>5, <1>6, <1>9
<1>. QED BY <1>10, <1>11, <1>12 DEF g, M

\* What is asked of a rule and what is found, of a clear one.
LEMMA ClearRun ==
  ASSUME RulesInv, pc \in {"rules", "done"}, NEW n \in DOMAIN lines,
         ClearRule(lines[n])
  PROVE  LET line == lines[n]
             r == Read(line)
         IN /\ line \in Lines
            /\ HitsOf(n) \in Seq(Finding(input, line))
            /\ Asked(line, input) => Listed(r, input.source)
            /\ Listed(r, input.source) =>
                 /\ ElementsOf(HitsOf(n))
                      = {h \in Finding(input, line) :
                           /\ Asked(line, input)
                           /\ IF h.target_name
                              THEN /\ ~line.negative
                                   /\ process_basic_rule_buffer(NameText(input), line)
                              ELSE /\ ByVar(line, input) \/ ~NameOnly(line)
                                   /\ process_basic_rule_buffer(ValueText(input), line)}
                 /\ \A t \in BOOLEAN :
                      Cardinality(In(HitsOf(n), t))
                        <= IF ByVar(line, input) /\ ByZone(line, input) THEN 2 ELSE 1
<1>. DEFINE line == lines[n]
            r == Read(line)
<1>1. line \in Lines /\ ~r.refused /\ input \in Inputs
  BY DEF RulesInv, Configured, During
<1>. HIDE DEF line
<1>2. RuleIs(r, line)
  BY <1>1, ReadIs
<1>3. ClearRule(line)
  BY DEF line
<1>. HIDE DEF r
<1>. DEFINE ok == uri_constraint_ok(r, input.uri)
            named == NamedHere(r, input) # {}
            zone == r.flags \cap ZoneFlags(ZoneOf(input.source)) # {}
            names == "target_name" \in r.flags
<1>4. /\ HitsOf(n) \in Seq(Finding(input, line))
      /\ ElementsOf(HitsOf(n)) = Found(input, line, ok, named, zone, names)
      /\ \A t \in BOOLEAN :
           Cardinality(In(HitsOf(n), t)) <= IF named /\ zone THEN 2 ELSE 1
  BY HitsAre DEF HitsOf, line, r
<1>5. ok <=> \A k \in Words(line) : k.mz = "$URL" => Same(k, input.uri)
  BY <1>1, <1>2, <1>3, UriHolds
<1>6. names <=> NameOnly(line)
  BY <1>1, <1>2, RuleFlags DEF NameOnly
<1>7. Asked(line, input) <=> (ByVar(line, input) \/ ByZone(line, input)) /\ ok
  BY <1>5 DEF Asked
<1>8. Asked(line, input) => Listed(r, input.source)
  BY <1>1, <1>2, <1>7, AskedIsListed
<1>9. ASSUME Listed(r, input.source)
      PROVE  (named <=> ByVar(line, input)) /\ (zone <=> ByZone(line, input))
  BY <1>1, <1>2, <1>3, <1>9, NamedIsAsked, ZoneIsAsked
<1>. HIDE DEF ok, named, zone, names
<1>10. ASSUME Listed(r, input.source)
       PROVE  /\ ElementsOf(HitsOf(n))
                   = {h \in Finding(input, line) :
                        /\ Asked(line, input)
                        /\ IF h.target_name
                           THEN /\ ~line.negative
                                /\ process_basic_rule_buffer(NameText(input), line)
                           ELSE /\ ByVar(line, input) \/ ~NameOnly(line)
                                /\ process_basic_rule_buffer(ValueText(input), line)}
              /\ \A t \in BOOLEAN :
                   Cardinality(In(HitsOf(n), t))
                     <= IF ByVar(line, input) /\ ByZone(line, input) THEN 2 ELSE 1
  <2>. DEFINE A == Asked(line, input)
              V == ByVar(line, input)
              Z == ByZone(line, input)
              O == NameOnly(line)
              P == process_basic_rule_buffer(ValueText(input), line)
              Q == process_basic_rule_buffer(NameText(input), line)
  <2>1. (named <=> V) /\ (zone <=> Z) /\ (A <=> (V \/ Z) /\ ok) /\ (names <=> O)
    BY <1>6, <1>7, <1>9, <1>10
  <2>2. ElementsOf(HitsOf(n))
          = {h \in Finding(input, line) :
               /\ ok
               /\ IF h.target_name THEN (named \/ zone) /\ ~line.negative /\ Q
                  ELSE (named \/ (zone /\ ~names)) /\ P}
    BY <1>4 DEF Found
  <2>. HIDE DEF A, V, Z, O, P, Q
  <2>3. ElementsOf(HitsOf(n))
          = {h \in Finding(input, line) :
               /\ A
               /\ IF h.target_name THEN ~line.negative /\ Q ELSE (V \/ ~O) /\ P}
    BY <2>1, <2>2
  <2>4. \A t \in BOOLEAN : Cardinality(In(HitsOf(n), t)) <= IF V /\ Z THEN 2 ELSE 1
    BY <1>4, <2>1
  <2>. QED BY <2>3, <2>4 DEF A, V, Z, O, P, Q
<1>. QED BY <1>1, <1>4, <1>8, <1>10 DEF line, r

\* Whether a rule ran, and was in the list.
LEMMA RanListed ==
  ASSUME RulesInv, pc \in {"rules", "done"}, NEW n \in DOMAIN lines
  PROVE  /\ Ran(n) => Listed(Read(lines[n]), input.source) /\ OneRun(n)
         /\ ~Ran(n) => NoRun(n)
         /\ pc = "done" /\ Going(ctx) /\ Listed(Read(lines[n]), input.source) => Ran(n)
         /\ applied \in Seq(Note) /\ input \in Inputs
<1>1. /\ Configured /\ input \in Inputs /\ applied \in Seq(Note) /\ turn \in Nat \ {0}
      /\ IF Ran(n) THEN OneRun(n) ELSE NoRun(n)
  BY DEF RulesInv, During
<1>2. (\E p \in DOMAIN TheList : TheList[p] = n) <=> Listed(Read(lines[n]), input.source)
  BY <1>1, ListFacts
<1>3. DOMAIN TheList = 1 .. Len(TheList) /\ Len(TheList) \in Nat
  BY <1>1, ListFacts
<1>4. pc = "done" /\ Going(ctx) => ~(turn <= Len(TheList))
  BY DEF RulesInv, After, More, TheList
<1>. QED BY <1>1, <1>2, <1>3, <1>4 DEF Ran

LEMMA MissedInv == RulesInv => NoRuleMissed
<1>. SUFFICES ASSUME RulesInv, pc = "done", Going(ctx), NEW n \in DOMAIN lines,
                     PlainRule(lines[n]), Asked(lines[n], input)
              PROVE  LET line == lines[n]
                     IN /\ ~line.negative /\ Occurs(NameText(input), line) =>
                             Matches(n, TRUE) # {}
                        /\ ~NameOnly(line) /\ Occurs(ValueText(input), line) # line.negative =>
                             Matches(n, FALSE) # {}
  BY DEF NoRuleMissed
<1>. DEFINE line == lines[n]
<1>1. ClearRule(line) /\ Asked(line, input)
  BY DEF PlainRule
<1>2. /\ line \in Lines /\ Listed(Read(line), input.source)
      /\ HitsOf(n) \in Seq(Finding(input, line))
      /\ ElementsOf(HitsOf(n))
                      = {h \in Finding(input, line) :
                           /\ Asked(line, input)
                           /\ IF h.target_name
                              THEN /\ ~line.negative
                                   /\ process_basic_rule_buffer(NameText(input), line)
                              ELSE /\ ByVar(line, input) \/ ~NameOnly(line)
                                   /\ process_basic_rule_buffer(ValueText(input), line)}
  BY <1>1, ClearRun
<1>3. OneRun(n) /\ applied \in Seq(Note) /\ input \in Inputs
  BY <1>2, RanListed
<1>4. /\ \A h \in ElementsOf(HitsOf(n)) : h.target_name = TRUE => Matches(n, TRUE) # {}
      /\ \A h \in ElementsOf(HitsOf(n)) : h.target_name = FALSE => Matches(n, FALSE) # {}
  BY <1>2, <1>3, RunMatches
<1>5. /\ InTheValue(input, line) \in Finding(input, line)
      /\ InTheName(input, line) \in Finding(input, line)
      /\ InTheValue(input, line).target_name = FALSE
      /\ InTheName(input, line).target_name = TRUE
  BY DEF Finding, InTheValue, InTheName
<1>6. /\ Searched(NameText(input), line) /\ Searched(ValueText(input), line)
  BY <1>2, <1>3, PlainSearched
<1>7. \A t \in Texts : process_basic_rule_buffer(t, line) <=> (Occurs(t, line) # line.negative)
  BY <1>2, <1>6, PlainProcess DEF Texts
<1>. QED BY <1>1, <1>2, <1>4, <1>5, <1>7 DEF Texts

\* Outside of an inspection there are no matches.
LEMMA NoMatches ==
  ASSUME RulesInv, pc \notin {"rules", "done"}, NEW n, NEW t
  PROVE  Matches(n, t) = {}
<1>1. applied = << >>
  BY DEF RulesInv, Configured, Before
<1>. QED BY <1>1 DEF Matches

LEMMA NotRun ==
  ASSUME NEW n, NoRun(n), NEW t
  PROVE  Matches(n, t) = {}
BY DEF NoRun, Matches

LEMMA OnlyInv == RulesInv => OnlyWhatIsAsked
<1>. SUFFICES ASSUME RulesInv, NEW n \in DOMAIN lines, NEW target \in BOOLEAN,
                     NEW i \in Matches(n, target), PlainRule(lines[n])
              PROVE  LET line == lines[n]
                         text == IF target THEN NameText(input) ELSE ValueText(input)
                         places == Places(text, line.pattern.word)
                         apart(S) == \A p, q \in S : p < q => p + Len(line.pattern.word) <= q
                     IN /\ Asked(line, input)
                        /\ target => ~line.negative
                        /\ ~target => ~NameOnly(line) \/ NamedVariable(line)
                        /\ IF line.pattern.type = "STR"
                           THEN applied[i].hit.nb_match = Cardinality(places)
                           ELSE \E S \in SUBSET places :
                                  /\ apart(S)
                                  /\ applied[i].hit.nb_match
                                       = Cardinality(S) * (line.pattern.groups + 1)
                                  /\ \A p \in places : apart(S \cup {p}) => p \in S
  BY Zenon DEF OnlyWhatIsAsked
<1>. DEFINE line == lines[n]
            text == IF target THEN NameText(input) ELSE ValueText(input)
<1>1. pc \in {"rules", "done"}
  BY NoMatches
<1>2. Ran(n)
  BY <1>1, NotRun, RanListed
<1>3. /\ OneRun(n) /\ Listed(Read(line), input.source) /\ applied \in Seq(Note)
      /\ input \in Inputs
  BY <1>1, <1>2, RanListed
<1>4. ClearRule(line)
  BY DEF PlainRule
<1>5. /\ line \in Lines
      /\ HitsOf(n) \in Seq(Finding(input, line))
      /\ ElementsOf(HitsOf(n))
                      = {h \in Finding(input, line) :
                           /\ Asked(line, input)
                           /\ IF h.target_name
                              THEN /\ ~line.negative
                                   /\ process_basic_rule_buffer(NameText(input), line)
                              ELSE /\ ByVar(line, input) \/ ~NameOnly(line)
                                   /\ process_basic_rule_buffer(ValueText(input), line)}
  BY <1>1, <1>3, <1>4, ClearRun
<1>6. applied[i].hit \in ElementsOf(HitsOf(n)) /\ applied[i].hit.target_name = target
  BY <1>3, <1>5, RunMatches
<1>7. Searched(text, line)
  BY <1>3, <1>5, PlainSearched
<1>8. applied[i].hit.nb_match = nb_match(text, line.pattern)
  <2>1. applied[i].hit \in {InTheValue(input, line), InTheName(input, line)}
    <3>1. applied[i].hit \in Finding(input, line)
      <4>. HIDE DEF line
      <4>. QED BY <1>5, <1>6
    <3>. QED BY <3>1, Zenon DEF Finding, InTheValue, InTheName
  <2>2. /\ InTheValue(input, line).target_name = FALSE
        /\ InTheValue(input, line).nb_match = nb_match(ValueText(input), line.pattern)
        /\ InTheName(input, line).target_name = TRUE
        /\ InTheName(input, line).nb_match = nb_match(NameText(input), line.pattern)
    BY DEF InTheValue, InTheName
  <2>. HIDE DEF line
  <2>3. CASE target
    <3>1. applied[i].hit = InTheName(input, line)
      BY <1>6, <2>1, <2>2, <2>3
    <3>. QED BY <2>2, <2>3, <3>1
  <2>4. CASE ~target
    <3>1. applied[i].hit = InTheValue(input, line)
      BY <1>6, <2>1, <2>2, <2>4
    <3>. QED BY <2>2, <2>4, <3>1
  <2>. QED BY <2>3, <2>4
<1>9. /\ Asked(line, input)
      /\ target => ~line.negative
      /\ ~target => ~NameOnly(line) \/ NamedVariable(line)
  <2>1. /\ Asked(line, input)
        /\ target => ~line.negative
        /\ ~target => ByVar(line, input) \/ ~NameOnly(line)
    BY <1>5, <1>6
  <2>2. ByVar(line, input) => NamedVariable(line)
    <3>1. \A k \in Words(line) : k.mz # "none"
      <4>1. line \in Lines
        BY <1>5
      <4>. HIDE DEF line
      <4>2. line.mz \in Seq(Keyword)
        BY <4>1, RulesAssumption
      <4>3. \A k \in Words(line) : k \in Keyword
        BY <4>2 DEF Words
      <4>4. \A k \in Keyword : k.mz # "none"
        BY DEF Keyword, Located
      <4>. QED BY <4>3, <4>4
    <3>. HIDE DEF line
    <3>. QED BY <3>1 DEF ByVar, NamedVariable, Has
  <2>. QED BY <2>1, <2>2
<1>. HIDE DEF text, line
<1>10. IF line.pattern.type = "STR"
       THEN applied[i].hit.nb_match = Cardinality(Places(text, line.pattern.word))
       ELSE \E S \in SUBSET Places(text, line.pattern.word) :
              /\ \A p, q \in S : p < q => p + Len(line.pattern.word) <= q
              /\ applied[i].hit.nb_match = Cardinality(S) * (line.pattern.groups + 1)
              /\ \A p \in Places(text, line.pattern.word) :
                   (\A a, b \in S \cup {p} : a < b => a + Len(line.pattern.word) <= b)
                     => p \in S
  BY <1>7, <1>8, Zenon DEF Searched, Disjoint
<1>. QED BY <1>9, <1>10, Zenon DEF text, line

LEMMA OnceInv == RulesInv => CountedOnce
<1>. SUFFICES ASSUME RulesInv, NEW n \in DOMAIN lines, NEW target \in BOOLEAN,
                     ClearRule(lines[n])
              PROVE  Cardinality(Matches(n, target))
                       <= IF ByVar(lines[n], input) /\ ByZone(lines[n], input)
                          THEN 2 ELSE 1
  BY Zenon DEF CountedOnce
<1>1. CASE Matches(n, target) = {}
  <2>1. Cardinality(Matches(n, target)) = 0
    BY <1>1, FS_EmptySet
  <2>. QED BY <2>1
<1>2. CASE Matches(n, target) # {}
  <2>1. pc \in {"rules", "done"}
    BY <1>2, NoMatches
  <2>2. Ran(n)
    BY <1>2, <2>1, NotRun, RanListed
  <2>3. OneRun(n) /\ Listed(Read(lines[n]), input.source) /\ applied \in Seq(Note)
    BY <2>1, <2>2, RanListed
  <2>4. /\ HitsOf(n) \in Seq(Finding(input, lines[n]))
        /\ Cardinality(In(HitsOf(n), target))
             <= IF ByVar(lines[n], input) /\ ByZone(lines[n], input) THEN 2 ELSE 1
    BY <2>1, <2>3, ClearRun
  <2>5. Cardinality(Matches(n, target)) <= Cardinality(In(HitsOf(n), target))
    BY <2>3, <2>4, RunMatches
  <2>6. Cardinality(Matches(n, target)) \in Nat /\ Cardinality(In(HitsOf(n), target)) \in Nat
    <3>1. IsFiniteSet(In(HitsOf(n), target))
      BY <2>4, BothParts
    <3>2. Matches(n, target) \in SUBSET (1 .. Len(applied)) /\ Len(applied) \in Nat
      <4>1. DOMAIN applied = 1 .. Len(applied) /\ Len(applied) \in Nat
        BY <2>3
      <4>2. Matches(n, target) \subseteq DOMAIN applied
        BY DEF Matches
      <4>. QED BY <4>1, <4>2
    <3>3. IsFiniteSet(Matches(n, target))
      <4>1. \A k \in Nat : IsFiniteSet(1 .. k)
        BY FS_Interval
      <4>2. IsFiniteSet(1 .. Len(applied))
        BY <3>2, <4>1
      <4>. QED BY <3>2, <4>2, FS_Subset
    <3>. QED BY <3>1, <3>3, FS_CardinalityType
  <2>. QED BY <2>4, <2>5, <2>6
<1>. QED BY <1>1, <1>2

\* No rule of an item's list is passed over, at any number of rules.
THEOREM NoneMissedThroughout == RulesSpec => []NoRuleMissed
BY OnceEachInItsLists, MissedInv, PTL

THEOREM OnlyAskedThroughout == RulesSpec => []OnlyWhatIsAsked
BY OnceEachInItsLists, OnlyInv, PTL

THEOREM CountedOnceThroughout == RulesSpec => []CountedOnce
BY OnceEachInItsLists, OnceInv, PTL
=============================================================================
