-------------------------- MODULE NaxsiConfProofs --------------------------
(***************************************************************************)
(* Proofs about NaxsiConf, for any tree of blocks, any rules and any       *)
(* addresses; and about NaxsiNet, for any width of an address.             *)
(***************************************************************************)
EXTENDS NaxsiConf, TLAPS

-----------------------------------------------------------------------------
(***************************************************************************)
(* Addresses                                                               *)
(***************************************************************************)

\* Shifted by less than the width, a word keeps its first bits.
LEMMA Shift ==
  ASSUME NEW w \in Nat, NEW n \in Nat, n >= 1, n <= w
  PROVE  Shifted(w, w - n) = {1 .. n}
  BY DEF Shifted

\* Every mask but the one whose shift is undefined has the bits it is to have.
LEMMA MaskBits ==
  ASSUME NEW version \in Versions, NEW mask \in Nat, mask # 0,
         mask <= Width(version), ~(version = "IPv6" /\ mask = Half)
  PROVE  cidr_masks(version, mask) = {1 .. mask}
  <1>1. Width4 \in Nat /\ Half \in Nat /\ Half >= 1 /\ mask >= 1
    BY WidthsAssumption
  <1>2. CASE version = "IPv4"
    <2>1. mask <= Width4
      BY <1>2 DEF Width
    <2>2. QED
      BY <1>1, <1>2, <2>1, Shift DEF cidr_masks
  <1>3. CASE version = "IPv6" /\ mask < Half
    <2>1. ~(mask > Half - 1)
      BY <1>1, <1>3
    <2>2. QED
      BY <1>1, <1>3, <2>1, Shift DEF cidr_masks
  <1>4. CASE version = "IPv6" /\ mask > Half
    <2> DEFINE n == mask - Half
    <2>1. n \in Nat /\ n >= 1 /\ n <= Half /\ 2 * Half - mask = Half - n
      BY <1>1, <1>4 DEF Width
    <2>2. Shifted(Half, 2 * Half - mask) = {1 .. n}
      BY <1>1, <2>1, Shift
    <2>3. mask > Half - 1
      BY <1>1, <1>4
    <2>4. cidr_masks(version, mask)
            = {(1 .. Half) \cup {Half + i : i \in low} : low \in {1 .. n}}
      BY <1>4, <2>2, <2>3 DEF cidr_masks
    <2>5. cidr_masks(version, mask)
            = {(1 .. Half) \cup {Half + i : i \in 1 .. n}}
      BY <2>4, Zenon
    <2>6. ASSUME NEW k \in 1 .. mask
          PROVE  k \in (1 .. Half) \cup {Half + i : i \in 1 .. n}
      <3>1. CASE k <= Half
        BY <1>1, <3>1
      <3>2. CASE k > Half
        <4>1. k - Half \in 1 .. n /\ k = Half + (k - Half)
          BY <1>1, <3>2
        <4>2. QED
          BY <4>1
      <3>3. QED
        BY <1>1, <3>1, <3>2
    <2>7. ASSUME NEW k \in (1 .. Half) \cup {Half + i : i \in 1 .. n}
          PROVE  k \in 1 .. mask
      BY <1>1, <1>4, <2>1
    <2>8. (1 .. Half) \cup {Half + i : i \in 1 .. n} = 1 .. mask
      BY <2>6, <2>7
    <2>9. QED
      BY <2>5, <2>8
  <1>5. QED
    BY <1>1, <1>2, <1>3, <1>4 DEF Versions

\* A CIDR matches the addresses that have its prefix, and no other: the split
\* of an IPv6 mask into two words and the order of the bits do not show
\* (naxsi_parse_cidr, naxsi_is_in_subnet).  The mask of one whole word is left
\* out, as nothing can be said of it.
THEOREM SubnetIsPrefix ==
  ASSUME NEW net \in Ips, NEW mask \in Nat, NEW ip \in Ips,
         ~(net.version = "IPv6" /\ mask = Half),
         NEW cidr \in naxsi_parse_cidr(net, mask)
  PROVE  naxsi_is_in_subnet(cidr, ip) <=> HasPrefix(ip, net, mask)
  <1>1. ValidMask(net.version, mask) /\ net # NoIp
    BY DEF naxsi_parse_cidr
  <1>2. net.version \in Versions
    BY DEF Ips
  <1>3. cidr_masks(net.version, mask) = {1 .. mask}
    BY <1>1, <1>2, MaskBits DEF ValidMask
  <1>4. cidr = [subnet |-> net, mask |-> 1 .. mask]
    BY <1>1, <1>3 DEF naxsi_parse_cidr
  <1>5. QED
    BY <1>4 DEF naxsi_is_in_subnet, HasPrefix
-----------------------------------------------------------------------------
(***************************************************************************)
(* The tree of blocks                                                      *)
(***************************************************************************)

LEMMA AroundItself ==
  ASSUME NEW c \in Confs
  PROVE  c \in Around[c] /\ Around[c] \subseteq Confs
  BY DEF Around

LEMMA AroundClosed ==
  ASSUME NEW c \in Confs, NEW d \in Around[c], d # Root
  PROVE  Parent[d] \in Around[c] /\ Parent[d] \in Confs
  <1>1. d \in Confs
    BY DEF Around
  <1>2. Parent[d] \in Confs
    BY <1>1, ConfAssumption
  <1>3. \A S \in SUBSET Confs : c \in S /\ Closed(S) => Parent[d] \in S
    BY <1>1 DEF Around, Closed
  <1>4. QED
    BY <1>2, <1>3 DEF Around

\* The smallest set there is.
LEMMA AroundLeast ==
  ASSUME NEW c \in Confs, NEW S \in SUBSET Confs, c \in S, Closed(S)
  PROVE  Around[c] \subseteq S
  BY DEF Around

LEMMA AroundIsClosed ==
  ASSUME NEW c \in Confs
  PROVE  Closed(Around[c])
  BY AroundClosed DEF Closed

LEMMA AroundTransitive ==
  ASSUME NEW c \in Confs, NEW d \in Around[c]
  PROVE  Around[d] \subseteq Around[c]
  BY AroundItself, AroundIsClosed, AroundLeast

LEMMA AroundRoot == Around[Root] = {Root}
  <1>1. Closed({Root}) /\ {Root} \in SUBSET Confs /\ Root \in Confs
    BY ConfAssumption DEF Closed
  <1>2. QED
    BY <1>1, AroundLeast, AroundItself

LEMMA AroundStep ==
  ASSUME NEW c \in Confs, c # Root
  PROVE  Parent[c] \in Confs /\ Around[c] = {c} \cup Around[Parent[c]]
  <1>1. Parent[c] \in Confs /\ Parent[c] \in Around[c]
    BY AroundItself, AroundClosed
  <1> DEFINE S == {c} \cup Around[Parent[c]]
  <1>2. S \in SUBSET Confs /\ c \in S
    BY <1>1, AroundItself
  <1>3. Closed(S)
    BY <1>1, AroundItself, AroundIsClosed DEF Closed
  <1>4. Around[c] \subseteq S
    BY <1>2, <1>3, AroundLeast
  <1>5. S \subseteq Around[c]
    BY <1>1, AroundItself, AroundTransitive
  <1>6. QED
    BY <1>1, <1>4, <1>5

\* What holds of http, and of a block if it does of the one around it, holds
\* of all blocks.
LEMMA Inwards ==
  ASSUME NEW S \in SUBSET Confs, Root \in S,
         \A c \in Confs \ {Root} : Parent[c] \in S => c \in S
  PROVE  S = Confs
  <1> DEFINE T == Confs \ S
  <1>1. Closed(T)
    BY ConfAssumption DEF Closed
  <1>2. T \in SUBSET Confs /\ Root \notin T
    OBVIOUS
  <1>3. T = {}
    BY <1>1, <1>2, ConfAssumption
  <1>4. QED
    BY <1>3

\* No block is around the block around it.
LEMMA Nested ==
  ASSUME NEW c \in Confs, NEW d \in Around[c], c \in Around[d]
  PROVE  c = d
  <1>1. SUFFICES ASSUME c # d PROVE FALSE
    OBVIOUS
  <1> DEFINE S == {e \in Around[c] : c \in Around[e]}
  <1>2. d \in Confs
    BY AroundItself
  <1>3. ASSUME NEW e \in S, e # Root
        PROVE  Parent[e] \in S
    <2>1. e \in Confs /\ Parent[e] \in Around[c]
      BY <1>3, AroundItself, AroundClosed
    <2>2. Around[e] = {e} \cup Around[Parent[e]] /\ Parent[e] \in Confs
      BY <1>3, <2>1, AroundStep
    <2>3. CASE e = c
      <3>1. d \in Around[Parent[c]]
        BY <1>1, <2>2, <2>3
      <3>2. Around[d] \subseteq Around[Parent[c]]
        BY <2>2, <2>3, <3>1, AroundTransitive
      <3>3. QED
        BY <2>1, <2>3, <3>2
    <2>4. CASE e # c
      BY <2>1, <2>2, <2>4
    <2>5. QED
      BY <2>3, <2>4
  <1>4. Closed(S) /\ S \in SUBSET Confs /\ S # {}
    BY <1>3, AroundItself DEF Closed
  <1>5. Root \in S
    BY <1>4, ConfAssumption
  <1>6. c = Root
    BY <1>5, AroundRoot
  <1>7. QED
    BY <1>1, <1>6, AroundRoot

LEMMA NearestHere ==
  ASSUME NEW S \in SUBSET Confs, NEW c \in Confs, c \in S \/ c = Root
  PROVE  Nearest(c, S) = c
  <1> DEFINE hits == Around[c] \cap S
  <1>1. CASE c \in S
    <2>1. c \in hits /\ hits \subseteq Around[c]
      BY <1>1, AroundItself
    <2>2. \A d \in hits : hits \subseteq Around[d] => d = c
      BY <2>1, Nested
    <2>3. (CHOOSE d \in hits : hits \subseteq Around[d]) = c
      BY <2>1, <2>2
    <2>4. QED
      BY <2>1, <2>3 DEF Nearest
  <1>2. CASE c \notin S
    <2>1. c = Root /\ hits = {}
      BY <1>2, AroundRoot
    <2>2. QED
      BY <2>1 DEF Nearest
  <1>3. QED
    BY <1>1, <1>2

LEMMA NearestOutside ==
  ASSUME NEW S \in SUBSET Confs, NEW c \in Confs, c \notin S, c # Root
  PROVE  Nearest(c, S) = Nearest(Parent[c], S)
  <1>1. Around[c] \cap S = Around[Parent[c]] \cap S
    BY AroundStep
  <1> DEFINE of(hits) ==
        IF hits = {} THEN Root ELSE CHOOSE d \in hits : hits \subseteq Around[d]
  <1>2. \A e \in {c, Parent[c]} : Nearest(e, S) = of(Around[e] \cap S)
    BY DEF Nearest
  <1> HIDE DEF of
  <1>3. QED
    BY <1>1, <1>2

LEMMA NearestKnown ==
  ASSUME NEW S \in SUBSET Confs, NEW c \in Confs
  PROVE  Nearest(c, S) \in S \cup {Root}
  <1> DEFINE T == {d \in Confs : Nearest(d, S) \in S \cup {Root}}
  <1>1. Root \in T
    BY NearestHere, ConfAssumption
  <1>2. ASSUME NEW d \in Confs \ {Root}, Parent[d] \in T
        PROVE  d \in T
    BY <1>2, NearestHere, NearestOutside
  <1>3. T = Confs
    <2> HIDE DEF T
    <2>1. T \in SUBSET Confs
      BY DEF T
    <2>2. QED
      BY <1>1, <1>2, <2>1, Inwards
  <1>4. QED
    BY <1>3

\* What a block has of its own if it is in S, and else takes from the block
\* around it, is what the nearest block in S has.
LEMMA NearestValue ==
  ASSUME NEW S \in SUBSET Confs, NEW f, NEW own,
         \A c \in Confs : c \in S \/ c = Root => f[c] = own[c],
         \A c \in Confs : c \notin S /\ c # Root => f[c] = f[Parent[c]]
  PROVE  \A c \in Confs : f[c] = own[Nearest(c, S)]
  <1> DEFINE T == {c \in Confs : f[c] = own[Nearest(c, S)]}
  <1>1. Root \in T
    BY NearestHere, ConfAssumption
  <1>2. ASSUME NEW c \in Confs \ {Root}, Parent[c] \in T
        PROVE  c \in T
    <2>1. CASE c \in S
      BY <2>1, NearestHere
    <2>2. CASE c \notin S
      <3>1. f[c] = f[Parent[c]] /\ f[Parent[c]] = own[Nearest(Parent[c], S)]
        BY <1>2, <2>2
      <3>2. Nearest(c, S) = Nearest(Parent[c], S)
        BY <2>2, NearestOutside
      <3>3. QED
        BY <3>1, <3>2
    <2>3. QED
      BY <2>1, <2>2
  <1>3. T = Confs
    <2> HIDE DEF T
    <2>1. T \in SUBSET Confs
      BY DEF T
    <2>2. QED
      BY <1>1, <1>2, <2>1, Inwards
  <1>4. QED
    BY <1>3
-----------------------------------------------------------------------------
(***************************************************************************)
(* The inductive invariant                                                 *)
(***************************************************************************)

Names == DOMAIN Rules \cup DOMAIN CheckRules

\* What the text of a block may say.
Said == [lists : [Lists -> SUBSET Names], flags : SUBSET Flags,
         url : Urls \cup {NoUrl}, ips : SUBSET Ips, cidrs : SUBSET CidrTexts]

\* The subnets are those of the texts.
Parsed(cidrs, texts) ==
  /\ \A cidr \in cidrs : \E t \in texts : cidr \in naxsi_parse_cidr(t.net, t.mask)
  /\ \A t \in texts : \E cidr \in cidrs : cidr \in naxsi_parse_cidr(t.net, t.mask)

\* A configuration has what the text of its block says.
AsSaid(own, said) ==
  /\ \A k \in Lists : Items(own.lists[k]) = said.lists[k]
  /\ own.flags = said.flags
  /\ own.denied_url = said.url
  /\ own.ignore_ips = AllIps(said)
  /\ Parsed(own.ignore_cidrs, Subnets(said))

\* It has that, or what the configuration around it has.
Taken(own, said, prev) ==
  /\ \A k \in Lists :
       IF said.lists[k] # {} THEN Items(own.lists[k]) = said.lists[k]
       ELSE own.lists[k] = prev.lists[k]
  /\ own.flags = said.flags \cup prev.flags
  /\ own.denied_url = Or(said.url, NoUrl, prev.denied_url)
  /\ own.ignore_ips = Or(AllIps(said), {}, prev.ignore_ips)
  /\ IF Subnets(said) # {} THEN Parsed(own.ignore_cidrs, Subnets(said))
     ELSE own.ignore_cidrs = prev.ignore_cidrs

\* The blocks whose configuration is still their own.
Apart == (Confs \ merged) \cup {Root}

\* A configuration that was not pushed has no directive.
Bare(own) == own.flags = {} /\ own.ignore_ips = {}

Phases ==
  /\ status = "reading" => merged = {}
  /\ status \in {"merging", "ready"} => Root \in merged
  /\ status = "ready" =>
       /\ merged = Confs
       /\ \A c \in pushed : ~MissingDeniedUrl(c)
  /\ built = [c \in Confs |-> IF status = "ready" /\ c \in pushed
                              THEN create_hashtables(conf[c]) ELSE NotBuilt]

Inherited ==
  /\ \A c \in Apart : AsSaid(conf[c], declared[c])
  /\ \A c \in merged \ {Root} :
       /\ Parent[c] \in merged /\ c \in pushed
       /\ Taken(conf[c], declared[c], conf[Parent[c]])
  /\ \A c \in Confs \ pushed : Bare(conf[c])

Types ==
  /\ conf \in [Confs -> LocConf] /\ declared \in [Confs -> Said]
  /\ pushed \subseteq Confs /\ merged \subseteq Confs

IInv == Types /\ Phases /\ Inherited

LEMMA ItemsEmpty == Items(<< >>) = {}
  BY DEF Items

LEMMA ItemsAppend ==
  ASSUME NEW S, NEW s \in Seq(S), NEW r \in S
  PROVE  Append(s, r) \in Seq(S) /\ Items(Append(s, r)) = Items(s) \cup {r}
  <1>1. /\ Append(s, r) \in Seq(S)
        /\ DOMAIN Append(s, r) = 1 .. Len(s) + 1 /\ DOMAIN s = 1 .. Len(s)
        /\ Len(s) \in Nat
        /\ \A i \in 1 .. Len(s) : Append(s, r)[i] = s[i]
        /\ Append(s, r)[Len(s) + 1] = r
    OBVIOUS
  <1>2. QED
    BY <1>1 DEF Items

LEMMA ItemsNone ==
  ASSUME NEW S, NEW s \in Seq(S)
  PROVE  s = << >> <=> Items(s) = {}
  <1>1. CASE s = << >>
    BY <1>1, ItemsEmpty
  <1>2. CASE s # << >>
    <2>1. 1 \in DOMAIN s
      BY <1>2
    <2>2. QED
      BY <1>2, <2>1 DEF Items
  <1>3. QED
    BY <1>1, <1>2

LEMMA ParsedEmpty == Parsed({}, {})
  BY DEF Parsed

LEMMA NoneSaid == AllIps(Nothing) = {} /\ Subnets(Nothing) = {}
  BY DEF Nothing, AllIps, Hosts, Subnets

LEMMA EmptyTyped == EmptyConf \in LocConf /\ Nothing \in Said
  <1>1. << >> \in Seq(Names)
    OBVIOUS
  <1>2. [k \in Lists |-> << >>] \in [Lists -> Seq(Names)]
    BY <1>1, Zenon
  <1>3. QED
    BY <1>2 DEF EmptyConf, Nothing, LocConf, Said, Names

LEMMA InitIInv == Init => IInv
  <1> SUFFICES ASSUME Init PROVE IInv
    OBVIOUS
  <1>1. conf \in [Confs -> LocConf] /\ declared \in [Confs -> Said]
    BY EmptyTyped DEF Init
  <1>2. Types
    BY <1>1 DEF Types, Init
  <1>3. Phases
    BY DEF Phases, Init
  <1>4. \A k \in Lists : Items(EmptyConf.lists[k]) = Nothing.lists[k]
    BY ItemsEmpty DEF EmptyConf, Nothing
  <1>5. AsSaid(EmptyConf, Nothing)
    BY <1>4, NoneSaid, ParsedEmpty DEF AsSaid, EmptyConf, Nothing
  <1>6. Inherited
    <2>1. \A c \in Confs : conf[c] = EmptyConf /\ declared[c] = Nothing
      BY DEF Init
    <2>2. Apart \subseteq Confs
      BY ConfAssumption DEF Apart
    <2>3. Bare(EmptyConf)
      BY DEF Bare, EmptyConf
    <2>4. merged = {}
      BY DEF Init
    <2>5. QED
      BY <1>5, <2>1, <2>2, <2>3, <2>4 DEF Inherited
  <1>7. QED
    BY <1>2, <1>3, <1>6 DEF IInv
-----------------------------------------------------------------------------
(***************************************************************************)
(* The directives                                                          *)
(***************************************************************************)

\* A line is read that changes what its block has and says in the same way.
LEMMA Declared ==
  ASSUME IInv, status = "reading", NEW c \in Confs,
         NEW new \in LocConf, NEW said \in Said, AsSaid(new, said),
         conf' = [conf EXCEPT ![c] = new],
         declared' = [declared EXCEPT ![c] = said],
         status' = status, merged' = merged, built' = built,
         pushed \subseteq pushed', pushed' \subseteq Confs,
         c \in pushed' \/ Bare(new)
  PROVE  IInv'
  <1>1. Types'
    BY DEF IInv, Types
  <1>2. merged = {} /\ built = [d \in Confs |-> NotBuilt]
    BY DEF IInv, Phases
  <1>3. Phases'
    BY <1>2 DEF Phases
  <1>4. \A d \in Confs : AsSaid(conf'[d], declared'[d])
    <2>1. SUFFICES ASSUME NEW d \in Confs
                   PROVE  AsSaid(conf'[d], declared'[d])
      OBVIOUS
    <2>2. AsSaid(conf[d], declared[d])
      BY <1>2 DEF IInv, Inherited, Apart
    <2>3. CASE d = c
      <3>1. conf'[d] = new /\ declared'[d] = said
        BY <2>3 DEF IInv, Types
      <3>2. QED
        BY <3>1
    <2>4. CASE d # c
      <3>1. conf'[d] = conf[d] /\ declared'[d] = declared[d]
        BY <2>4 DEF IInv, Types
      <3>2. QED
        BY <2>2, <3>1
    <2>5. QED
      BY <2>3, <2>4
  <1>5. ASSUME NEW d \in Confs \ pushed'
        PROVE  Bare(conf'[d])
    <2>1. CASE d = c
      <3>1. conf'[d] = new
        BY <2>1 DEF IInv, Types
      <3>2. QED
        BY <2>1, <3>1
    <2>2. CASE d # c
      <3>1. conf'[d] = conf[d] /\ d \notin pushed
        BY <2>2 DEF IInv, Types
      <3>2. QED
        BY <3>1 DEF IInv, Inherited
    <2>3. QED
      BY <2>1, <2>2
  <1>6. Inherited'
    <2>1. Apart' = Confs /\ merged' = {}
      BY <1>2, ConfAssumption DEF Apart
    <2>2. \A d \in Confs : AsSaid(conf[d], declared[d])'
      BY <1>4
    <2>3. \A d \in Confs \ pushed' : Bare(conf[d])'
      BY <1>5
    <2>4. QED
      BY <2>1, <2>2, <2>3 DEF Inherited
  <1>7. QED
    BY <1>1, <1>3, <1>6 DEF IInv

\* Most handlers push the configuration.
LEMMA DoneIInv ==
  ASSUME IInv, status = "reading", NEW c \in Confs,
         NEW new \in LocConf, NEW said \in Said, AsSaid(new, said),
         Done(c, new), Says(c, said)
  PROVE  IInv'
  <1>1. pushed \subseteq Confs
    BY DEF IInv, Types
  <1>2. QED
    BY <1>1, Declared DEF Done, Says

\* A refused line, and what is done to the variables that have no part in it.
LEMMA Spared ==
  ASSUME IInv, UNCHANGED <<conf, pushed, merged, built, declared>>,
         status' = status \/ (status # "ready" /\ status' = "failed")
  PROVE  IInv'
  <1>1. Types'
    BY DEF IInv, Types
  <1>2. Phases'
    BY DEF IInv, Phases, MissingDeniedUrl
  <1>3. Inherited'
    BY DEF IInv, Inherited, Apart
  <1>4. QED
    BY <1>1, <1>2, <1>3 DEF IInv

LEMMA RefusedIInv ==
  ASSUME IInv, status # "ready", Refused
  PROVE  IInv'
  BY Spared DEF Refused

LEMMA ConfKnown ==
  ASSUME IInv, status = "reading", NEW c \in Confs
  PROVE  /\ conf[c] \in LocConf /\ declared[c] \in Said
         /\ AsSaid(conf[c], declared[c])
  BY DEF IInv, Types, Inherited, Apart, Phases

\* A rule put in some of the lists.
LEMMA NotedKnown ==
  ASSUME NEW c, conf[c] \in LocConf, declared[c] \in Said,
         AsSaid(conf[c], declared[c]),
         NEW ks \in SUBSET Lists, NEW r \in Names,
         NEW new, new = [conf[c] EXCEPT !.lists = Push(@, ks, r)]
  PROVE  new \in LocConf /\ Noted(c, ks, r) \in Said /\ AsSaid(new, Noted(c, ks, r))
  <1> DEFINE ms == [k \in Lists |->
                      IF k \in ks THEN declared[c].lists[k] \cup {r}
                      ELSE declared[c].lists[k]]
  <1>1. declared[c].lists \in [Lists -> SUBSET Names]
    BY DEF Said
  <1>2. ms \in [Lists -> SUBSET Names]
    BY <1>1
  <1>3. \A k \in Lists : ms[k] = IF k \in ks THEN declared[c].lists[k] \cup {r}
                                 ELSE declared[c].lists[k]
    OBVIOUS
  <1>4. Noted(c, ks, r) = [declared[c] EXCEPT !.lists = ms]
    BY DEF Noted
  <1> HIDE DEF ms
  <1> DEFINE more == Noted(c, ks, r)
  <1>5. conf[c].lists \in [Lists -> Seq(Names)]
    BY DEF LocConf, Names
  <1> DEFINE ls == Push(conf[c].lists, ks, r)
  <1>6. \A k \in Lists :
          /\ ls[k] \in Seq(Names)
          /\ Items(ls[k]) = ms[k]
    <2>1. SUFFICES ASSUME NEW k \in Lists
                   PROVE  ls[k] \in Seq(Names) /\ Items(ls[k]) = ms[k]
      BY Zenon
    <2>2. conf[c].lists[k] \in Seq(Names) /\ Items(conf[c].lists[k]) = declared[c].lists[k]
      BY <1>5 DEF AsSaid
    <2>3. ls[k] = IF k \in ks THEN Append(conf[c].lists[k], r) ELSE conf[c].lists[k]
      BY <1>5 DEF Push
    <2> HIDE DEF ls
    <2>4. CASE k \in ks
      <3>1. ls[k] = Append(conf[c].lists[k], r)
        BY <2>3, <2>4
      <3>2. /\ Append(conf[c].lists[k], r) \in Seq(Names)
            /\ Items(Append(conf[c].lists[k], r)) = Items(conf[c].lists[k]) \cup {r}
        BY <2>2, ItemsAppend
      <3>3. QED
        BY <1>3, <2>2, <2>4, <3>1, <3>2
    <2>5. CASE k \notin ks
      BY <1>3, <2>2, <2>3, <2>5
    <2>6. QED
      BY <2>4, <2>5
  <1>7. ls = [k \in Lists |-> ls[k]]
    BY <1>5 DEF Push
  <1>8. ls \in [Lists -> Seq(Names)]
    BY <1>6, <1>7
  <1> HIDE DEF ls
  <1>9. new = [conf[c] EXCEPT !.lists = ls]
    BY DEF ls
  <1>10. /\ new \in LocConf /\ new.lists = ls
        /\ new.flags = conf[c].flags /\ new.denied_url = conf[c].denied_url
        /\ new.ignore_ips = conf[c].ignore_ips /\ new.ignore_cidrs = conf[c].ignore_cidrs
    BY <1>8, <1>9 DEF LocConf, Names
  <1>11. /\ more \in Said /\ more.lists = ms
        /\ more.flags = declared[c].flags /\ more.url = declared[c].url
        /\ more.ips = declared[c].ips /\ more.cidrs = declared[c].cidrs
    BY <1>2, <1>4 DEF Said
  <1>12. AllIps(more) = AllIps(declared[c]) /\ Subnets(more) = Subnets(declared[c])
    BY <1>11 DEF AllIps, Hosts, Subnets
  <1>13. QED
    BY <1>6, <1>10, <1>11, <1>12 DEF AsSaid

LEMMA BasicRuleIInv ==
  ASSUME IInv, NEW c \in Confs, NEW r \in DOMAIN Rules, BasicRule(c, r)
  PROVE  IInv'
  <1>1. status = "reading"
    BY DEF BasicRule, Line
  <1>2. CASE Refused
    BY <1>1, <1>2, RefusedIInv
  <1>3. CASE ~Refused
    <2> DEFINE ks == BasicRuleLists(r)
               new == [conf[c] EXCEPT !.lists = Push(@, ks, r)]
               said == Noted(c, ks, r)
    <2>1. Done(c, new) /\ Says(c, said)
      BY <1>3 DEF BasicRule, BasicRuleLists
    <2>2. ks \in SUBSET Lists /\ r \in Names
      BY DEF BasicRuleLists, ListsOf, Lists, Names
    <2>3. conf[c] \in LocConf /\ declared[c] \in Said
          /\ AsSaid(conf[c], declared[c])
      BY <1>1, ConfKnown
    <2>4. new = [conf[c] EXCEPT !.lists = Push(@, ks, r)]
      OBVIOUS
    <2> HIDE DEF ks, new
    <2>5. new \in LocConf /\ said \in Said /\ AsSaid(new, said)
      BY <2>2, <2>3, <2>4, NotedKnown
    <2>6. QED
      BY <1>1, <2>1, <2>5, DoneIInv
  <1>4. QED
    BY <1>2, <1>3

LEMMA CheckRuleIInv ==
  ASSUME IInv, NEW c \in Confs, NEW r \in DOMAIN CheckRules, CheckRule(c, r)
  PROVE  IInv'
  <1>1. status = "reading"
    BY DEF CheckRule, Line
  <1>2. CASE Refused
    BY <1>1, <1>2, RefusedIInv
  <1>3. CASE ~Refused
    <2> DEFINE ks == {"check_rules"}
               new == [conf[c] EXCEPT !.lists = Push(@, ks, r)]
               said == Noted(c, ks, r)
    <2>1. Done(c, new) /\ Says(c, said)
      BY <1>3 DEF CheckRule
    <2>2. ks \in SUBSET Lists /\ r \in Names
      BY DEF Lists, Names
    <2>3. conf[c] \in LocConf /\ declared[c] \in Said
          /\ AsSaid(conf[c], declared[c])
      BY <1>1, ConfKnown
    <2>4. new = [conf[c] EXCEPT !.lists = Push(@, ks, r)]
      OBVIOUS
    <2> HIDE DEF ks, new
    <2>5. new \in LocConf /\ said \in Said /\ AsSaid(new, said)
      BY <2>2, <2>3, <2>4, NotedKnown
    <2>6. QED
      BY <1>1, <2>1, <2>5, DoneIInv
  <1>4. QED
    BY <1>2, <1>3

LEMMA DeniedUrlIInv ==
  ASSUME IInv, NEW c \in Confs, NEW u \in Urls \cup {NoUrl}, DeniedUrl(c, u)
  PROVE  IInv'
  <1>1. status = "reading"
    BY DEF DeniedUrl, Line
  <1>2. CASE Refused
    BY <1>1, <1>2, RefusedIInv
  <1>3. CASE ~Refused
    <2> DEFINE new == [conf[c] EXCEPT !.denied_url = u]
               said == [declared[c] EXCEPT !.url = u]
    <2>1. Done(c, new) /\ Says(c, said)
      BY <1>3 DEF DeniedUrl
    <2>2. conf[c] \in LocConf /\ declared[c] \in Said
          /\ AsSaid(conf[c], declared[c])
      BY <1>1, ConfKnown
    <2>3. /\ new \in LocConf /\ new.lists = conf[c].lists
          /\ new.flags = conf[c].flags /\ new.denied_url = u
          /\ new.ignore_ips = conf[c].ignore_ips
          /\ new.ignore_cidrs = conf[c].ignore_cidrs
      BY <2>2 DEF LocConf
    <2>4. /\ said \in Said /\ said.lists = declared[c].lists
          /\ said.flags = declared[c].flags /\ said.url = u
          /\ said.ips = declared[c].ips /\ said.cidrs = declared[c].cidrs
      BY <2>2 DEF Said
    <2>5. AllIps(said) = AllIps(declared[c])
          /\ Subnets(said) = Subnets(declared[c])
      BY <2>4 DEF AllIps, Hosts, Subnets
    <2> HIDE DEF new, said
    <2>6. AsSaid(new, said)
      BY <2>2, <2>3, <2>4, <2>5 DEF AsSaid
    <2>7. QED
      BY <1>1, <2>1, <2>3, <2>4, <2>6, DoneIInv
  <1>4. QED
    BY <1>2, <1>3

LEMMA FlagIInv ==
  ASSUME IInv, NEW c \in Confs, NEW f \in Flags, Flag(c, f)
  PROVE  IInv'
  <1>1. status = "reading"
    BY DEF Flag, Line
  <1> DEFINE new == [conf[c] EXCEPT !.flags = @ \cup {f}]
             said == [declared[c] EXCEPT !.flags = @ \cup {f}]
  <1>2. Done(c, new) /\ Says(c, said)
    BY DEF Flag
  <1>3. conf[c] \in LocConf /\ declared[c] \in Said
        /\ AsSaid(conf[c], declared[c])
    BY <1>1, ConfKnown
  <1>4. /\ new \in LocConf /\ new.lists = conf[c].lists
        /\ new.flags = conf[c].flags \cup {f}
        /\ new.denied_url = conf[c].denied_url
        /\ new.ignore_ips = conf[c].ignore_ips
        /\ new.ignore_cidrs = conf[c].ignore_cidrs
    BY <1>3 DEF LocConf
  <1>5. /\ said \in Said /\ said.lists = declared[c].lists
        /\ said.flags = declared[c].flags \cup {f}
        /\ said.url = declared[c].url
        /\ said.ips = declared[c].ips /\ said.cidrs = declared[c].cidrs
    BY <1>3 DEF Said
  <1>6. AllIps(said) = AllIps(declared[c])
        /\ Subnets(said) = Subnets(declared[c])
    BY <1>5 DEF AllIps, Hosts, Subnets
  <1> HIDE DEF new, said
  <1>7. AsSaid(new, said)
    BY <1>3, <1>4, <1>5, <1>6 DEF AsSaid
  <1>8. QED
    BY <1>1, <1>2, <1>4, <1>5, <1>7, DoneIInv

LEMMA NaxsiLogFileIInv ==
  ASSUME IInv, NEW c \in Confs, NEW file \in Files, NaxsiLogFile(c, file)
  PROVE  IInv'
  <1>1. status = "reading"
    BY DEF NaxsiLogFile, Line
  <1> DEFINE new == [conf[c] EXCEPT !.log = @ \cup {file}]
  <1>2. conf[c] \in LocConf /\ declared[c] \in Said
        /\ AsSaid(conf[c], declared[c])
    BY <1>1, ConfKnown
  <1>3. /\ new \in LocConf /\ new.lists = conf[c].lists
        /\ new.flags = conf[c].flags
        /\ new.denied_url = conf[c].denied_url
        /\ new.ignore_ips = conf[c].ignore_ips
        /\ new.ignore_cidrs = conf[c].ignore_cidrs
    BY <1>2 DEF LocConf
  <1>4. conf' = [conf EXCEPT ![c] = new]
    BY DEF NaxsiLogFile
  <1> HIDE DEF new
  <1>5. AsSaid(new, declared[c])
    BY <1>2, <1>3 DEF AsSaid
  <1>6. c \in pushed \/ Bare(new)
    BY <1>3 DEF IInv, Inherited, Bare
  <1>7. /\ status' = status /\ merged' = merged /\ built' = built
        /\ pushed' = pushed /\ pushed \subseteq Confs
        /\ declared' = [declared EXCEPT ![c] = declared[c]]
    BY DEF NaxsiLogFile, IInv, Types
  <1>8. QED
    BY <1>1, <1>2, <1>3, <1>4, <1>5, <1>6, <1>7, Declared
-----------------------------------------------------------------------------
(***************************************************************************)
(* Ignore lists                                                            *)
(***************************************************************************)

LEMMA IpAdded ==
  ASSUME IInv, status = "reading", NEW c \in Confs, NEW ip \in Ips,
         NEW said \in Said, AddIp(c, ip, said),
         said.lists = declared[c].lists, said.flags = declared[c].flags,
         said.url = declared[c].url,
         AllIps(said) = AllIps(declared[c]) \cup {ip},
         Subnets(said) = Subnets(declared[c])
  PROVE  IInv'
  <1>1. CASE Refused
    BY <1>1, RefusedIInv
  <1>2. CASE ~Refused
    <2> DEFINE new == [conf[c] EXCEPT !.ignore_ips = @ \cup {ip}]
    <2>1. Done(c, new) /\ Says(c, said)
      BY <1>2 DEF AddIp
    <2>2. conf[c] \in LocConf /\ AsSaid(conf[c], declared[c])
      BY ConfKnown
    <2>3. /\ new \in LocConf /\ new.lists = conf[c].lists
          /\ new.flags = conf[c].flags /\ new.denied_url = conf[c].denied_url
          /\ new.ignore_ips = conf[c].ignore_ips \cup {ip}
          /\ new.ignore_cidrs = conf[c].ignore_cidrs
      BY <2>2 DEF LocConf
    <2> HIDE DEF new
    <2>4. AsSaid(new, said)
      BY <2>2, <2>3 DEF AsSaid
    <2>5. QED
      BY <2>1, <2>3, <2>4, DoneIInv
  <1>3. QED
    BY <1>1, <1>2

LEMMA IgnoreIPIInv ==
  ASSUME IInv, NEW c \in Confs, NEW text \in IpTexts, IgnoreIP(c, text)
  PROVE  IInv'
  <1>1. status = "reading"
    BY DEF IgnoreIP, Line
  <1>2. CASE Refused
    BY <1>1, <1>2, RefusedIInv
  <1>3. CASE ~Refused
    <2> DEFINE said == [declared[c] EXCEPT !.ips = @ \cup {text}]
    <2>1. AddIp(c, text, said) /\ text # NoIp
      BY <1>3 DEF IgnoreIP
    <2>2. text \in Ips
      BY <2>1, ConfAssumption
    <2>3. declared[c] \in Said
      BY <1>1, ConfKnown
    <2>4. /\ said \in Said /\ said.lists = declared[c].lists
          /\ said.flags = declared[c].flags /\ said.url = declared[c].url
          /\ said.ips = declared[c].ips \cup {text}
          /\ said.cidrs = declared[c].cidrs
      BY <2>2, <2>3 DEF Said
    <2> HIDE DEF said
    <2>5. /\ AllIps(said) = AllIps(declared[c]) \cup {text}
          /\ Subnets(said) = Subnets(declared[c])
      BY <2>4 DEF AllIps, Hosts, Subnets
    <2>6. QED
      BY <1>1, <2>1, <2>2, <2>4, <2>5, IpAdded
  <1>4. QED
    BY <1>2, <1>3

\* What naxsi_parse_cidr accepts is an address and a mask of its bits.
LEMMA ParsedKnown ==
  ASSUME NEW text \in CidrTexts, NEW cidr \in naxsi_parse_cidr(text.net, text.mask)
  PROVE  /\ text.net \in Ips /\ text.mask \in Nat
         /\ cidr \in Cidrs
  <1>1. text.net # NoIp /\ ValidMask(text.net.version, text.mask)
    BY DEF naxsi_parse_cidr
  <1>2. text.net \in Ips /\ text.mask \in Nat /\ text.mask >= 1
    BY <1>1, ConfAssumption DEF ValidMask
  <1>3. text.net.version \in Versions
    BY <1>2 DEF Ips
  <1>4. PICK m \in cidr_masks(text.net.version, text.mask) :
          cidr = [subnet |-> text.net, mask |-> m]
    BY <1>1 DEF naxsi_parse_cidr
  <1>5. m \in SUBSET Nat
    <2>1. \A w \in Nat, n \in Nat : \A low \in Shifted(w, n) : low \in SUBSET Nat
      BY DEF Shifted
    <2>2. Width4 \in Nat /\ Half \in Nat
      BY WidthsAssumption
    <2>3. text.mask <= Width(text.net.version)
      BY <1>1 DEF ValidMask
    <2>4. CASE text.net.version = "IPv4"
      <3>1. Width4 - text.mask \in Nat
        BY <1>2, <2>2, <2>3, <2>4 DEF Width
      <3>2. m \in Shifted(Width4, Width4 - text.mask)
        BY <1>4, <2>4 DEF cidr_masks
      <3>3. QED
        BY <2>1, <2>2, <3>1, <3>2
    <2>5. CASE text.net.version = "IPv6" /\ text.mask > Half - 1
      <3>1. 2 * Half - text.mask \in Nat
        BY <1>2, <2>2, <2>3, <2>5 DEF Width
      <3>2. PICK low \in Shifted(Half, 2 * Half - text.mask) :
              m = (1 .. Half) \cup {Half + i : i \in low}
        BY <1>4, <2>5 DEF cidr_masks
      <3>3. low \in SUBSET Nat
        BY <2>1, <2>2, <3>1
      <3>4. QED
        BY <2>2, <3>2, <3>3
    <2>6. CASE text.net.version = "IPv6" /\ ~(text.mask > Half - 1)
      <3>1. Half - text.mask \in Nat
        BY <1>2, <2>2, <2>6
      <3>2. m \in Shifted(Half, Half - text.mask)
        BY <1>4, <2>6 DEF cidr_masks
      <3>3. QED
        BY <2>1, <2>2, <3>1, <3>2
    <2>7. QED
      BY <1>3, <2>4, <2>5, <2>6 DEF Versions
  <1>6. QED
    BY <1>2, <1>4, <1>5 DEF Cidrs

LEMMA ParsedAdd ==
  ASSUME NEW cidrs, NEW texts, Parsed(cidrs, texts),
         NEW t, NEW cidr \in naxsi_parse_cidr(t.net, t.mask)
  PROVE  Parsed(cidrs \cup {cidr}, texts \cup {t})
  BY DEF Parsed

LEMMA IgnoreCIDRIInv ==
  ASSUME IInv, NEW c \in Confs, NEW text \in CidrTexts, IgnoreCIDR(c, text)
  PROVE  IInv'
  <1>1. status = "reading"
    BY DEF IgnoreCIDR, Line
  <1> DEFINE said == [declared[c] EXCEPT !.cidrs = @ \cup {text}]
  <1>2. conf[c] \in LocConf /\ declared[c] \in Said
        /\ AsSaid(conf[c], declared[c])
    BY <1>1, ConfKnown
  <1>3. /\ said \in Said /\ said.lists = declared[c].lists
        /\ said.flags = declared[c].flags /\ said.url = declared[c].url
        /\ said.ips = declared[c].ips /\ said.cidrs = declared[c].cidrs \cup {text}
    BY <1>2 DEF Said
  <1>4. CASE Refused
    BY <1>1, <1>4, RefusedIInv
  <1>5. CASE IsHost(text) /\ AddIp(c, text.net, said)
    <2> HIDE DEF said
    <2>1. text.net \in Ips
      BY <1>5, ConfAssumption DEF IsHost
    <2>2. /\ AllIps(said) = AllIps(declared[c]) \cup {text.net}
          /\ Subnets(said) = Subnets(declared[c])
      BY <1>3, <1>5 DEF AllIps, Hosts, Subnets
    <2>3. QED
      BY <1>1, <1>3, <1>5, <2>1, <2>2, IpAdded
  <1>6. ASSUME ~IsHost(text), NEW cidr \in naxsi_parse_cidr(text.net, text.mask),
               Done(c, [conf[c] EXCEPT !.ignore_cidrs = @ \cup {cidr}]),
               Says(c, said)
        PROVE  IInv'
    <2> DEFINE new == [conf[c] EXCEPT !.ignore_cidrs = @ \cup {cidr}]
    <2>1. cidr \in Cidrs
      BY ParsedKnown
    <2>2. /\ new \in LocConf /\ new.lists = conf[c].lists
          /\ new.flags = conf[c].flags /\ new.denied_url = conf[c].denied_url
          /\ new.ignore_ips = conf[c].ignore_ips
          /\ new.ignore_cidrs = conf[c].ignore_cidrs \cup {cidr}
      BY <1>2, <2>1 DEF LocConf
    <2>3. Done(c, new) /\ Says(c, said)
      BY <1>6
    <2> HIDE DEF new, said
    <2>4. /\ AllIps(said) = AllIps(declared[c])
          /\ Subnets(said) = Subnets(declared[c]) \cup {text}
      BY <1>3, <1>6 DEF AllIps, Hosts, Subnets
    <2>5. Parsed(new.ignore_cidrs, Subnets(said))
      <3>1. Parsed(conf[c].ignore_cidrs, Subnets(declared[c]))
        BY <1>2 DEF AsSaid
      <3>2. Parsed(conf[c].ignore_cidrs \cup {cidr}, Subnets(declared[c]) \cup {text})
        BY <3>1, ParsedAdd
      <3>3. QED
        BY <2>2, <2>4, <3>2
    <2>6. AsSaid(new, said)
      BY <1>2, <1>3, <2>2, <2>4, <2>5 DEF AsSaid
    <2>7. QED
      BY <1>1, <1>3, <2>2, <2>3, <2>6, DoneIInv
  <1>7. QED
    BY <1>4, <1>5, <1>6 DEF IgnoreCIDR
-----------------------------------------------------------------------------
(***************************************************************************)
(* Inheritance and validation                                              *)
(***************************************************************************)

LEMMA InheritTaken ==
  ASSUME NEW prev \in LocConf, NEW own \in LocConf, NEW said, AsSaid(own, said)
  PROVE  /\ Inherit(prev, own) \in LocConf
         /\ Taken(Inherit(prev, own), said, prev)
  <1> DEFINE new == Inherit(prev, own)
             ls == [k \in Lists |-> Or(own.lists[k], << >>, prev.lists[k])]
  <1>1. /\ own.lists \in [Lists -> Seq(Names)] /\ own.flags \in SUBSET Flags
        /\ own.denied_url \in Urls \cup {NoUrl} /\ own.ignore_ips \in SUBSET Ips
        /\ own.ignore_cidrs \in SUBSET Cidrs /\ own.log \in SUBSET Files
        /\ own = [lists |-> own.lists, flags |-> own.flags,
                  denied_url |-> own.denied_url, ignore_ips |-> own.ignore_ips,
                  ignore_cidrs |-> own.ignore_cidrs, log |-> own.log]
    BY DEF LocConf, Names
  <1>2. /\ prev.lists \in [Lists -> Seq(Names)] /\ prev.flags \in SUBSET Flags
        /\ prev.denied_url \in Urls \cup {NoUrl} /\ prev.ignore_ips \in SUBSET Ips
        /\ prev.ignore_cidrs \in SUBSET Cidrs /\ prev.log \in SUBSET Files
    BY DEF LocConf, Names
  <1>3. ls \in [Lists -> Seq(Names)]
    BY <1>1, <1>2 DEF Or
  <1>4. new = [own EXCEPT !.lists = ls, !.flags = own.flags \cup prev.flags,
                 !.denied_url = Or(own.denied_url, NoUrl, prev.denied_url),
                 !.ignore_ips = Or(own.ignore_ips, {}, prev.ignore_ips),
                 !.ignore_cidrs = Or(own.ignore_cidrs, {}, prev.ignore_cidrs),
                 !.log = Or(own.log, {}, prev.log)]
    BY Zenon DEF Inherit
  <1>5. \A k \in Lists : ls[k] = Or(own.lists[k], << >>, prev.lists[k])
    OBVIOUS
  <1> HIDE DEF ls, new
  <1>6. /\ new.lists = ls /\ new.flags = own.flags \cup prev.flags
        /\ new.denied_url = Or(own.denied_url, NoUrl, prev.denied_url)
        /\ new.ignore_ips = Or(own.ignore_ips, {}, prev.ignore_ips)
        /\ new.ignore_cidrs = Or(own.ignore_cidrs, {}, prev.ignore_cidrs)
        /\ new.log = Or(own.log, {}, prev.log)
    BY <1>1, <1>4
  <1>7. new \in LocConf
    <2>1. /\ Or(own.denied_url, NoUrl, prev.denied_url) \in Urls \cup {NoUrl}
          /\ Or(own.ignore_ips, {}, prev.ignore_ips) \in SUBSET Ips
          /\ Or(own.ignore_cidrs, {}, prev.ignore_cidrs) \in SUBSET Cidrs
          /\ Or(own.log, {}, prev.log) \in SUBSET Files
          /\ own.flags \cup prev.flags \in SUBSET Flags
      BY <1>1, <1>2 DEF Or
    <2>2. QED
      BY <1>1, <1>3, <1>4, <2>1 DEF LocConf, Names
  <1>8. ASSUME NEW k \in Lists
        PROVE  IF said.lists[k] # {} THEN Items(new.lists[k]) = said.lists[k]
               ELSE new.lists[k] = prev.lists[k]
    <2>1. own.lists[k] \in Seq(Names) /\ Items(own.lists[k]) = said.lists[k]
      BY <1>1 DEF AsSaid
    <2>2. own.lists[k] = << >> <=> said.lists[k] = {}
      BY <2>1, ItemsNone
    <2>3. new.lists[k] = Or(own.lists[k], << >>, prev.lists[k])
      BY <1>5, <1>6
    <2>4. QED
      BY <2>1, <2>2, <2>3 DEF Or
  <1>9. IF Subnets(said) # {} THEN Parsed(new.ignore_cidrs, Subnets(said))
        ELSE new.ignore_cidrs = prev.ignore_cidrs
    <2>1. own.ignore_cidrs = {} <=> Subnets(said) = {}
      BY DEF AsSaid, Parsed
    <2>2. QED
      BY <1>6, <2>1 DEF AsSaid, Or
  <1>10. Taken(new, said, prev)
    <2>1. own.flags = said.flags /\ own.denied_url = said.url
          /\ own.ignore_ips = AllIps(said)
      BY DEF AsSaid
    <2>2. QED
      BY <1>6, <1>8, <1>9, <2>1 DEF Taken
  <1>11. QED
    BY <1>7, <1>10 DEF new

LEMMA MergeIInv ==
  ASSUME IInv, NEW c \in Confs \ {Root}, Merge(c)
  PROVE  IInv'
  <1> DEFINE p == Parent[c]
             new == Inherit(conf[p], conf[c])
  <1>1. /\ status = "merging" /\ c \notin merged /\ p \in merged
        /\ status' = status /\ built' = built /\ declared' = declared
        /\ pushed' = pushed \cup {c} /\ merged' = merged \cup {c}
        /\ conf' = [conf EXCEPT ![c] = new]
    BY DEF Merge
  <1>2. p \in Confs /\ p # c
    BY <1>1, ConfAssumption
  <1>3. conf[p] \in LocConf /\ conf[c] \in LocConf
    BY <1>2 DEF IInv, Types
  <1>4. AsSaid(conf[c], declared[c])
    BY <1>1 DEF IInv, Inherited, Apart
  <1>5. new \in LocConf /\ Taken(new, declared[c], conf[p])
    BY <1>3, <1>4, InheritTaken
  <1> HIDE DEF new
  <1>6. /\ conf'[c] = new
        /\ \A d \in Confs : d # c => conf'[d] = conf[d]
    BY <1>1 DEF IInv, Types
  <1>7. Types'
    BY <1>1, <1>5 DEF IInv, Types
  <1>8. Phases'
    BY <1>1 DEF IInv, Phases
  <1>9. Inherited'
    <2>1. ASSUME NEW d \in Apart'
          PROVE  AsSaid(conf'[d], declared[d])
      <3>1. d \in Apart /\ d # c /\ d \in Confs
        BY <1>1, <2>1, ConfAssumption DEF Apart
      <3>2. QED
        BY <1>6, <3>1 DEF IInv, Inherited
    <2>2. ASSUME NEW d \in merged' \ {Root}
          PROVE  /\ Parent[d] \in merged' /\ d \in pushed'
                 /\ Taken(conf'[d], declared[d], conf'[Parent[d]])
      <3>1. CASE d = c
        BY <1>1, <1>2, <1>5, <1>6, <3>1
      <3>2. CASE d # c
        <4>1. d \in merged \ {Root}
          BY <1>1, <2>2, <3>2
        <4>2. /\ Parent[d] \in merged /\ d \in pushed
              /\ Taken(conf[d], declared[d], conf[Parent[d]])
          BY <4>1 DEF IInv, Inherited
        <4>3. Parent[d] # c /\ Parent[d] \in Confs /\ d \in Confs
          BY <1>1, <4>1, <4>2 DEF IInv, Types
        <4>4. conf'[d] = conf[d] /\ conf'[Parent[d]] = conf[Parent[d]]
          BY <1>6, <3>2, <4>3
        <4>5. QED
          BY <1>1, <4>2, <4>4
      <3>3. QED
        BY <3>1, <3>2
    <2>3. \A d \in Confs \ pushed' : Bare(conf'[d])
      BY <1>1, <1>6 DEF IInv, Inherited
    <2>4. QED
      BY <1>1, <2>1, <2>2, <2>3 DEF Inherited
  <1>10. QED
    BY <1>7, <1>8, <1>9 DEF IInv

LEMMA EndOfFileIInv ==
  ASSUME IInv, EndOfFile
  PROVE  IInv'
  <1>1. /\ status = "reading" /\ merged = {} /\ status' = "merging"
        /\ merged' = {Root} /\ conf' = conf /\ declared' = declared
        /\ pushed' = pushed /\ built' = built
    BY DEF EndOfFile, IInv, Phases
  <1>2. Types'
    BY <1>1, ConfAssumption DEF IInv, Types
  <1>3. Phases'
    BY <1>1 DEF IInv, Phases
  <1>4. Inherited'
    <2>1. Apart' = Confs /\ Apart = Confs /\ merged' \ {Root} = {}
      BY <1>1, ConfAssumption DEF Apart
    <2>2. QED
      BY <1>1, <2>1 DEF IInv, Inherited
  <1>5. QED
    BY <1>2, <1>3, <1>4 DEF IInv

LEMMA InitConfIInv ==
  ASSUME IInv, naxsi_init
  PROVE  IInv'
  <1>1. CASE Refused
    BY <1>1, RefusedIInv DEF naxsi_init
  <1>2. CASE ~Refused
    <2>1. /\ status = "merging" /\ merged = Confs /\ status' = "ready"
          /\ \A c \in pushed : ~MissingDeniedUrl(c)
          /\ conf' = conf /\ pushed' = pushed /\ merged' = merged
          /\ declared' = declared
          /\ built' = [c \in Confs |-> IF c \in pushed
                                       THEN create_hashtables(conf[c])
                                       ELSE built[c]]
      BY <1>2 DEF naxsi_init
    <2>2. Types' /\ Inherited'
      BY <2>1 DEF IInv, Types, Inherited, Apart
    <2>3. \A c \in Confs : built[c] = NotBuilt
      BY <2>1 DEF IInv, Phases
    <2>4. built' = [c \in Confs |-> IF c \in pushed
                                    THEN create_hashtables(conf[c])
                                    ELSE NotBuilt]
      BY <2>1, <2>3
    <2>5. Phases'
      BY <2>1, <2>4, ConfAssumption DEF Phases, MissingDeniedUrl
    <2>6. QED
      BY <2>2, <2>5 DEF IInv
  <1>3. QED
    BY <1>1, <1>2

LEMMA MainRuleIInv ==
  ASSUME IInv, NEW r \in DOMAIN Rules, MainRule(r)
  PROVE  IInv'
  <1>1. status = "reading"
    BY DEF MainRule, Line
  <1>2. CASE Refused
    BY <1>1, <1>2, RefusedIInv
  <1>3. CASE ~Refused
    <2>1. /\ UNCHANGED <<conf, pushed, merged, built, declared>>
          /\ status' = status
      BY <1>3 DEF MainRule
    <2>2. UNCHANGED <<conf, pushed, merged, built, declared>>
      BY <2>1
    <2>3. QED
      BY <2>1, <2>2, Spared
  <1>4. QED
    BY <1>2, <1>3

\* What is merged stays as its line and the block around it made it, and the
\* tables are as old as the configurations they were built from.
THEOREM SpecIInv == Spec => []IInv
  <1>1. Init => IInv
    BY InitIInv
  <1>2. IInv /\ [Next]_vars => IInv'
    <2>1. SUFFICES ASSUME IInv, [Next]_vars PROVE IInv'
      OBVIOUS
    <2>2. CASE UNCHANGED vars
      BY <2>1, <2>2, Spared DEF vars
    <2>3. ASSUME NEW c \in Confs, Directive(c)
          PROVE  IInv'
      BY <2>1, <2>3, BasicRuleIInv, CheckRuleIInv, DeniedUrlIInv, IgnoreIPIInv,
         IgnoreCIDRIInv, FlagIInv, NaxsiLogFileIInv DEF Directive
    <2>4. ASSUME NEW r \in DOMAIN Rules, MainRule(r)
          PROVE  IInv'
      BY <2>1, <2>4, MainRuleIInv
    <2>5. CASE EndOfFile
      BY <2>1, <2>5, EndOfFileIInv
    <2>6. ASSUME NEW c \in Confs \ {Root}, Merge(c)
          PROVE  IInv'
      BY <2>1, <2>6, MergeIInv
    <2>7. CASE naxsi_init
      BY <2>1, <2>7, InitConfIInv
    <2>8. QED
      BY <2>1, <2>2, <2>3, <2>4, <2>5, <2>6, <2>7 DEF Next
  <1>3. QED
    BY <1>1, <1>2, PTL DEF Spec
-----------------------------------------------------------------------------
(***************************************************************************)
(* What the loaded configuration is                                        *)
(***************************************************************************)

\* Once it is loaded, http has what its text says, and every other block what
\* its text says or what the block around it has.
LEMMA LoadedKnown ==
  ASSUME IInv, Loaded
  PROVE  /\ Root \in Confs /\ AsSaid(conf[Root], declared[Root])
         /\ \A c \in Confs : c # Root =>
              /\ Parent[c] \in Confs
              /\ c \in pushed
              /\ Taken(conf[c], declared[c], conf[Parent[c]])
         /\ \A c \in Confs : conf[c] \in LocConf /\ declared[c] \in Said
         /\ \A c \in Confs \ pushed : Bare(conf[c])
         /\ \A c \in Confs : built[c] = IF c \in pushed
                                        THEN create_hashtables(conf[c])
                                        ELSE NotBuilt
  <1>1. merged = Confs /\ status = "ready"
    BY DEF Loaded, IInv, Phases
  <1>2. built = [c \in Confs |-> IF c \in pushed THEN create_hashtables(conf[c])
                                 ELSE NotBuilt]
    BY <1>1 DEF IInv, Phases
  <1>3. Root \in Confs /\ Root \in Apart
    BY ConfAssumption DEF Apart
  <1>4. QED
    BY <1>1, <1>2, <1>3 DEF IInv, Types, Inherited

\* The rules of a kind that a location runs are those of the nearest block
\* around it that has one, for any tree of blocks and any rules
\* (ngx_http_naxsi_br_loc_conf, ngx_http_naxsi_merge_loc_conf).
LEMMA IInvRules ==
  ASSUME IInv
  PROVE  RulesInForce
  <1> SUFFICES ASSUME Loaded, NEW k \in Lists
               PROVE  \A c \in Confs :
                 Items(conf[c].lists[k]) =
                   declared[Nearest(c, {d \in Confs :
                                          declared[d].lists[k] # {}})].lists[k]
    BY DEF RulesInForce
  <1> DEFINE S == {d \in Confs : declared[d].lists[k] # {}}
             f == [c \in Confs |-> Items(conf[c].lists[k])]
             own == [c \in Confs |-> declared[c].lists[k]]
  <1>1. ASSUME NEW c \in Confs, c \in S \/ c = Root
        PROVE  f[c] = own[c]
    <2>1. CASE c = Root
      BY <2>1, LoadedKnown DEF AsSaid
    <2>2. CASE c # Root
      BY <1>1, <2>2, LoadedKnown DEF Taken
    <2>3. QED
      BY <2>1, <2>2
  <1>2. ASSUME NEW c \in Confs, c \notin S /\ c # Root
        PROVE  f[c] = f[Parent[c]]
    BY <1>2, LoadedKnown DEF Taken
  <1>3. S \in SUBSET Confs
    OBVIOUS
  <1>4. \A c \in Confs : Nearest(c, S) \in Confs
    BY <1>3, NearestKnown, ConfAssumption
  <1>5. \A c \in Confs : f[c] = Items(conf[c].lists[k])
    OBVIOUS
  <1>6. \A c \in Confs : own[c] = declared[c].lists[k]
    OBVIOUS
  <1> HIDE DEF f, own
  <1>7. \A c \in Confs : f[c] = own[Nearest(c, S)]
    <2> HIDE DEF S
    <2>1. QED
      BY <1>1, <1>2, <1>3, NearestValue
  <1>8. QED
    BY <1>4, <1>5, <1>6, <1>7

\* The switches of a location are those of all blocks around it.
LEMMA IInvSwitches ==
  ASSUME IInv
  PROVE  SwitchesStick
  <1> SUFFICES ASSUME Loaded
               PROVE  \A c \in Confs :
                 conf[c].flags = UNION {declared[d].flags : d \in Around[c]}
    BY DEF SwitchesStick
  <1> DEFINE S == {c \in Confs :
                     conf[c].flags = UNION {declared[d].flags : d \in Around[c]}}
  <1>1. Root \in S
    <2>1. conf[Root].flags = declared[Root].flags
      BY LoadedKnown DEF AsSaid
    <2>2. QED
      BY <2>1, AroundRoot, ConfAssumption
  <1>2. ASSUME NEW c \in Confs \ {Root}, Parent[c] \in S
        PROVE  c \in S
    <2>1. conf[c].flags = declared[c].flags \cup conf[Parent[c]].flags
      BY LoadedKnown DEF Taken
    <2>2. Around[c] = {c} \cup Around[Parent[c]]
      BY AroundStep
    <2>3. QED
      BY <1>2, <2>1, <2>2
  <1>3. S \in SUBSET Confs
    OBVIOUS
  <1> HIDE DEF S
  <1>4. S = Confs
    BY <1>1, <1>2, <1>3, Inwards
  <1>5. QED
    BY <1>4 DEF S

\* The URL in force is that of the nearest block that names one.
LEMMA IInvUrl ==
  ASSUME IInv, Loaded
  PROVE  \A c \in Confs :
           conf[c].denied_url =
             declared[Nearest(c, {d \in Confs : declared[d].url # NoUrl})].url
  <1> DEFINE S == {d \in Confs : declared[d].url # NoUrl}
             f == [c \in Confs |-> conf[c].denied_url]
             own == [c \in Confs |-> declared[c].url]
  <1>1. ASSUME NEW c \in Confs, c \in S \/ c = Root
        PROVE  f[c] = own[c]
    <2>1. CASE c = Root
      BY <2>1, LoadedKnown DEF AsSaid
    <2>2. CASE c # Root
      BY <1>1, <2>2, LoadedKnown DEF Taken, Or
    <2>3. QED
      BY <2>1, <2>2
  <1>2. ASSUME NEW c \in Confs, c \notin S /\ c # Root
        PROVE  f[c] = f[Parent[c]]
    BY <1>2, LoadedKnown DEF Taken, Or
  <1>3. S \in SUBSET Confs
    OBVIOUS
  <1>4. \A c \in Confs : Nearest(c, S) \in Confs
    BY <1>3, NearestKnown, ConfAssumption
  <1>5. \A c \in Confs : f[c] = conf[c].denied_url /\ own[c] = declared[c].url
    OBVIOUS
  <1> HIDE DEF f, own
  <1>6. \A c \in Confs : f[c] = own[Nearest(c, S)]
    <2> HIDE DEF S
    <2>1. QED
      BY <1>1, <1>2, <1>3, NearestValue
  <1>7. QED
    BY <1>4, <1>5, <1>6

\* Wherever naxsi is enabled, there is a URL and there are tables.
LEMMA IInvEnabled ==
  ASSUME IInv
  PROVE  EnabledIsReady
  <1> SUFFICES ASSUME Loaded, NEW c \in Confs, NEW e \in Around[c],
                      "enabled" \in declared[e].flags
               PROVE  /\ conf[c].denied_url # NoUrl
                      /\ conf[c].denied_url =
                           declared[Nearest(c, {d \in Confs :
                                                  declared[d].url # NoUrl})].url
                      /\ built[c] = create_hashtables(conf[c])
    BY DEF EnabledIsReady
  <1>1. "enabled" \in conf[c].flags
    BY IInvSwitches DEF SwitchesStick
  <1>2. c \in pushed
    BY <1>1, LoadedKnown DEF Bare
  <1>3. conf[c].denied_url # NoUrl
    BY <1>1, <1>2 DEF IInv, Phases, Loaded, MissingDeniedUrl
  <1>4. built[c] = create_hashtables(conf[c])
    BY <1>2, LoadedKnown
  <1>5. QED
    BY <1>3, <1>4, IInvUrl

\* The addresses in force, hashed, are those that the text lists.
LEMMA IInvIps ==
  ASSUME IInv, Loaded
  PROVE  \A c \in Confs : built[c].ips = ListedIps(c)
  <1> DEFINE S == {d \in Confs : AllIps(declared[d]) # {}}
             f == [c \in Confs |-> conf[c].ignore_ips]
             own == [c \in Confs |-> AllIps(declared[c])]
  <1>1. ASSUME NEW c \in Confs, c \in S \/ c = Root
        PROVE  f[c] = own[c]
    <2>1. CASE c = Root
      BY <2>1, LoadedKnown DEF AsSaid
    <2>2. CASE c # Root
      BY <1>1, <2>2, LoadedKnown DEF Taken, Or
    <2>3. QED
      BY <2>1, <2>2
  <1>2. ASSUME NEW c \in Confs, c \notin S /\ c # Root
        PROVE  f[c] = f[Parent[c]]
    BY <1>2, LoadedKnown DEF Taken, Or
  <1>3. S \in SUBSET Confs
    OBVIOUS
  <1>4. \A c \in Confs : Nearest(c, S) \in Confs
    BY <1>3, NearestKnown, ConfAssumption
  <1>5. \A c \in Confs : f[c] = conf[c].ignore_ips /\ own[c] = AllIps(declared[c])
    OBVIOUS
  <1> HIDE DEF f, own
  <1>6. \A c \in Confs : f[c] = own[Nearest(c, S)]
    <2> HIDE DEF S
    <2>1. QED
      BY <1>1, <1>2, <1>3, NearestValue
  <1>7. \A c \in Confs : conf[c].ignore_ips = ListedIps(c)
    BY <1>4, <1>5, <1>6 DEF ListedIps
  <1>8. \A c \in Confs : built[c].ips = conf[c].ignore_ips
    <2>1. SUFFICES ASSUME NEW c \in Confs
                   PROVE  built[c].ips = conf[c].ignore_ips
      OBVIOUS
    <2>2. CASE c \in pushed
      <3>1. built[c] = create_hashtables(conf[c])
        BY <2>2, LoadedKnown
      <3>2. QED
        BY <3>1 DEF create_hashtables
    <2>3. CASE c \notin pushed
      <3>1. built[c] = NotBuilt /\ Bare(conf[c])
        BY <2>3, LoadedKnown
      <3>2. QED
        BY <3>1 DEF NotBuilt, Bare
    <2>4. QED
      BY <2>2, <2>3
  <1>9. QED
    BY <1>7, <1>8

\* The subnets in force are those of the texts in force.
LEMMA IInvSubnets ==
  ASSUME IInv, Loaded, NEW c \in Confs
  PROVE  Parsed(conf[c].ignore_cidrs, ListedSubnets(c))
  <1> DEFINE S == {d \in Confs : Subnets(declared[d]) # {}}
             f == [d \in Confs |-> conf[d].ignore_cidrs]
  <1>1. ASSUME NEW d \in Confs, d \in S \/ d = Root
        PROVE  Parsed(f[d], Subnets(declared[d]))
    <2>1. CASE d = Root
      BY <2>1, LoadedKnown DEF AsSaid
    <2>2. CASE d # Root
      BY <1>1, <2>2, LoadedKnown DEF Taken
    <2>3. QED
      BY <2>1, <2>2
  <1>2. ASSUME NEW d \in Confs, d \notin S /\ d # Root
        PROVE  f[d] = f[Parent[d]]
    BY <1>2, LoadedKnown DEF Taken
  <1>3. S \in SUBSET Confs
    OBVIOUS
  <1>4. Nearest(c, S) \in Confs /\ (Nearest(c, S) \in S \/ Nearest(c, S) = Root)
    BY <1>3, NearestKnown, ConfAssumption
  <1>5. f[c] = conf[c].ignore_cidrs
    OBVIOUS
  <1>6. f[c] = f[Nearest(c, S)]
    <2> HIDE DEF S, f
    <2>1. QED
      BY <1>2, <1>3, NearestValue
  <1> HIDE DEF f
  <1>7. Parsed(f[c], Subnets(declared[Nearest(c, S)]))
    BY <1>1, <1>4, <1>6
  <1>8. QED
    BY <1>5, <1>7 DEF ListedSubnets

\* Every text in force is one of the file.
LEMMA ListedKnown ==
  ASSUME IInv, Loaded, NEW c \in Confs
  PROVE  ListedSubnets(c) \subseteq CidrTexts
  <1> DEFINE S == {d \in Confs : Subnets(declared[d]) # {}}
  <1>1. Nearest(c, S) \in Confs
    BY NearestKnown, ConfAssumption
  <1>2. declared[Nearest(c, S)] \in Said
    BY <1>1, LoadedKnown
  <1>3. QED
    BY <1>2 DEF ListedSubnets, Subnets, Said

\* A client is spared just where the nearest list names its address or a
\* prefix of it.
LEMMA IInvIgnored ==
  ASSUME IInv
  PROVE  IgnoredAsListed
  <1> SUFFICES ASSUME Loaded, NEW c \in Confs, NEW ip \in Clients,
                      \A t \in ListedSubnets(c) : ~HalfMask(t)
               PROVE  Ignored(c, ip) <=> Listed(c, ip)
    BY DEF IgnoredAsListed
  <1>1. naxsi_can_ignore_ip(c, ip) <=> ip \in ListedIps(c)
    BY IInvIps DEF naxsi_can_ignore_ip
  <1>2. Parsed(conf[c].ignore_cidrs, ListedSubnets(c))
    BY IInvSubnets
  <1>3. ASSUME NEW t \in ListedSubnets(c),
               NEW cidr \in naxsi_parse_cidr(t.net, t.mask)
        PROVE  naxsi_is_in_subnet(cidr, ip) <=> HasPrefix(ip, t.net, t.mask)
    <2>1. t \in CidrTexts /\ ip \in Ips
      BY ListedKnown, ConfAssumption
    <2>2. t.net \in Ips /\ t.mask \in Nat /\ t.net # NoIp
      BY <2>1, ParsedKnown, ConfAssumption
    <2>3. ~(t.net.version = "IPv6" /\ t.mask = Half)
      BY <2>2 DEF HalfMask
    <2>4. QED
      BY <2>1, <2>2, <2>3, SubnetIsPrefix
  <1>4. naxsi_can_ignore_cidr(c, ip)
          <=> \E t \in ListedSubnets(c) : HasPrefix(ip, t.net, t.mask)
    BY <1>2, <1>3 DEF Parsed, naxsi_can_ignore_cidr
  <1>5. QED
    BY <1>1, <1>4 DEF Ignored, Listed

\* For any configuration file, any nesting of its blocks and any order in
\* which nginx merges them, a location runs the rules of the nearest block
\* that declares some (ngx_http_naxsi_merge_loc_conf).
THEOREM InForceAsDeclared == Spec => []RulesInForce
  BY SpecIInv, IInvRules, PTL

\* No block takes a switch back that a block around it has.
THEOREM SwitchesKept == Spec => []SwitchesStick
  BY SpecIInv, IInvSwitches, PTL

\* A location where naxsi is enabled has a URL to deny with and its tables
\* (ngx_http_naxsi_push_loc_conf, ngx_http_naxsi_init).
THEOREM EnabledHasAll == Spec => []EnabledIsReady
  BY SpecIInv, IInvEnabled, PTL

\* Clients are spared as the file lists them, for any width of an address,
\* any mask but that of one whole word, and any inheritance.
THEOREM SparedAsListed == Spec => []IgnoredAsListed
  BY SpecIInv, IInvIgnored, PTL
-----------------------------------------------------------------------------
(***************************************************************************)
(* Type correctness                                                        *)
(***************************************************************************)

\* What the inductive invariant does not say of the types.
Rest ==
  /\ status \in {"reading", "merging", "ready", "failed"}
  /\ main \in [RuleLists -> Seq(DOMAIN Rules)]
  /\ lines \in Nat /\ lines <= MaxLines

LEMMA InitRest == Init => Rest
  <1> SUFFICES ASSUME Init PROVE Rest
    OBVIOUS
  <1>1. << >> \in Seq(DOMAIN Rules)
    OBVIOUS
  <1>2. [k \in RuleLists |-> << >>] \in [RuleLists -> Seq(DOMAIN Rules)]
    BY <1>1, Zenon
  <1>3. QED
    BY <1>2, ConfAssumption DEF Rest, Init

LEMMA NextRest ==
  ASSUME Rest, [Next]_vars
  PROVE  Rest'
  <1>1. MaxLines \in Nat
    BY ConfAssumption
  <1>2. CASE UNCHANGED vars
    BY <1>2 DEF vars, Rest
  <1>3. ASSUME main' = main, Line, status' \in {status, "failed"}
        PROVE  Rest'
    BY <1>1, <1>3 DEF Rest, Line
  <1>4. ASSUME main' = main, UNCHANGED lines,
               status' \in {"merging", "ready", "failed"}
        PROVE  Rest'
    BY <1>4 DEF Rest
  <1>5. ASSUME NEW c \in Confs, Directive(c)
        PROVE  Rest'
    <2>1. ASSUME NEW r \in DOMAIN Rules, BasicRule(c, r)
          PROVE  Rest'
      BY <1>3, <2>1 DEF BasicRule, Refused, Done
    <2>2. ASSUME NEW r \in DOMAIN CheckRules, CheckRule(c, r)
          PROVE  Rest'
      BY <1>3, <2>2 DEF CheckRule, Refused, Done
    <2>3. ASSUME NEW u \in Urls \cup {NoUrl}, DeniedUrl(c, u)
          PROVE  Rest'
      BY <1>3, <2>3 DEF DeniedUrl, Refused, Done
    <2>4. ASSUME NEW t \in IpTexts, IgnoreIP(c, t)
          PROVE  Rest'
      BY <1>3, <2>4 DEF IgnoreIP, AddIp, Refused, Done
    <2>5. ASSUME NEW t \in CidrTexts, IgnoreCIDR(c, t)
          PROVE  Rest'
      BY <1>3, <2>5 DEF IgnoreCIDR, AddIp, Refused, Done
    <2>6. ASSUME NEW f \in Flags, Flag(c, f)
          PROVE  Rest'
      BY <1>3, <2>6 DEF Flag, Done
    <2>7. ASSUME NEW file \in Files, NaxsiLogFile(c, file)
          PROVE  Rest'
      BY <1>3, <2>7 DEF NaxsiLogFile
    <2>8. QED
      BY <1>5, <2>1, <2>2, <2>3, <2>4, <2>5, <2>6, <2>7 DEF Directive
  <1>6. ASSUME NEW r \in DOMAIN Rules, MainRule(r)
        PROVE  Rest'
    <2>1. CASE Refused
      BY <1>3, <1>6, <2>1 DEF MainRule, Refused
    <2>2. CASE ~Refused
      <3>1. main' = Push(main, ListsOf(r), r) /\ status' = status /\ Line
        BY <1>6, <2>2 DEF MainRule
      <3>2. main \in [RuleLists -> Seq(DOMAIN Rules)]
        BY DEF Rest
      <3>3. \A k \in RuleLists : Append(main[k], r) \in Seq(DOMAIN Rules)
        BY <3>2, ItemsAppend
      <3>4. main' \in [RuleLists -> Seq(DOMAIN Rules)]
        BY <3>1, <3>2, <3>3 DEF Push
      <3>5. QED
        BY <1>1, <3>1, <3>4 DEF Rest, Line
    <2>3. QED
      BY <2>1, <2>2
  <1>7. CASE EndOfFile
    BY <1>4, <1>7 DEF EndOfFile
  <1>8. ASSUME NEW c \in Confs \ {Root}, Merge(c)
        PROVE  Rest'
    BY <1>4, <1>8 DEF Merge
  <1>9. CASE naxsi_init
    BY <1>4, <1>9 DEF naxsi_init, Refused
  <1>10. QED
    BY <1>2, <1>5, <1>6, <1>7, <1>8, <1>9 DEF Next

\* Every configuration, the lists of rules and the tables have their types.
THEOREM TypeCorrect == Spec => []TypeOK
  <1>1. Rest /\ IInv => TypeOK
    <2>1. SUFFICES ASSUME Rest, IInv PROVE TypeOK
      OBVIOUS
    <2>2. lines \in 0 .. MaxLines
      BY <2>1, ConfAssumption DEF Rest
    <2> DEFINE Tables == [tables : BOOLEAN, ips : SUBSET Ips, whitelists : Seq(Names)]
    <2>3. NotBuilt \in Tables
      <3>1. << >> \in Seq(Names) /\ FALSE \in BOOLEAN
        OBVIOUS
      <3>2. QED
        BY <3>1 DEF NotBuilt
    <2>4. ASSUME NEW c \in Confs
          PROVE  create_hashtables(conf[c]) \in Tables
      <3>1. conf[c] \in LocConf /\ "whitelist_rules" \in Lists
        BY <2>1 DEF IInv, Types, Lists
      <3>2. /\ conf[c].lists["whitelist_rules"] \in Seq(Names)
            /\ conf[c].ignore_ips \in SUBSET Ips /\ TRUE \in BOOLEAN
        BY <3>1 DEF LocConf, Names
      <3>3. QED
        BY <3>2 DEF create_hashtables
    <2> HIDE DEF Tables
    <2>5. built \in [Confs -> Tables]
      BY <2>1, <2>3, <2>4 DEF IInv, Phases
    <2>6. QED
      BY <2>1, <2>2, <2>5 DEF TypeOK, Rest, IInv, Types, Tables, Names
  <1>2. Spec => []Rest
    BY InitRest, NextRest, PTL DEF Spec
  <1>3. QED
    BY <1>1, <1>2, SpecIInv, PTL
=============================================================================
