----------------------------- MODULE NaxsiConf ------------------------------
(***************************************************************************)
(* How the configuration is loaded: the handlers of the directives, the    *)
(* inheritance of location configurations, and the validation after it     *)
(* (naxsi_skeleton.c).                                                     *)
(*                                                                         *)
(* nginx reads the file and calls a handler per directive, with the        *)
(* configuration of the block the line is in; then it merges each block's  *)
(* configuration with that of the block around it, from the outside in;    *)
(* then it calls ngx_http_naxsi_init.  A handler that fails ends it all.   *)
(***************************************************************************)
EXTENDS NaxsiNet, Sequences

CONSTANTS
  Confs,      \* the blocks: http, its servers, their locations
  Root,       \* http
  Parent,     \* the block around a block
  Rules,      \* what BasicRule and MainRule may declare
  CheckRules, \* what CheckRule may declare, and whether it is well formed
  Urls,       \* what DeniedUrl may name
  NoUrl,      \* none was named
  Clients,    \* the addresses of clients
  IpTexts,    \* the arguments of IgnoreIP
  CidrTexts,  \* the arguments of IgnoreCIDR
  Files,      \* the arguments of NaxsiLogFile
  MaxLines    \* bound: the directives of a configuration

\* The zones of a rule that decide where it is put.
RuleZones == {"headers", "headers_var", "body", "body_var", "raw_body", "url",
              "args", "args_var"}

\* A parsed rule; valid: ngx_http_naxsi_cfg_parse_one_rule accepts it, wl: it
\* has whitelisted ids.
Rule == [zones : SUBSET RuleZones, wl : BOOLEAN, valid : BOOLEAN]

\* With every block, S has the block around it.
Closed(S) == \A c \in S \ {Root} : Parent[c] \in S

\* Blocks are nested: outwards of every block is http.
ASSUME ConfAssumption ==
  /\ Root \in Confs
  /\ Parent \in [Confs \ {Root} -> Confs]
  /\ \A S \in SUBSET Confs : S # {} /\ Closed(S) => Root \in S
  /\ \A r \in DOMAIN Rules : Rules[r] \in Rule
  /\ \A r \in DOMAIN CheckRules : CheckRules[r] \in BOOLEAN
  /\ DOMAIN Rules \cap DOMAIN CheckRules = {}
  /\ NoUrl \notin Urls
  /\ Clients \subseteq Ips /\ NoIp \notin Ips
  /\ IpTexts \subseteq Ips \cup {NoIp}
  /\ CidrTexts \subseteq [net : Ips \cup {NoIp}, mask : Nat \cup {NoMask}]
  /\ MaxLines \in Nat

\* The lists of rules a location runs, and the zones that put a rule in one.
ZonesOf == [header_rules   |-> {"headers", "headers_var"},
            body_rules     |-> {"body", "body_var"},
            raw_body_rules |-> {"raw_body"},
            generic_rules  |-> {"url"},
            get_rules      |-> {"args", "args_var"}]
RuleLists == DOMAIN ZonesOf
Lists == RuleLists \cup {"whitelist_rules", "check_rules"}

Flags == {"enabled", "force_disabled", "learning", "libinjection_sql",
          "libinjection_xss"}
-----------------------------------------------------------------------------
VARIABLES
  status,   \* "reading", "merging", "ready", or "failed"
  conf,     \* the location configuration of each block
  main,     \* the lists of the main configuration
  pushed,   \* main_cf->locations: the configurations init goes through
  merged,   \* the blocks merged so far
  built,    \* the whitelists a block's tables were built from
  declared, \* history: what the lines in a block declare, by list
  lines     \* how many lines were read

vars == <<status, conf, main, pushed, merged, built, declared, lines>>

\* Nothing declared; an empty list stands for NULL, as an array is created
\* with its first element.
EmptyConf ==
  [lists |-> [k \in Lists |-> << >>], flags |-> {}, denied_url |-> NoUrl,
   ignore_ips |-> {}, ignore_cidrs |-> {}, log |-> {}]

NotBuilt == [tables |-> FALSE, whitelists |-> << >>, ips |-> {}]

\* History: what the text of a block says.
Nothing == [lists |-> [k \in Lists |-> {}], flags |-> {}, url |-> NoUrl,
            ips |-> {}, cidrs |-> {}]

Init ==
  /\ status = "reading"
  /\ conf = [c \in Confs |-> EmptyConf]
  /\ main = [k \in RuleLists |-> << >>]
  /\ pushed = {}
  /\ merged = {}
  /\ built = [c \in Confs |-> NotBuilt]
  /\ declared = [c \in Confs |-> Nothing]
  /\ lines = 0
-----------------------------------------------------------------------------
(***************************************************************************)
(* The directives                                                          *)
(***************************************************************************)

\* nginx calls the handler of the next line.
Line == status = "reading" /\ lines < MaxLines /\ lines' = lines + 1

\* The handler returns NGX_CONF_ERROR: nginx gives the configuration up.
Refused ==
  /\ status' = "failed"
  /\ UNCHANGED <<conf, main, pushed, merged, built, declared>>

\* The handler has changed the configuration of block c and pushed it.
Done(c, new) ==
  /\ conf' = [conf EXCEPT ![c] = new]
  /\ pushed' = pushed \cup {c}
  /\ UNCHANGED <<status, main, merged, built>>

Says(c, new) == declared' = [declared EXCEPT ![c] = new]

\* The lists a rule is put in.
ListsOf(r) == {k \in RuleLists : ZonesOf[k] \cap Rules[r].zones # {}}

\* Where ngx_http_naxsi_br_loc_conf puts a rule.
BasicRuleLists(r) ==
  IF Rules[r].wl THEN {"whitelist_rules"} ELSE ListsOf(r)

\* Append r to the lists ks.
Push(lists, ks, r) ==
  [k \in DOMAIN lists |->
     IF k \in ks THEN Append(lists[k], r) ELSE lists[k]]

Noted(c, ks, r) ==
  [declared[c] EXCEPT !.lists =
     [k \in Lists |-> IF k \in ks THEN @[k] \cup {r} ELSE @[k]]]

\* ngx_http_naxsi_br_loc_conf
BasicRule(c, r) ==
  /\ Line
  /\ \/ ~Rules[r].valid /\ Refused
     \/ /\ Rules[r].valid
        /\ Done(c, [conf[c] EXCEPT !.lists = Push(@, BasicRuleLists(r), r)])
        /\ Says(c, Noted(c, IF Rules[r].wl THEN {"whitelist_rules"}
                            ELSE ListsOf(r), r))

\* ngx_http_naxsi_read_main_conf, which does not look for whitelists.
MainRule(r) ==
  /\ Line
  /\ \/ ~Rules[r].valid /\ Refused
     \/ /\ Rules[r].valid
        /\ main' = Push(main, ListsOf(r), r)
        /\ UNCHANGED <<status, conf, pushed, merged, built, declared>>

\* ngx_http_naxsi_cr_loc_conf
CheckRule(c, r) ==
  /\ Line
  /\ \/ ~CheckRules[r] /\ Refused
     \/ /\ CheckRules[r]
        /\ Done(c, [conf[c] EXCEPT !.lists = Push(@, {"check_rules"}, r)])
        /\ Says(c, Noted(c, {"check_rules"}, r))

\* ngx_http_naxsi_ud_loc_conf: the last one counts; an empty one is refused.
DeniedUrl(c, u) ==
  /\ Line
  /\ \/ u = NoUrl /\ Refused
     \/ /\ u # NoUrl
        /\ Done(c, [conf[c] EXCEPT !.denied_url = u])
        /\ Says(c, [declared[c] EXCEPT !.url = u])

\* ngx_http_naxsi_add_ii_loc_conf: nginx refuses a key that is there.
AddIp(c, ip, new) ==
  \/ ip \in conf[c].ignore_ips /\ Refused
  \/ /\ ip \notin conf[c].ignore_ips
     /\ Done(c, [conf[c] EXCEPT !.ignore_ips = @ \cup {ip}])
     /\ Says(c, new)

\* ngx_http_naxsi_ii_loc_conf
IgnoreIP(c, text) ==
  /\ Line
  /\ \/ text = NoIp /\ Refused
     \/ /\ text # NoIp
        /\ AddIp(c, text, [declared[c] EXCEPT !.ips = @ \cup {text}])

\* The text of a mask begins with that of a whole address ("/320" has "/32").
LikeHost(version, mask) ==
  /\ mask # NoMask
  /\ \E k \in 0 .. 2 : mask \div (10 ^ k) = Width(version)

\* A CIDR of one address: it is put in the list of addresses.
IsHost(text) ==
  /\ text.net # NoIp
  /\ LikeHost(text.net.version, text.mask)

\* ngx_http_naxsi_ic_loc_conf
IgnoreCIDR(c, text) ==
  /\ Line
  /\ LET said == [declared[c] EXCEPT !.cidrs = @ \cup {text}] IN
     \/ IsHost(text) /\ AddIp(c, text.net, said)
     \/ /\ ~IsHost(text) /\ naxsi_parse_cidr(text.net, text.mask) = {}
        /\ Refused
     \/ /\ ~IsHost(text)
        /\ \E cidr \in naxsi_parse_cidr(text.net, text.mask) :
             Done(c, [conf[c] EXCEPT !.ignore_cidrs = @ \cup {cidr}])
        /\ Says(c, said)

\* ngx_http_naxsi_flags_loc_conf
Flag(c, f) ==
  /\ Line
  /\ Done(c, [conf[c] EXCEPT !.flags = @ \cup {f}])
  /\ Says(c, [declared[c] EXCEPT !.flags = @ \cup {f}])

\* ngx_http_naxsi_log_loc_conf, which does not push the configuration.
NaxsiLogFile(c, file) ==
  /\ Line
  /\ conf' = [conf EXCEPT ![c].log = @ \cup {file}]
  /\ UNCHANGED <<status, main, pushed, merged, built, declared>>
-----------------------------------------------------------------------------
(***************************************************************************)
(* What follows the last line                                              *)
(***************************************************************************)

\* nginx has read the file.
EndOfFile ==
  /\ status = "reading"
  /\ status' = "merging"
  /\ merged' = {Root}
  /\ UNCHANGED <<conf, main, pushed, built, declared, lines>>

Or(mine, none, theirs) == IF mine = none THEN theirs ELSE mine

\* Mutant of Inherit: the switches of the block around it are lost.
Inherit_flags_own(prev, own) ==
  [own EXCEPT !.lists = [k \in Lists |-> Or(@[k], << >>, prev.lists[k])],
              !.denied_url = Or(@, NoUrl, prev.denied_url),
              !.ignore_ips = Or(@, {}, prev.ignore_ips),
              !.ignore_cidrs = Or(@, {}, prev.ignore_cidrs),
              !.log = Or(@, {}, prev.log)]

\* Mutant of Inherit: the lists are put together.
Inherit_lists_joined(prev, own) ==
  [own EXCEPT !.lists = [k \in Lists |-> prev.lists[k] \o @[k]],
              !.flags = @ \cup prev.flags,
              !.denied_url = Or(@, NoUrl, prev.denied_url),
              !.ignore_ips = Or(@, {}, prev.ignore_ips),
              !.ignore_cidrs = Or(@, {}, prev.ignore_cidrs),
              !.log = Or(@, {}, prev.log)]

\* ngx_http_naxsi_merge_loc_conf: field by field, what is unset is taken from
\* the block around.
Inherit(prev, own) ==
  [own EXCEPT !.lists = [k \in Lists |-> Or(@[k], << >>, prev.lists[k])],
              !.flags = @ \cup prev.flags,
              !.denied_url = Or(@, NoUrl, prev.denied_url),
              !.ignore_ips = Or(@, {}, prev.ignore_ips),
              !.ignore_cidrs = Or(@, {}, prev.ignore_cidrs),
              !.log = Or(@, {}, prev.log)]

\* Mutant of Merge: the merged configuration is not pushed.
Merge_unpushed(c) ==
  /\ status = "merging"
  /\ c \notin merged /\ Parent[c] \in merged
  /\ conf' = [conf EXCEPT ![c] = Inherit(conf[Parent[c]], @)]
  /\ merged' = merged \cup {c}
  /\ UNCHANGED <<status, main, pushed, built, declared, lines>>

\* ngx_http_naxsi_merge_loc_conf and ngx_http_naxsi_push_loc_conf
Merge(c) ==
  /\ status = "merging"
  /\ c \notin merged /\ Parent[c] \in merged
  /\ conf' = [conf EXCEPT ![c] = Inherit(conf[Parent[c]], @)]
  /\ pushed' = pushed \cup {c}
  /\ merged' = merged \cup {c}
  /\ UNCHANGED <<status, main, built, declared, lines>>

\* The tables ngx_http_naxsi_create_hashtables_n builds for a configuration.
create_hashtables(own) ==
  [tables |-> TRUE, whitelists |-> own.lists["whitelist_rules"],
   ips |-> own.ignore_ips]

\* SecRulesEnabled without DeniedUrl.
MissingDeniedUrl(c) ==
  "enabled" \in conf[c].flags /\ conf[c].denied_url = NoUrl

\* ngx_http_naxsi_init: the first configuration without DeniedUrl ends it.
naxsi_init ==
  /\ status = "merging" /\ merged = Confs
  /\ \/ (\E c \in pushed : MissingDeniedUrl(c)) /\ Refused
     \/ /\ \A c \in pushed : ~MissingDeniedUrl(c)
        /\ built' = [c \in Confs |-> IF c \in pushed
                                     THEN create_hashtables(conf[c])
                                     ELSE built[c]]
        /\ status' = "ready"
        /\ UNCHANGED <<conf, main, pushed, merged, declared>>
  /\ UNCHANGED lines

\* What a request asks: is this client's address in the list of addresses,
\* hashed when the tables were built; is it in a subnet?
naxsi_can_ignore_ip(c, ip) == ip \in built[c].ips
naxsi_can_ignore_cidr(c, ip) ==
  \E cidr \in conf[c].ignore_cidrs : naxsi_is_in_subnet(cidr, ip)

Directive(c) ==
  \/ \E r \in DOMAIN Rules : BasicRule(c, r)
  \/ \E r \in DOMAIN CheckRules : CheckRule(c, r)
  \/ \E u \in Urls \cup {NoUrl} : DeniedUrl(c, u)
  \/ \E t \in IpTexts : IgnoreIP(c, t)
  \/ \E t \in CidrTexts : IgnoreCIDR(c, t)
  \/ \E f \in Flags : Flag(c, f)
  \/ \E file \in Files : NaxsiLogFile(c, file)

Next ==
  \/ \E c \in Confs : Directive(c)
  \/ \E r \in DOMAIN Rules : MainRule(r)
  \/ EndOfFile
  \/ \E c \in Confs \ {Root} : Merge(c)
  \/ naxsi_init

Spec == Init /\ [][Next]_vars
-----------------------------------------------------------------------------
(***************************************************************************)
(* Properties                                                              *)
(***************************************************************************)

\* The blocks around a block, itself included.
Around == [c \in Confs |->
             {d \in Confs : \A S \in SUBSET Confs : c \in S /\ Closed(S) => d \in S}]

\* The nearest block around c that is in S; Root if none is.
Nearest(c, S) ==
  LET hits == Around[c] \cap S IN
  IF hits = {} THEN Root ELSE CHOOSE d \in hits : hits \subseteq Around[d]

Items(list) == {list[i] : i \in DOMAIN list}

Loaded == status = "ready"

LocConf == [lists : [Lists -> Seq(DOMAIN Rules \cup DOMAIN CheckRules)],
            flags : SUBSET Flags, denied_url : Urls \cup {NoUrl},
            ignore_ips : SUBSET Ips, ignore_cidrs : SUBSET Cidrs,
            log : SUBSET Files]

\* Type correctness.
TypeOK ==
  /\ status \in {"reading", "merging", "ready", "failed"}
  /\ conf \in [Confs -> LocConf]
  /\ main \in [RuleLists -> Seq(DOMAIN Rules)]
  /\ pushed \subseteq Confs /\ merged \subseteq Confs
  /\ built \in [Confs -> [tables : BOOLEAN, ips : SUBSET Ips,
                          whitelists : Seq(DOMAIN Rules \cup DOMAIN CheckRules)]]
  /\ lines \in 0 .. MaxLines

\* The rules of a kind that a location runs are those of the nearest block
\* around it that declares one of this kind, all of them and no other,
\* whatever the order of lines and blocks (ngx_http_naxsi_br_loc_conf,
\* ngx_http_naxsi_merge_loc_conf).
RulesInForce ==
  Loaded =>
    \A c \in Confs, k \in Lists :
      Items(conf[c].lists[k]) =
        declared[Nearest(c, {d \in Confs :
                               declared[d].lists[k] # {}})].lists[k]

\* A switch written in any block around a location is on in it, and no other
\* is: no block can take one back (flags_loc_conf, merge_loc_conf).
SwitchesStick ==
  Loaded =>
    \A c \in Confs :
      conf[c].flags = UNION {declared[d].flags : d \in Around[c]}

\* Wherever SecRulesEnabled is in force, in a block that has it or not, there
\* is a URL to deny with, that of the nearest block, and the tables were built
\* from the whitelists and addresses in force (push_loc_conf, naxsi_init).
EnabledIsReady ==
  Loaded =>
    \A c \in Confs :
      (\E d \in Around[c] : "enabled" \in declared[d].flags) =>
        /\ conf[c].denied_url # NoUrl
        /\ conf[c].denied_url =
             declared[Nearest(c, {d \in Confs : declared[d].url # NoUrl})].url
        /\ built[c] = create_hashtables(conf[c])

\* The mask whose shift is undefined.
HalfMask(t) == t.net # NoIp /\ t.net.version = "IPv6" /\ t.mask = Half

Hosts(said) == {t.net : t \in {u \in said.cidrs : IsHost(u)}}
Subnets(said) == {t \in said.cidrs : ~IsHost(t)}

\* What the file lists for block c: addresses, whole CIDRs included, and
\* subnets are inherited apart.
AllIps(said) == said.ips \cup Hosts(said)
ListedIps(c) ==
  AllIps(declared[Nearest(c, {d \in Confs : AllIps(declared[d]) # {}})])
ListedSubnets(c) ==
  Subnets(declared[Nearest(c, {d \in Confs : Subnets(declared[d]) # {}})])

Ignored(c, ip) == naxsi_can_ignore_ip(c, ip) \/ naxsi_can_ignore_cidr(c, ip)
Listed(c, ip) ==
  \/ ip \in ListedIps(c)
  \/ \E t \in ListedSubnets(c) : HasPrefix(ip, t.net, t.mask)

\* A client is spared just where the nearest IgnoreIP or IgnoreCIDR names its
\* address or a prefix of it, in both versions and for every mask but the one
\* whose shift is undefined (ic_loc_conf, naxsi_parse_cidr,
\* naxsi_is_in_subnet, naxsi_can_ignore_ip, naxsi_can_ignore_cidr).
IgnoredAsListed ==
  Loaded =>
    \A c \in Confs, ip \in Clients :
      (\A t \in ListedSubnets(c) : ~HalfMask(t))
        => (Ignored(c, ip) <=> Listed(c, ip))
=============================================================================
