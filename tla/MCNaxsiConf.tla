---------------------------- MODULE MCNaxsiConf -----------------------------
(***************************************************************************)
(* Instances of NaxsiConf: a location in a server in http, and addresses   *)
(* of two bits (IPv4) and of two words of two bits (IPv6).                 *)
(***************************************************************************)
EXTENDS NaxsiConf

CONSTANTS http, srv, loc, url, other_url, file

ParentDef == [c \in {srv, loc} |-> IF c = loc THEN srv ELSE http]

R(zones, wl) == [zones |-> zones, wl |-> wl, valid |-> TRUE]

RulesDef ==
  [args_rule  |-> R({"args"}, FALSE),
   wide_rule  |-> R({"headers_var", "body", "url", "raw_body"}, FALSE),
   body_rule  |-> R({"body_var", "args_var"}, FALSE),
   whitelist  |-> R({"url", "args"}, TRUE),
   bad_rule   |-> [zones |-> {}, wl |-> FALSE, valid |-> FALSE]]

CheckRulesDef == [block_rule |-> TRUE, bad_check |-> FALSE]

V4(b) == [version |-> "IPv4", bits |-> b]
V6(b) == [version |-> "IPv6", bits |-> b]
Addresses == {V4(b) : b \in [1 .. 2 -> {0, 1}]} \cup
             {V6(b) : b \in [1 .. 4 -> {0, 1}]}

IpTextsDef == {NoIp, V4(<<0, 1>>), V6(<<0, 1, 1, 0>>)}

T(net, mask) == [net |-> net, mask |-> mask]

\* A mask of 0, shorter than, as long as and longer than a word, one too long,
\* and "/20", which begins with "/2".
CidrTextsDef ==
  {T(V4(<<1, 0>>), m) : m \in {0, 1, 20}} \cup
  {T(V6(<<0, 1, 1, 0>>), m) : m \in {1, 2, 3, 5}} \cup {T(NoIp, 1)}
=============================================================================
