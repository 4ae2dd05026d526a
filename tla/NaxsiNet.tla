------------------------------ MODULE NaxsiNet ------------------------------
(***************************************************************************)
(* Addresses and CIDRs of the ignore lists (naxsi_net.c).                  *)
(*                                                                         *)
(* An address is its version and its bits, bit 1 the highest; a mask is    *)
(* the set of the bits that are set in it.  A text is the address it       *)
(* spells, or NoIp; inet_pton and inet_ntop, which give each address one   *)
(* spelling, are external.                                                 *)
(***************************************************************************)
EXTENDS Integers

CONSTANTS
  Width4,   \* the bits of an IPv4 address: 32
  Half,     \* the bits of one of the two words of an IPv6 address: 64
  NoIp,     \* a text that is no address
  NoMask    \* a CIDR without a slash

ASSUME WidthsAssumption == Width4 \in Nat \ {0} /\ Half \in Nat \ {0}

Versions == {"IPv4", "IPv6"}
Width(version) == IF version = "IPv6" THEN 2 * Half ELSE Width4

Ips == UNION {[version : {v}, bits : [1 .. Width(v) -> {0, 1}]] : v \in Versions}

Cidrs == [subnet : Ips, mask : SUBSET Nat]

\* All ones shifted left by n, in a word of w bits: as it is undefined to
\* shift by the whole width, what the machine does then is left open (x86
\* and ARM shift by n modulo w, a compiler may as well have 0).
Shifted(w, n) ==
  IF n < w THEN {1 .. w - n} ELSE {1 .. w, {}}

\* Mutant of cidr_masks: a mask of more than one word loses the first.
cidr_masks_low_word(version, mask) ==
  IF version = "IPv6" /\ mask > Half - 1
  THEN {{Half + i : i \in low} : low \in Shifted(Half, 2 * Half - mask)}
  ELSE Shifted(IF version = "IPv6" THEN Half ELSE Width4,
               (IF version = "IPv6" THEN Half ELSE Width4) - mask)

\* What naxsi_parse_cidr makes of the number after the slash, once checked.
cidr_masks(version, mask) ==
  IF version = "IPv4" THEN Shifted(Width4, Width4 - mask)
  ELSE IF mask > Half - 1
       THEN {(1 .. Half) \cup {Half + i : i \in low} :
               low \in Shifted(Half, 2 * Half - mask)}
       ELSE Shifted(Half, Half - mask)

\* The numbers naxsi_parse_cidr lets pass.
ValidMask(version, mask) == mask # NoMask /\ mask # 0 /\ mask <= Width(version)

\* Every value naxsi_parse_cidr may give a text: none if it is refused.
naxsi_parse_cidr(net, mask) ==
  IF net = NoIp THEN {}
  ELSE IF ~ValidMask(net.version, mask) THEN {}
       ELSE {[subnet |-> net, mask |-> m] : m \in cidr_masks(net.version, mask)}

\* (ip & mask) == (subnet & mask)
naxsi_is_in_subnet(cidr, ip) ==
  /\ cidr.subnet.version = ip.version
  /\ \A i \in cidr.mask : ip.bits[i] = cidr.subnet.bits[i]

\* What net/mask means: its first bits are those of the network.
HasPrefix(ip, net, mask) ==
  ip.version = net.version /\ \A i \in 1 .. mask : ip.bits[i] = net.bits[i]
=============================================================================
