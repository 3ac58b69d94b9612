-------------------------------- MODULE Cidr --------------------------------
(***************************************************************************)
(* Address ranges: htaccess_cidr.c, and the three ways in which directives *)
(* read a list of them (Allow/Deny from, Require ip, trusted proxies).     *)
(*                                                                         *)
(* An address is its family and its octets, most significant first, as the *)
(* text has them; the widths are parameters, so that all addresses of a    *)
(* small family can be enumerated.  A text that names an address or a      *)
(* range is a record:                                                      *)
(*   form "all" | "v4" | "v6" | "bad"   what the parser finds in it;       *)
(*   o    the octets written (fewer than Octets4 for "10.1")               *)
(*   len  the prefix after "/", or NoLen when there is none.               *)
(***************************************************************************)
EXTENDS Integers, Sequences, SequencesExt, FiniteSetsExt

CONSTANTS
    OctetBits,   \* 8 in the code
    Octets4,     \* octets of an IPv4 address, 4 in the code
    Octets6      \* octets of an IPv6 address, 16 in the code

ASSUME CidrAssumption ==
    OctetBits \in Nat \ {0} /\ Octets4 \in Nat \ {0} /\ Octets6 \in Nat \ {0}

NoLen == -1
Octet == 0 .. 2^OctetBits - 1
Text(form, o, len) == [form |-> form, o |-> o, len |-> len]
V4(o) == Text("v4", o, NoLen)
V6(o) == Text("v6", o, NoLen)
BadText == Text("bad", <<>>, NoLen)

\* The number an IPv4 address is kept as, in host byte order.
Number(o) == FoldLeft(LAMBDA acc, d : acc * 2^OctetBits + d, 0, o)

\* ip_parse: exactly Octets4 octets, no prefix.
IpParses(t) == t.form = "v4" /\ Len(t.o) = Octets4 /\ t.len = NoLen
Ip6Parses(t) == t.form = "v6" /\ Len(t.o) = Octets6 /\ t.len = NoLen

(***************************************************************************)
(* cidr_parse: "all" is the range of prefix 0; a plain address has the     *)
(* full prefix; an address that is not complete, or a prefix above the     *)
(* width, is refused (ok = FALSE).  ip & mask clears the bits below the    *)
(* prefix.                                                                 *)
(***************************************************************************)
Bits4 == OctetBits * Octets4
ClearBelow(n, width, prefix) == n - (n % 2^(width - prefix))

CidrParse(t) ==
    LET prefix == IF t.len = NoLen THEN Bits4 ELSE t.len IN
    CASE t.form = "all" -> [ok |-> TRUE, network |-> 0, prefix |-> 0]
      [] t.form = "v4" /\ Len(t.o) = Octets4 /\ prefix <= Bits4 ->
           [ok |-> TRUE, network |-> ClearBelow(Number(t.o), Bits4, prefix), prefix |-> prefix]
      [] OTHER -> [ok |-> FALSE]

CidrMatch(c, n) == ClearBelow(n, Bits4, c.prefix) = ClearBelow(c.network, Bits4, c.prefix)

(***************************************************************************)
(* cidr_v6_parse: "all" is not known here.  The octets after the prefix    *)
(* are zeroed, the octet the prefix ends in keeps its upper bits.          *)
(***************************************************************************)
KeepBits(d, bits) == ClearBelow(d, OctetBits, bits)
MaskOctets(o, prefix) ==
    [i \in 1 .. Octets6 |->
        LET full == prefix \div OctetBits
            rest == prefix % OctetBits
        IN  CASE i <= full                  -> o[i]
              [] i = full + 1 /\ rest > 0   -> KeepBits(o[i], rest)
              [] OTHER                      -> 0]

Cidr6Parse(t) ==
    LET prefix == IF t.len = NoLen THEN OctetBits * Octets6 ELSE t.len IN
    IF t.form = "v6" /\ Len(t.o) = Octets6 /\ prefix <= OctetBits * Octets6
    THEN [ok |-> TRUE, network |-> MaskOctets(t.o, prefix), prefix |-> prefix]
    ELSE [ok |-> FALSE]

\* cidr_v6_match compares the whole octets, then the upper bits of the next.
Cidr6Match(c, o) ==
    LET full == c.prefix \div OctetBits
        rest == c.prefix % OctetBits
    IN  /\ \A i \in 1 .. full : o[i] = c.network[i]
        /\ rest > 0 => KeepBits(o[full + 1], rest) = KeepBits(c.network[full + 1], rest)

(***************************************************************************)
(* One Allow/Deny from value against the client (exec_acl): "all" matches  *)
(* whatever the family; a value the parser refuses matches nobody.         *)
(***************************************************************************)
RuleMatches4(t, n) == t.form = "all" \/ (CidrParse(t).ok /\ CidrMatch(CidrParse(t), n))
RuleMatches6(t, o) == t.form = "all" \/ (Cidr6Parse(t).ok /\ Cidr6Match(Cidr6Parse(t), o))

(***************************************************************************)
(* One word of a Require ip list.  For an IPv4 client a word without "/"   *)
(* is completed with zero octets and takes the prefix its octets imply     *)
(* (10 -> 10.0.0.0/8); with "/" it must be complete.                       *)
(***************************************************************************)
Padded(t) ==
    IF t.form = "v4" /\ t.len = NoLen /\ Len(t.o) \in 1 .. Octets4
    THEN Text("v4", t.o \o [i \in 1 .. Octets4 - Len(t.o) |-> 0], OctetBits * Len(t.o))
    ELSE t

InList4(list, n) ==
    \E i \in 1 .. Len(list) : LET c == CidrParse(Padded(list[i])) IN c.ok /\ CidrMatch(c, n)
InList6(list, o) ==
    \E i \in 1 .. Len(list) : LET c == Cidr6Parse(list[i]) IN c.ok /\ Cidr6Match(c, o)

(***************************************************************************)
(* bc_ip_in_cidrs, the bot challenge's trusted proxies: the list is read   *)
(* at each request, and only ranges and peers of IPv4 are in it.           *)
(***************************************************************************)
IpInCidrs(list, t) ==
    /\ CidrParse(t).ok
    /\ \E i \in 1 .. Len(list) :
        LET c == CidrParse(list[i]) IN c.ok /\ CidrMatch(c, CidrParse(t).network)

(***************************************************************************)
(* The reference: a range holds the addresses of its family that begin     *)
(* with its first len bits.                                                *)
(***************************************************************************)
Bit(o, i) == (o[(i \div OctetBits) + 1] \div 2^(OctetBits - 1 - (i % OctetBits))) % 2
SharesPrefix(a, b, len) == \A i \in 0 .. len - 1 : Bit(a, i) = Bit(b, i)
=============================================================================
