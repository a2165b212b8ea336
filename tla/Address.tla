------------------------------ MODULE Address ------------------------------
(***************************************************************************)
(* The arithmetic of IPv4Address and IPv6Address (address.cc): broadcast,  *)
(* network and mask of a prefix, from CreateMask(), and the text that      *)
(* IPv6Address::insert() writes.  An IPv4 address is a number in host      *)
(* order, the two byteswapOnLittleEndian() of a call being each other's    *)
(* inverse; an IPv6 address is a sequence of bytes, or of groups.          *)
(*                                                                         *)
(* Prefixes: CreateMask<uint32_t>(0) shifts an int by 32, which is         *)
(* undefined: 1 << 32 is 1 where the shift instruction takes the count     *)
(* modulo 32, and 0 where the compiler folds it.  The IPv6 calls test no   *)
(* prefix, and one of 128 or more reaches s6_addr[16], behind the address, *)
(* where sin6_scope_id lies; here its bytes follow those of the address.   *)
(* Not here: an IPv4 prefix above 32 (broadcast and network return         *)
(* nullptr, subnetMask() shifts by a negative number) and an IPv6 prefix   *)
(* of 160 or more, which writes behind the object.                         *)
(***************************************************************************)
EXTENDS Integers, Sequences, SequencesExt

CONSTANTS
    V4Bits,       \* bits of an IPv4 address, 32
    V6Bytes,      \* bytes of an IPv6 address, 16
    V6Scope,      \* bytes of the sin6_scope_id behind it, 4
    V6Bits,       \* bits of each, 8
    V6Groups      \* groups in the text of an IPv6 address, 8

ASSUME AddressConstants ==
    /\ V4Bits \in Nat \ {0} /\ V6Bytes \in Nat \ {0} /\ V6Bits \in Nat \ {0}
    /\ V6Groups \in Nat \ {0} /\ V6Scope \in Nat

VARIABLE
    asked         \* the address and the prefix, or the groups, of the last call

\* shifted: what 1 << 32 is, if the prefix is 0.
V4Calls == [family : {"IPv4"}, address : 0 .. 2 ^ V4Bits - 1, prefix_len : 0 .. V4Bits,
            shifted : {0, 1}]

\* The address and the scope id, which getifaddrs() fills in.
V6Calls == [family : {"IPv6"}, address : [1 .. V6Bytes + V6Scope -> 0 .. 2 ^ V6Bits - 1],
            prefix_len : 0 .. V6Bits * (V6Bytes + V6Scope) - 1]

\* Only whether a group is zero matters for the text.
TextCalls == [family : {"text"}, groups : [1 .. V6Groups -> {0, 1}]]

AddressInit == asked = [family |-> "none"]

AskPrefix == asked' \in V4Calls \cup V6Calls

AskText == asked' \in TextCalls

AddressNext == AskPrefix \/ AskText

AddressSpec == AddressInit /\ [][AddressNext]_asked
-----------------------------------------------------------------------------
\* Faulty variant: the mask of the network instead of that of the hosts.
CreateMaskNetwork(width, bits) == 2 ^ width - 2 ^ (width - bits)

\* CreateMask<T>(bits), T having width bits: ones for the hosts.
CreateMask(width, bits) == 2 ^ (width - bits) - 1

\* Bit i of a number of the given width, the first being the highest.
BitOf(n, width, i) == (n \div 2 ^ (width - i)) % 2

OfBits(width, bit) ==
    CHOOSE n \in 0 .. 2 ^ width - 1 : \A i \in 1 .. width : BitOf(n, width, i) = bit[i]

\* |, & and ~.
Or(width, m, n)  == OfBits(width, [i \in 1 .. width |->
                        IF BitOf(m, width, i) = 1 \/ BitOf(n, width, i) = 1 THEN 1 ELSE 0])
And(width, m, n) == OfBits(width, [i \in 1 .. width |->
                        IF BitOf(m, width, i) = 1 /\ BitOf(n, width, i) = 1 THEN 1 ELSE 0])
Complement(width, n) == 2 ^ width - 1 - n

\* CreateMask<uint32_t>(prefix): 0 - 1 is all ones, 1 - 1 none.
V4Mask(prefix, shifted) ==
    IF prefix = 0 /\ shifted = 1 THEN 0 ELSE CreateMask(V4Bits, prefix)

V4Broadcast(a, prefix, shifted) == Or(V4Bits, a, V4Mask(prefix, shifted))
V4Network(a, prefix, shifted)   == And(V4Bits, a, V4Mask(prefix, shifted))
V4Subnet(prefix, shifted)       == Complement(V4Bits, V4Mask(prefix, shifted))

\* s6_addr[prefix_len / 8], counted from 1.
Boundary(prefix) == prefix \div V6Bits + 1

V6Mask(prefix) == CreateMask(V6Bits, prefix % V6Bits)

V6Broadcast(a, prefix) ==
    [i \in 1 .. V6Bytes + V6Scope |->
        IF i = Boundary(prefix) THEN Or(V6Bits, a[i], V6Mask(prefix))
        ELSE IF i > Boundary(prefix) /\ i <= V6Bytes THEN 2 ^ V6Bits - 1
        ELSE a[i]]

V6Network(a, prefix) ==
    [i \in 1 .. V6Bytes + V6Scope |->
        IF i = Boundary(prefix) THEN And(V6Bits, a[i], V6Mask(prefix))
        ELSE IF i > Boundary(prefix) /\ i <= V6Bytes THEN 0
        ELSE a[i]]

V6Subnet(prefix) ==
    [i \in 1 .. V6Bytes + V6Scope |->
        IF i = Boundary(prefix) THEN Complement(V6Bits, V6Mask(prefix))
        ELSE IF i < Boundary(prefix) THEN 2 ^ V6Bits - 1
        ELSE 0]

Colon == -1

\* Faulty variant: every run of zeros is left out.
InsertGroupAgain(text, g, i) ==
    LET gap == i > 1 /\ g[i - 1] = 0
    IN  IF g[i] = 0
          THEN text
          ELSE [out |-> text.out \o (IF gap THEN <<Colon>> ELSE <<>>)
                                 \o (IF i > 1 THEN <<Colon>> ELSE <<>>) \o <<g[i]>>,
                used_zeros |-> text.used_zeros \/ gap]

\* A turn of the loop of IPv6Address::insert(), lines 484-500.
InsertGroup(text, g, i) ==
    LET gap == i > 1 /\ g[i - 1] = 0 /\ ~ text.used_zeros
    IN  IF g[i] = 0 /\ ~ text.used_zeros
          THEN text
          ELSE [out |-> text.out \o (IF gap THEN <<Colon>> ELSE <<>>)
                                 \o (IF i > 1 THEN <<Colon>> ELSE <<>>) \o <<g[i]>>,
                used_zeros |-> text.used_zeros \/ gap]

\* All of it.
Text(g) ==
    LET after[i \in 0 .. V6Groups] ==
            IF i = 0 THEN [out |-> <<>>, used_zeros |-> FALSE] ELSE InsertGroup(after[i - 1], g, i)
        text == after[V6Groups]
    IN  IF ~ text.used_zeros /\ g[V6Groups] = 0 THEN text.out \o <<Colon, Colon>> ELSE text.out
-----------------------------------------------------------------------------
(* Properties.                                                             *)

\* The bits of an address, whose first prefix_len are the network.
V4Bit(a) == [i \in 1 .. V4Bits |-> BitOf(a, V4Bits, i)]
V6Bit(a) == [i \in 1 .. V6Bits * V6Bytes |->
                BitOf(a[(i - 1) \div V6Bits + 1], V6Bits, ((i - 1) % V6Bits) + 1)]

InNetwork(bit, prefix, host) == [i \in DOMAIN bit |-> IF i <= prefix THEN bit[i] ELSE host]
Marked(bit, prefix)          == [i \in DOMAIN bit |-> IF i <= prefix THEN 1 ELSE 0]

\* Behind the address: the scope id.
SameScope(a, b) == \A i \in V6Bytes + 1 .. V6Bytes + V6Scope : a[i] = b[i]

\* What broadcastAddress() keeps of an address and what subnetMask() marks are its
\* network, bit by bit, for every prefix: none, all, or one that ends inside a byte.
\* The exceptions:
\*   - networdAddress() is to be the network ("获取该地址的网段", address.h:137), but masks
\*     with the hosts' bits: it is right only where the bits it touches are all zero,
\*     or where it touches none;
\*   - an IPv4 prefix of 0 where 1 << 32 is 1 (address.cc:18): then the mask is empty,
\*     and broadcast and subnet are those of a prefix of all bits;
\*   - an IPv6 prefix of all bits or more, which may change the scope id (the address
\*     comes out right).
PrefixExact ==
    /\ asked.family = "IPv4" =>
         LET a == asked.address  p == asked.prefix_len  shifted == asked.shifted
             bit == V4Bit(a)     taken == IF p = 0 /\ shifted = 1 THEN V4Bits ELSE p
         IN  /\ V4Bit(V4Broadcast(a, p, shifted)) = InNetwork(bit, taken, 1)
             /\ V4Bit(V4Subnet(p, shifted)) = Marked(bit, taken)
             /\ V4Bit(V4Network(a, p, shifted)) = InNetwork(bit, p, 0) <=> taken # p \/ a = 0
    /\ asked.family = "IPv6" =>
         LET a == asked.address  p == asked.prefix_len  bit == V6Bit(a)
             behind == p >= V6Bits * V6Bytes
         IN  /\ V6Bit(V6Broadcast(a, p)) = InNetwork(bit, p, 1)
             /\ V6Bit(V6Subnet(p)) = Marked(bit, p)
             /\ V6Bit(V6Network(a, p)) = InNetwork(bit, p, 0) <=> behind \/ a[Boundary(p)] = 0
             /\ ~ behind => SameScope(V6Broadcast(a, p), a) /\ SameScope(V6Network(a, p), a)

\* The groups from i to j with colons between them.
Joined(g, i, j) ==
    FlattenSeq([k \in 1 .. (IF i > j THEN 0 ELSE j - i + 1) |->
                  IF k = 1 THEN <<g[i]>> ELSE <<Colon, g[i + k - 1]>>])

\* A text denotes an address: all its groups, or "::" for one run of zeros.
Denotes(text, g) ==
    \/ text = Joined(g, 1, V6Groups)
    \/ \E i, j \in 1 .. V6Groups :
         /\ i <= j /\ \A k \in i .. j : g[k] = 0
         /\ text = Joined(g, 1, i - 1) \o <<Colon, Colon>> \o Joined(g, j + 1, V6Groups)

\* The text that insert() writes is read back as the same address, wherever its zeros
\* are: one run of them is left out, the first, and the others are written.
TextExact == asked.family = "text" => Denotes(Text(asked.groups), asked.groups)
=============================================================================
