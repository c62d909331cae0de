-------------------------- MODULE MCConnectionGuard --------------------------
(* Two hosts, one of which also shows up as an IPv4-mapped IPv6 address,    *)
(* and the loopback address.                                                *)
EXTENDS ConnectionGuard

CONSTANTS v4, mapped, other, loopback

MCCanonical == [a \in Addr |-> IF a = mapped THEN v4 ELSE a]
=============================================================================
