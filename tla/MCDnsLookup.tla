---------------------------- MODULE MCDnsLookup ----------------------------
(* Two lookups, made again and again, over two questions, a cache of one    *)
(* entry: waiters, a full map, TTLs below, within and above the clamp.  The *)
(* clock goes past the life of a negative and of a clamped short TTL.       *)
EXTENDS DnsLookup
=============================================================================
