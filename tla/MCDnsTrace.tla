----------------------------- MODULE MCDnsTrace -----------------------------
(* A root server; for the zone below it one server, and one that may hold   *)
(* the name's zone too; for that zone also one of its own, whose address    *)
(* comes with no referral.  A server may be lame: it serves nothing, or     *)
(* only a zone above the one it is delegated.  In MCShared the root server  *)
(* serves the zone below the root as well; and in one hosting of the other  *)
(* set a server delegated both zones below the root serves the lower alone. *)
EXTENDS DnsTrace, TLC

CONSTANTS root, tld, both, own

MCDelegates == (0 :> <<root>>) @@ (1 :> <<tld, both>>) @@ (2 :> <<both, own>>)

Hosting(r, t, b, o) == (root :> r) @@ (tld :> t) @@ (both :> b) @@ (own :> o)

MCShared == {Hosting({0, 1}, {1}, {1}, {2})}
MCHostings ==
    {Hosting({0}, t, b, o) : t \in {{}, {0}, {1}}, b \in {{}, {1}, {1, 2}}, o \in {{}, {2}}}
    \cup {Hosting({0}, {1}, {2}, {2})} \cup MCShared

MCSignings == {(0 :> "signed") @@ (1 :> a) @@ (2 :> b) :
    a \in {"signed", "unsigned", "badkeys"},
    b \in {"signed", "unsigned", "nods", "nokeys", "badsigs", "badds"}}
=============================================================================
