------------------------------- MODULE DnsSpread -------------------------------
(***************************************************************************)
(* The consistency check (src/tools/dnstools/spread.go): a zone's own      *)
(* nameservers and the public resolvers, asked the same question, and what *)
(* is said of the zone from their answers.                                 *)
(*                                                                         *)
(* A set of values is a set.  A nameserver ns is [label, provider, asn,    *)
(* net] and what it does: [a, aaaa, reply, open, tcp, soa], its address    *)
(* records as a sequence of "public" and "private", its reply [lost,       *)
(* rcode, aa, values, ttl, cname], whether it recurses for us, what        *)
(* becomes of two TCP queries and the serial read over TCP or UDP, 0 for   *)
(* none.  A resolver is its reply.                                         *)
(***************************************************************************)
EXTENDS Integers, Sequences, FiniteSets, SequencesExt, FiniteSetsExt

CONSTANTS None,
          MaxAuthoritative, MaxZoneWalk

-----------------------------------------------------------------------------
(* Who is asked.                                                           *)

NotFound == {"NXDOMAIN", "NODATA"}
\* Mutant: only the last lookup of the walk counts.
WalkErrorLast(outcomes) == Last(outcomes)
\* A lookup that failed hides a cut: what was not read is not "none".
WalkError(outcomes) ==
    IF \E i \in DOMAIN outcomes : outcomes[i] \notin NotFound THEN "unread" ELSE Last(outcomes)

(* walk[i] is what the NS lookup of the i-th name up from the asked one    *)
(* gives, its last the registrable domain: [ns, error].  Without a         *)
(* registrable domain there is no walk.                                    *)
ZoneNameservers(walk) ==
    LET tried == SubSeq(walk, 1, IF Len(walk) < MaxZoneWalk THEN Len(walk) ELSE MaxZoneWalk)
        cuts == {i \in DOMAIN tried : tried[i].error = None}
        errors == [i \in DOMAIN tried |-> tried[i].error]
        cut == Min(cuts)
        total == Len(tried[cut].ns)
        Nothing(error) == [names |-> <<>>, zone |-> 0, total |-> 0, error |-> error]
    IN  IF walk = <<>> THEN Nothing("NODATA")
        ELSE IF cuts # {} THEN [names |-> SubSeq(tried[cut].ns, 1, IF total < MaxAuthoritative THEN total ELSE MaxAuthoritative),
                                zone |-> cut, total |-> total, error |-> None]
        ELSE Nothing(IF Len(walk) > MaxZoneWalk /\ WalkError(errors) # "unread" THEN "NODATA" ELSE WalkError(errors))

(* The first routable address, A before AAAA; the zone is the caller's.    *)
NameserverAddress(ns) ==
    LET records == ns.a \o ns.aaaa
    IN  IF records = <<>> THEN "none" ELSE IF "public" \in ToSet(records) THEN "public" ELSE "private"

-----------------------------------------------------------------------------
(* What each says.                                                         *)

Silent == [error |-> None, values |-> {}, ttl |-> 0, cname |-> FALSE, rcode |-> "", serial |-> 0,
           open |-> FALSE, tcpFail |-> FALSE, tcpRefused |-> FALSE]
Heard(r) == [Silent EXCEPT !.values = r.values, !.ttl = r.ttl, !.cname = r.cname, !.rcode = r.rcode]

(* Lame: delegated the zone and not serving it.                            *)
Lame(r) == r.rcode \in {"REFUSED", "SERVFAIL", "NOTAUTH"} \/ (~r.aa /\ r.values = {} /\ ~r.cname)

(* One timeout over TCP is tried again, and the serial then asked over UDP.*)
TcpTry(ns) == IF ns.tcp[1] = "timeout" THEN ns.tcp[2] ELSE ns.tcp[1]
AskAuthoritative(ns) ==
    LET r == ns.reply
        tcp == TcpTry(ns)
    IN  CASE NameserverAddress(ns) = "none" -> [Silent EXCEPT !.error = "no address"]
          [] NameserverAddress(ns) = "private" -> [Silent EXCEPT !.error = "not probed"]
          [] r.lost -> [Silent EXCEPT !.error = "no response"]
          [] Lame(r) -> [Heard(r) EXCEPT !.error = "lame"]
          [] OTHER -> [Heard(r) EXCEPT !.open = ns.open, !.tcpFail = tcp # "ok", !.tcpRefused = tcp = "refused",
                                       !.serial = IF tcp = "ok" THEN ns.soa.tcp ELSE ns.soa.udp]
AskResolver(r) ==
    IF r.lost THEN [Silent EXCEPT !.error = "no response"]
    ELSE [Heard(r) EXCEPT !.error = IF r.rcode \in {"REFUSED", "SERVFAIL"} THEN r.rcode ELSE None]

(* A probe that panics leaves its slot in error.                           *)
Probed(panicked, answer) == IF panicked THEN [Silent EXCEPT !.error = "panic"] ELSE answer

-----------------------------------------------------------------------------
(* What is said of them.                                                   *)

UnanimousRcode(all) ==
    LET codes == {a.rcode : a \in all} \ {""} IN IF Cardinality(codes) = 1 THEN CHOOSE c \in codes : TRUE ELSE ""
Speaks(a) == a.error = None /\ a.values # {}
AnswerGroups(said) == {[values |-> v, servers |-> {i \in DOMAIN said : Speaks(said[i]) /\ said[i].values = v}] :
                           v \in {said[i].values : i \in {j \in DOMAIN said : Speaks(said[j])}}}
Largest(S) == IF S = {} THEN 0 ELSE Max(S)

(* Independent providers keep independent serials, so both serials and     *)
(* answers are compared within one.                                        *)
SameProvider(ns, S) == {p \in S \X S : ns[p[1]].provider = ns[p[2]].provider}
Summarise(ns, auth, res) ==
    LET live == {i \in DOMAIN auth : auth[i].error = None}
        serials == {i \in live : auth[i].serial # 0}
        speak == {i \in live : auth[i].values # {}}
        zone == {auth[i].values : i \in speak}
        agree == \A p \in SameProvider(ns, serials) : auth[p[1]].serial = auth[p[2]].serial
        split == \E p \in SameProvider(ns, speak) : auth[p[1]].values # auth[p[2]].values
        hear == {i \in DOMAIN res : Speaks(res[i])}
        seen == {res[i].values : i \in hear}
        \* Only a unanimous zone has a TTL to measure cache age against.
        ttl == IF Cardinality(zone) = 1 THEN Max({auth[i].ttl : i \in speak}) ELSE 0
    IN  [asked |-> Len(auth) + Len(res), rcode |-> UnanimousRcode(Range(auth \o res)),
         answered |-> Cardinality(speak) + Cardinality(hear),
         groups |-> AnswerGroups(auth \o res), consistent |-> Cardinality(AnswerGroups(auth \o res)) = 1,
         serialsAgree |-> agree, serialsSeen |-> Cardinality(serials),
         multiProvider |-> Cardinality({ns[i].provider : i \in serials}) > 1,
         authAnswered |-> Cardinality(speak), authConsistent |-> Cardinality(zone) <= 1,
         rotation |-> split /\ agree /\ Cardinality(serials) > 1,
         cacheAge |-> [i \in DOMAIN res |-> IF i \in hear /\ {res[i].values} = zone /\ res[i].ttl \in 1..ttl
                                            THEN ttl - res[i].ttl ELSE None],
         staleFor |-> Largest({res[i].ttl : i \in hear}), resolverGroups |-> Cardinality(seen),
         resolversStale |-> Cardinality(seen) = 1 /\ Cardinality(zone) = 1 /\ seen # zone]

Note(level, about) == [level |-> level, about |-> about]
(* RFC 2182: two nameservers at least, that do not share a fate.           *)
Delegated(n, live, error) ==
    CASE n = 0 /\ error = "NODATA" -> Note("warn", "no cut")
      [] n = 0 /\ error = "unread" -> Note("warn", "not read")
      [] n = 0 -> Note("fail", "none delegated")
      [] live = 0 -> Note("fail", "none answered")
      [] n = 1 -> Note("fail", "only one")
      [] live = 1 -> Note("fail", "one left")
      [] OTHER -> Note("ok", "survives")
Health(auth, error) ==
    {Delegated(Len(auth), Cardinality({i \in DOMAIN auth : auth[i].error = None}), error)}
    \cup (IF \E i \in DOMAIN auth : auth[i].open THEN {Note("fail", "open resolver")} ELSE {})
    \cup (IF \E i \in DOMAIN auth : auth[i].tcpFail THEN {Note("warn", "no TCP")} ELSE {})

(* An unknown network is "", and an address of no IPv4 /24 a net of None.  *)
Spreading(ns, auth) ==
    LET live == {i \in DOMAIN auth : auth[i].error = None}
        asns == {ns[i].asn : i \in live} \ {""}
        nets == {ns[i].net : i \in live}
    IN  (CASE Cardinality(live) < 2 \/ asns = {} -> {}
           [] Cardinality(asns) = 1 -> {Note("warn", "one network")}
           [] OTHER -> {Note("ok", "networks")})
        \cup (IF Cardinality(live) > 1 /\ Cardinality(nets) = 1 /\ None \notin nets /\ Cardinality(asns) <= 1
              THEN {Note("warn", "one rack")} ELSE {})
Registered(ns, registry, total) ==
    CASE registry = {} -> {}
      [] \E i \in DOMAIN ns : ns[i].label \notin registry -> {Note("warn", "not listed")}
      [] total > Len(ns) -> {}
      [] Cardinality(registry) # total -> {Note("warn", "listed and not served")}
      [] OTHER -> {Note("ok", "registry")}

Spread(w) ==
    LET zone == ZoneNameservers(w.walk)
        ns == [i \in DOMAIN zone.names |-> w.servers[zone.names[i]]]
        auth == [i \in DOMAIN ns |-> Probed(ns[i].label \in w.panics.auth, AskAuthoritative(ns[i]))]
        res == [i \in DOMAIN w.resolvers |-> Probed(i \in w.panics.res, AskResolver(w.resolvers[i]))]
    IN  Summarise(ns, auth, res) @@
        [zone |-> zone.zone, truncated |-> zone.total > Len(zone.names), ns |-> ns, auth |-> auth, res |-> res,
         health |-> Health(auth, zone.error) \cup Spreading(ns, auth)
                    \cup Registered(ns, IF zone.zone = 0 THEN {} ELSE w.registry, zone.total)]

-----------------------------------------------------------------------------
(* The promise, of a world whose zone is truly cut at w.cut, 0 for not at  *)
(* all, and whose servers say what their version of it holds, in turns     *)
(* when they rotate.  A zone is called undelegated only if it is, not when *)
(* a lookup on the way up was lost; it survives a loss just when two of    *)
(* those asked serve it; a rotation is told from a rollout where the       *)
(* serials are read; "still cached" is said only of resolvers that agree   *)
(* with each other and not with servers that agree; an age only of what    *)
(* all servers still say; a registry that matches lists just what the zone *)
(* does; nothing is heard from an address that is not public, and no one   *)
(* is accused of closing TCP for one timeout (spread.go:124).  s is the    *)
(* report of w.                                                            *)
SpreadIsFair(w, s) ==
    LET asked == DOMAIN s.ns
        Serves(i) == "public" \in ToSet(s.ns[i].a \o s.ns[i].aaaa) /\ ~s.ns[i].reply.lost /\ s.ns[i].holds # None
                     /\ s.ns[i].label \notin w.panics.auth
        serving == {i \in asked : Serves(i)}
        spoke == {i \in serving : s.auth[i].values # {}}
        Says(about) == \E n \in s.health : n.about = about
        pairs == SameProvider(s.ns, serving)
        rollout == \E p \in pairs : s.ns[p[1]].holds # s.ns[p[2]].holds
        speaking == SameProvider(s.ns, spoke)
        turns == \E p \in speaking : s.ns[p[1]].holds = s.ns[p[2]].holds /\ s.auth[p[1]].values # s.auth[p[2]].values
        read == \A i \in serving : s.auth[i].serial # 0
        heard == {i \in DOMAIN s.res : Speaks(s.res[i])}
    IN  /\ Says("none delegated") => w.cut = 0
        /\ s.zone # 0 => /\ Says("survives") <=> Cardinality(serving) > 1
                         /\ Says("none answered") <=> serving = {}
        /\ read => (s.rotation <=> turns /\ ~rollout)
        /\ s.serialsAgree => s.rotation \/ ~read \/ \A p \in speaking : s.auth[p[1]].values = s.auth[p[2]].values
        /\ s.resolversStale => /\ heard # {} /\ spoke # {}
                               /\ \A i \in heard, j \in heard, k \in spoke :
                                    s.res[i].values = s.res[j].values /\ s.res[i].values # s.auth[k].values
        /\ \A i \in DOMAIN s.res : s.cacheAge[i] # None =>
               spoke # {} /\ (\A k \in spoke : s.auth[k].values = s.res[i].values) /\ s.cacheAge[i] >= 0
        /\ s.consistent => \A i, j \in heard : s.res[i].values = s.res[j].values
        /\ Says("registry") => w.registry = {s.ns[i].label : i \in asked}
        /\ ~s.truncated /\ s.zone # 0 /\ w.registry = {s.ns[i].label : i \in asked} => Says("registry")
        /\ \A i \in asked : /\ s.auth[i].rcode # "" => NameserverAddress(s.ns[i]) = "public"
                            /\ s.auth[i].tcpFail => s.ns[i].tcp \in {<<"refused", "ok">>, <<"timeout", "timeout">>}
=============================================================================
