-------------------------------- MODULE DnsAsks --------------------------------
(***************************************************************************)
(* What the DNS tools are asked in the small world of MCReports.           *)
(***************************************************************************)
EXTENDS Integers, Sequences, FiniteSets, TLC

CONSTANT None

Zone == INSTANCE DnsSpread WITH MaxAuthoritative <- 2, MaxZoneWalk <- 3
Answers == INSTANCE AnswerSet WITH MaxLabels <- 3, MaxTypes <- 3, MaxDangling <- 1

-----------------------------------------------------------------------------
(* A name that is published, an alias of one that is, or not there at all, *)
(* and for each type a reply that is honest, blocked, or no answer.        *)

Record(t) == [type |-> t, target |-> IF t = "CNAME" THEN "alias" ELSE ""]
Zones == {[name |-> n, end |-> e, alias |-> a] : n \in BOOLEAN, e \in BOOLEAN, a \in BOOLEAN}
TrueZones == {z \in Zones : (z.alias => z.name) /\ (~z.alias => z.end = z.name)}
Published(z, held) == IF ~z.name THEN {} ELSE (IF z.end THEN held ELSE {}) \cup (IF z.alias THEN {"CNAME"} ELSE {})

Silence == [lost |-> FALSE, panics |-> FALSE, cut |-> FALSE, tcp |-> FALSE, rcode |-> "NOERROR", ad |-> FALSE,
            ede |-> None, nsid |-> "ams01", answer |-> <<>>, cd |-> None]
Honest(z, held, t, ad) ==
    [Silence EXCEPT !.ad = ad,
        !.rcode = IF z.name /\ (z.end \/ t = "CNAME") THEN "NOERROR" ELSE "NXDOMAIN",
        !.answer = (IF z.alias /\ t # "CNAME" THEN <<Record("CNAME")>> ELSE <<>>)
                   \o (IF t \in Published(z, held) THEN <<Record("RRSIG"), Record(t)>> ELSE <<>>)]
Kinds == {"honest", "over TCP", "cut", "lost", "panics", "blocked", "refused", "bogus", "silently bogus", "failed"}
Sent(kind, h) ==
    CASE kind = "honest" -> h
      [] kind = "over TCP" -> [h EXCEPT !.cut = TRUE, !.tcp = TRUE]
      [] kind = "cut" -> [h EXCEPT !.cut = TRUE]
      [] kind = "lost" -> [h EXCEPT !.lost = TRUE]
      [] kind = "panics" -> [h EXCEPT !.panics = TRUE]
      [] kind = "blocked" -> [Silence EXCEPT !.rcode = "NXDOMAIN", !.ede = "blocked"]
      [] kind = "refused" -> [Silence EXCEPT !.rcode = "REFUSED"]
      [] kind = "bogus" -> [Silence EXCEPT !.rcode = "SERVFAIL", !.cd = "NOERROR", !.ede = "bogus"]
      [] kind = "silently bogus" -> [Silence EXCEPT !.rcode = "SERVFAIL", !.cd = "NOERROR"]
      [] OTHER -> [Silence EXCEPT !.rcode = "SERVFAIL", !.ede = "unreachable"]

(* Our cache holds no answer that did not come.                            *)
Came(kind) == kind \notin {"lost", "cut", "panics"}
Target(z, held) ==
    [Silence EXCEPT !.rcode = IF z.end THEN "NOERROR" ELSE "NXDOMAIN", !.answer = IF z.end /\ "A" \in held THEN <<Record("A")>> ELSE <<>>]

World(z, held, ad, kinds, probe) ==
    [name |-> z.name, end |-> z.end, published |-> Published(z, held), cached |-> {t \in {"A", "CNAME"} : Came(kinds[t])},
     sent |-> [t \in DOMAIN kinds |-> Sent(kinds[t], Honest(z, held, t, ad \/ t = "AAAA"))],
     probes |-> [t \in {"alias"} |-> Sent(probe, Target(z, held))],
     gone |-> IF z.end THEN {} ELSE {"alias"}, probed |-> IF Came(probe) THEN {"alias"} ELSE {}]

Labels == [len : {0, 1, 63, 64}, hyphen : BOOLEAN, plain : BOOLEAN]
Good == <<[len |-> 3, hyphen |-> FALSE, plain |-> TRUE]>>
Request(labels, address, types, resolver) == [labels |-> labels, address |-> address, types |-> types, resolver |-> resolver]
Requests == {Request(Good, FALSE, t, "google") : t \in {<<>>, <<"CNAME">>, <<"AAAA", "A">>, <<"A", "ANY">>}}
            \cup {Answers!LookupEnriched(Good, FALSE, t, r) : t \in {"ALL", "", "A"}, r \in {"", "bing"}}
            \cup {Request(n \o <<l>>, FALSE, <<"A">>, "quad9") : l \in Labels, n \in {<<>>, Good \o Good, Good \o Good \o Good}}
Sensible == {Answers!LookupEnriched(Good, FALSE, t, "") : t \in {"ALL", "A"}} \cup {Request(Good, FALSE, <<"AAAA", "A">>, "google")}
Kinded(kinds) == [{"A", "AAAA", "CNAME"} -> kinds]
AnswerAsks ==
    [tool : {"dns"}, req : Sensible, zone : TrueZones, held : {{}, {"A"}}, ad : BOOLEAN, kinds : Kinded(Kinds), probe : {"honest"}]
    \cup [tool : {"dns"}, req : Sensible, zone : TrueZones, held : {{}, {"A"}}, ad : {FALSE},
          kinds : Kinded({"honest", "lost", "blocked"}), probe : Kinds \ {"panics"}]
    \cup [tool : {"dns"}, req : Requests, zone : TrueZones, held : {{}}, ad : {FALSE}, kinds : Kinded({"honest"}), probe : {"honest"}]

-----------------------------------------------------------------------------
(* A zone of two or three servers, of one provider or of two, each with a  *)
(* version of it, and two resolvers that cached one.                       *)

Reply(values, ttl) == [lost |-> FALSE, rcode |-> "NOERROR", aa |-> TRUE, values |-> values, ttl |-> ttl, cname |-> FALSE]
Up(version, turn) ==
    [holds |-> version, a |-> <<"public">>, aaaa |-> <<>>, open |-> FALSE, tcp |-> <<"ok", "ok">>,
     reply |-> Reply({version * 10 + turn}, 300), soa |-> [tcp |-> version, udp |-> version]]
Down == [Up(1, 0) EXCEPT !.holds = None]
Gone == [Down EXCEPT !.reply.lost = TRUE]
ServerKinds ==
    {Up(v, t) : v \in 1..2, t \in 0..1}
    \cup {[Up(1, 0) EXCEPT !.reply.values = {}, !.reply.rcode = "NXDOMAIN"], [Up(1, 0) EXCEPT !.open = TRUE],
          [Up(2, 0) EXCEPT !.soa = [tcp |-> 0, udp |-> 0]], [Up(1, 0) EXCEPT !.tcp = <<"timeout", "ok">>],
          [Up(1, 0) EXCEPT !.tcp = <<"timeout", "timeout">>, !.soa.udp = 0], [Up(1, 1) EXCEPT !.tcp = <<"refused", "ok">>],
          [Up(1, 0) EXCEPT !.a = <<"private">>, !.aaaa = <<"public">>]}
    \cup {[Down EXCEPT !.a = <<"private">>], [Down EXCEPT !.a = <<>>], Gone,
          [Down EXCEPT !.reply.rcode = "REFUSED", !.reply.values = {}], [Down EXCEPT !.reply.aa = FALSE, !.reply.values = {}]}
At(label, provider, asn, net, kind) == [label |-> label, provider |-> provider, asn |-> asn, net |-> net] @@ kind
Servers(x, y, z, apart) ==
    ("n1" :> At("n1", "p", "1", 1, x)) @@ ("n2" :> At("n2", IF apart THEN "q" ELSE "p", "", 1, y))
    @@ ("n3" :> At("n3", "q", "2", None, z))

Cut(names) == [ns |-> names, error |-> None]
Missed(e) == [ns |-> <<>>, error |-> e]
Walk == [cut |-> 2, walk |-> <<Missed("NODATA"), Cut(<<"n1", "n2">>)>>]
Climbs ==
    {[cut |-> IF c > n THEN 0 ELSE c, walk |-> [i \in 1..n |-> IF i = c THEN k ELSE IF i = f THEN Missed("lost") ELSE Missed(e)]] :
        n \in 1..4, c \in 0..4, f \in 0..4, e \in {"NODATA", "NXDOMAIN"},
        k \in {Missed("lost"), Cut(<<"n1">>), Cut(<<"n1", "n2">>), Cut(<<"n1", "n2", "n3">>)}} \cup {[cut |-> 0, walk |-> <<>>]}
Lost == [Reply({}, 0) EXCEPT !.lost = TRUE]
ResolverKinds == {Lost, [Reply({}, 0) EXCEPT !.rcode = "SERVFAIL"], [Reply({}, 0) EXCEPT !.rcode = "NXDOMAIN"]}
                 \cup {Reply({v}, t) : v \in {10, 20}, t \in {0, 60, 900}}
SpreadWorld(w, servers, resolvers, registry, panics) ==
    w @@ [servers |-> servers, resolvers |-> resolvers, registry |-> registry, panics |-> panics]
Calm == [auth |-> {}, res |-> {}]
SpreadAsks == [tool : {"spread"}, x : ServerKinds, y : ServerKinds, apart : BOOLEAN, first : ResolverKinds,
               second : {Reply({10}, 60), Reply({20}, 60), Lost}]
ClimbAsks == [tool : {"climb"}, climb : Climbs, x : {Up(1, 0), Gone}, y : {Up(2, 0), Up(1, 0)},
              registry : {{}, {"n1", "n2"}, {"n1", "n2", "n3"}}, panics : {Calm, [auth |-> {"n1"}, res |-> {2}]}]

ReportHolds(req, w) == Answers!ReportIsTrue(req, w, Answers!LookupSet(req, w))
ZoneHolds(w) == Zone!SpreadIsFair(w, Zone!Spread(w))
AnswerHolds(ask) ==
    /\ ask.tool = "dns" => ReportHolds(ask.req, World(ask.zone, ask.held, ask.ad, ask.kinds, ask.probe))
    /\ ask.tool = "spread" =>
        ZoneHolds(SpreadWorld(Walk, Servers(ask.x, ask.y, Up(1, 0), ask.apart), <<ask.first, ask.second>>, {"n1", "n2"}, Calm))
    /\ ask.tool = "climb" =>
        ZoneHolds(SpreadWorld(ask.climb, Servers(ask.x, ask.y, Up(1, 0), FALSE), <<Lost, Reply({10}, 60)>>, ask.registry, ask.panics))
=============================================================================
