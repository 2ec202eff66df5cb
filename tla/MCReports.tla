------------------------------- MODULE MCReports -------------------------------
(***************************************************************************)
(* The reports, each asked about every input of a small world.             *)
(***************************************************************************)
EXTENDS Reports, TLC

VARIABLE tool \* whose request is to come

-----------------------------------------------------------------------------
(* Cleaning: a tracker, an affiliate tag, a family with a denied member, a *)
(* signature, a wrapper's parameters, names with an upper-case form, and a *)
(* wrapper whose whole query is the target.                                *)

CleanKeys == {"", "A", "a", "fbclid", "pd_tag", "pd_keep", "sig", "sv", "u", "U", "d", "https:"}
Pattern(open, name) == [open |-> open, name |-> name]
CleanTables ==
    [tracking |-> <<[param |-> "pd_", prefix |-> TRUE, hosts |-> {}, class |-> "session"],
                    [param |-> "pd_tag", prefix |-> FALSE, hosts |-> {Pattern(TRUE, <<"shop">>)}, class |-> "affiliate"],
                    [param |-> "fbclid", prefix |-> FALSE, hosts |-> {}, class |-> "click"],
                    [param |-> "pd_keep", prefix |-> FALSE, hosts |-> {}, class |-> "click"]>>,
     deny |-> {[param |-> "pd_k", prefix |-> TRUE, hosts |-> {Pattern(FALSE, <<"shop", "com">>)}]},
     wrappers |-> <<[name |-> "shim", hosts |-> {Pattern(FALSE, <<"w", "com">>)}, path |-> <<"l">>,
                     shape |-> "param", params |-> <<"u", "d">>, partial |-> FALSE],
                    [name |-> "mimecast", hosts |-> {Pattern(FALSE, <<"w", "com">>)}, path |-> <<>>,
                     shape |-> "param", params |-> <<"d">>, partial |-> TRUE],
                    [name |-> "tail", hosts |-> {Pattern(FALSE, <<"t", "com">>)}, path |-> <<>>,
                     shape |-> "path", params |-> <<>>, partial |-> FALSE],
                    [name |-> "bare", hosts |-> {Pattern(FALSE, <<"h", "com">>)}, path |-> <<>>,
                     shape |-> "query", params |-> <<>>, partial |-> FALSE]>>]
CleanRank == [k \in CleanKeys |->
    CASE k = "" -> 0 [] k = "A" -> 1 [] k = "U" -> 2 [] k = "a" -> 3 [] k = "d" -> 4 [] k = "fbclid" -> 5
      [] k = "https:" -> 6 [] k = "pd_keep" -> 7 [] k = "pd_tag" -> 8 [] k = "sig" -> 9 [] k = "sv" -> 10 [] OTHER -> 11]
Cleaner == INSTANCE CleanLink WITH
    Tracking <- CleanTables.tracking, DenyList <- CleanTables.deny, Wrappers <- CleanTables.wrappers,
    Lower <- [k \in CleanKeys |-> CASE k = "A" -> "a" [] k = "U" -> "u" [] OTHER -> k], Rank <- CleanRank,
    Starts <- {<<"pd_tag", "pd_">>, <<"pd_keep", "pd_">>, <<"pd_keep", "pd_k">>},
    Alpha <- {"com", "uk"}, SecondLevel <- {"co"}

Link(scheme, host, path, query, inside) ==
    [scheme |-> scheme, host |-> host, path |-> path, query |-> query, mark |-> query # <<>>, frag |-> "f", inside |-> inside]
KV(k, v) == [key |-> k, value |-> v]
CleanHosts == {<<"shop", "com">>, <<"shop", "co", "uk">>, <<"shop", "evil", "com">>, <<"shop", "shop", "com">>}
ShortQueries == {<<>>} \cup {<<KV(k, v)>> : k \in CleanKeys, v \in {None, "x"}}
Queries == {<<KV(i, "x"), KV(j, "y"), KV(k, "z")>> : i, j, k \in CleanKeys \ {"u", "U", "d", "sv", "https:"}}
           \cup {<<KV(i, "x"), KV(j, None)>> : i, j \in CleanKeys} \cup ShortQueries
Plain == {Link("https", h, <<"p">>, q, None) : h \in CleanHosts, q \in Queries}
         \cup {Link(s, h, <<>>, q, None) : s \in {"", "mailto"}, h \in {<<>>, <<"shop", "com">>}, q \in ShortQueries}
Encoded(l, n) == [layers |-> n, link |-> l]
Wrap(ls, host, key, layers) ==
    {Link("https", host, p, IF host[1] = "w" THEN <<KV(key, Encoded(l, n))>> ELSE <<>>, Encoded(l, n)) :
        l \in ls, n \in layers, p \in {<<>>, <<"l">>}}
Leaf == {Link("https", <<"shop", "com">>, <<>>, <<KV("fbclid", "x"), KV("a", "y")>>, None),
         Link("", <<"shop", "com">>, <<>>, <<>>, None),
         Link("mailto", <<"shop", "com">>, <<"p">>, <<>>, None)}
Nest1 == Wrap(Leaf, <<"w", "com">>, "u", 0..5) \cup Wrap(Leaf, <<"w", "com">>, "d", 0..2)
         \cup Wrap(Leaf, <<"t", "com">>, "", {1})
Nest2 == Wrap(Nest1, <<"w", "com">>, "u", {1, 5}) \cup Wrap(Nest1, <<"w", "com">>, "d", {1})
Nest4 == Wrap(Wrap(Wrap(Nest1, <<"w", "com">>, "u", {1}), <<"t", "com">>, "", {1}), <<"w", "com">>, "u", {2})
Shim(l) == Link("https", <<"w", "com">>, <<"l">>, <<KV("u", Encoded(l, 1))>>, None)
Nest6 == {Shim(Shim(Shim(Shim(Shim(Shim(Link("https", <<"shop", "com">>, <<>>, <<>>, None)))))))}
BareLinks == {Link("https", <<"h", "com">>, <<>>, q, None) :
            q \in UNION {LET t == KV("https:", Encoded([l EXCEPT !.frag = ""], n))
                         IN  {<<t>>, <<t, KV("a", "y")>>, <<t, KV("fbclid", "x")>>, <<KV("fbclid", "x"), t>>, <<KV("sig", "y"), t>>} :
                         l \in Leaf \cup {Link("https", <<"shop", "com">>, <<>>, <<>>, None)}, n \in 0..1}}
Spelt == {Link("https", <<"w", "com">>, <<"l">>, <<KV(i, Encoded(l, 1)), KV(j, Encoded(m, 1))>>, None) :
            i, j \in {"u", "U"}, l, m \in Leaf}
CleanAsks ==
    [tool : {"clean"}, link : Plain \cup Nest1 \cup Nest2 \cup Nest4 \cup Nest6 \cup BareLinks \cup Spelt,
     opt : [unwrap : BOOLEAN, sort : BOOLEAN, affiliate : BOOLEAN]]

(* Cleaning deletes trackers and nothing else (clean.go:48), and what it   *)
(* cleaned it leaves as it is, unless that moved what a wrapper reads.     *)
CleanHolds == ask # None /\ ask.tool = "clean" =>
    /\ Cleaner!DeletesAndNothingElse(Cleaner!Clean(ask.link, ask.opt), ask.opt)
    /\ Cleaner!CleanIsIdempotent(Cleaner!Clean(ask.link, ask.opt), ask.opt)

-----------------------------------------------------------------------------
(* Headers: two directives a family, every date, one or two cookies, and   *)
(* pastes of five lines.                                                   *)

D(n, v) == [name |-> n, value |-> v]
CC == {D("no-store", None), D("no-cache", None), D("max-age", 5), D("max-age", 9), D("max-age", None), D("s-maxage", 7),
       D("private", None), D("public", None), D("stale-if-error", 3), D("must-revalidate", None)}
Families == {<<>>} \cup {<<d>> : d \in CC} \cup {<<d, e>> : d, e \in CC}
            \cup {<<D("private", None), d, e>> : d, e \in CC}
EdgeFamilies == {<<>>, <<D("max-age", 8)>>, <<D("no-store", None)>>, <<D("stale-if-error", 2)>>}
Cookies == [prefix : {"", "__Host-", "__Secure-"}, secure : BOOLEAN, domain : BOOLEAN, root : BOOLEAN,
            samesite : {"None", "Lax"}, auth : BOOLEAN, httpOnly : BOOLEAN]
Bare == [cc |-> <<>>, cdn |-> <<>>, cf |-> <<>>, surr |-> <<>>, expires |-> "", modified |-> "", age |-> 0,
         vary |-> {}, cors |-> FALSE, encoded |-> FALSE, pragma |-> FALSE, etag |-> "", cookies |-> <<>>,
         type |-> "html", csp |-> {}, frame |-> FALSE, referrer |-> "", permissions |-> "", hsts |-> None,
         nosniff |-> FALSE, coop |-> "", coep |-> ""]
CacheHead(code, cc, cdn, cf, surr, expires) ==
    [Bare EXCEPT !.cc = cc, !.cdn = cdn, !.cf = cf, !.surr = surr, !.expires = expires,
                 !.modified = IF code = 404 THEN "ok" ELSE "", !.age = 4]
CacheAsks ==
    {[tool |-> "cache", code |-> code, head |-> CacheHead(code, cc, cdn, cf, surr, expires)] :
        code \in {0, 200, 404}, cc \in Families, cdn \in EdgeFamilies, cf \in EdgeFamilies \ {<<D("stale-if-error", 2)>>},
        surr \in {<<>>, <<D("max-age", 6)>>}, expires \in {"", "past", "future"}}
SecurityHead(cookie, again, type, csp, hsts, coop, permissions) ==
    [Bare EXCEPT !.cookies = IF again THEN <<cookie, [cookie EXCEPT !.secure = TRUE]>> ELSE <<cookie>>, !.type = type,
                 !.csp = csp, !.hsts = hsts, !.coop = coop, !.coep = "require-corp", !.permissions = permissions]
SecurityAsks ==
    {[tool |-> "security", head |-> SecurityHead(cookie, again, type, csp, hsts, coop, permissions)] :
        cookie \in Cookies, again \in BOOLEAN, type \in {"html", "json"},
        csp \in {{}, {"unsafe-inline", "object-src none"}, {"unsafe-inline", "strict-dynamic", "frame-ancestors"}},
        hsts \in {None, 30}, coop \in {"", "same-origin"}, permissions \in {"legacy", "all"}}
Line(kind, code, name, request) == [kind |-> kind, code |-> code, name |-> name, request |-> request]
Lines == {Line("status", 301, "", FALSE), Line("status", 200, "", FALSE), Line(":status", 200, "", FALSE),
          Line("request line", 0, "", TRUE), Line("header", 0, "Age", FALSE), Line("header", 0, "Vary", FALSE),
          Line("header", 0, "Cookie", TRUE), Line("other", 0, "", FALSE)}
PasteAsks == [tool : {"paste"}, lines : UNION {[1..n -> Lines] : n \in 0..4}]

-----------------------------------------------------------------------------
(* Scores: four genuine browsers, each lied about in two places, from every *)
(* kind of address.                                                         *)

MCOffset == [z \in {"Europe/Paris", "America/Lima"} |-> IF z = "Europe/Paris" THEN 120 ELSE -300]
MCCrawlerASN == [b \in {"Applebot", "GPTBot"} |-> IF b = "Applebot" THEN {"714"} ELSE {}]

UA(name, os) == [name |-> name, os |-> os, major |-> 125, bot |-> FALSE, embedded |-> FALSE, good |-> None]
Curl == [UA("tool", None) EXCEPT !.bot = TRUE]
Apple == [UA("Safari", "macOS") EXCEPT !.bot = TRUE, !.good = "Applebot"]
GPT == [UA("tool", None) EXCEPT !.bot = TRUE, !.good = "GPTBot"]
En == <<"en", "US">>
Silent == [ua |-> None, langs |-> <<>>, cores |-> None, platform |-> None]
Quiet == [egress |-> [public |-> TRUE, v4 |-> TRUE, id |-> 1], zone |-> None, asn |-> None, proxy |-> "", lists |-> {}, count |-> 0]
NoHttp == [ua |-> None, platform |-> None, brands |-> {}, langs |-> <<>>, accept |-> "", sent |-> {}]
OkFlags == {"nativeToStringOK", "native_descriptor_tamper", "native_callnew_tamper", "navigator_proto_tamper",
            "chrome_runtime_tamper", "chrome", "matchMedia", "canvas", "canvasStable", "h264", "aac"}
Genuine(u, platform, engine, js, sub, gpu, touch) ==
    [halves |-> {"client", "headers", "ip", "corpus"}, v |-> 4, ua |-> u, ok |-> OkFlags, bad |-> {}, odd |-> {},
     http |-> [NoHttp EXCEPT !.ua = u, !.platform = platform, !.langs = <<En>>, !.accept = "html",
                             !.sent = {"sec_fetch_missing", "accept_encoding_missing"}],
     ctx |-> [c \in Bot!Contexts |-> IF c = "sw" THEN Silent
                                     ELSE [ua |-> u, langs |-> <<<<"en", "GB">>>>, cores |-> 8, platform |-> platform]],
     langs |-> <<En>>, lang |-> En, cores |-> 8, platform |-> platform, engine |-> engine, jsEngine |-> js,
     chMajor |-> IF engine = "blink" THEN 125 ELSE None, brands |-> {}, vendor |-> IF engine = "blink" THEN "Google" ELSE None,
     appVersion |-> u, productSub |-> sub, gpu |-> gpu, touch |-> touch, tz |-> "Europe/Paris", tzOffset |-> -120,
     net |-> Quiet, webrtc |-> {Quiet.egress, [public |-> TRUE, v4 |-> FALSE, id |-> 2], [public |-> FALSE, v4 |-> TRUE, id |-> 3]},
     reuse |-> 1, churn |-> 1, plugins |-> 5, mimes |-> 2, fonts |-> 9, outerH |-> 900, innerH |-> 800,
     net4 |-> [ect |-> "3g", rtt |-> 400, rate |-> 100]]
Gpu(vendor, family) == [vendor |-> vendor, family |-> family, renderer |-> "r1", worker |-> "r1"]
Browsers ==
    {Genuine(UA("Chrome", "Windows"), "Windows", "blink", "v8", "20030107", Gpu("nvidia", "nvidia"), 0),
     Genuine(UA("Firefox", "Linux"), None, "gecko", "spidermonkey", "20100101", Gpu("intel", None), 0),
     Genuine(UA("Safari", "iOS"), None, "webkit", "jsc", "20030107", Gpu("apple", "apple"), 5),
     Genuine(UA("Chrome", "Android"), "Android", "blink", "v8", "20030107", Gpu(None, "adreno"), 5)}
Blank == [Genuine(None, None, None, None, None, Gpu(None, None), 0) EXCEPT
             !.v = 0, !.ok = {}, !.ctx = [c \in Bot!Contexts |-> Silent], !.langs = <<>>, !.lang = None, !.tz = None,
             !.tzOffset = 0, !.webrtc = {}, !.plugins = 0, !.mimes = 0, !.fonts = 0, !.outerH = 0, !.innerH = 0,
             !.cores = None, !.http = NoHttp, !.appVersion = None, !.gpu = [Gpu(None, None) EXCEPT !.renderer = None, !.worker = None]]

\* One lie each.
Lies(s) ==
    {s} \cup {[s EXCEPT !.bad = {x}] : x \in {"webdriver", "tostring_proxy", "iframe_proxy", "image_broken", "cdpMain", "cdpSW"}}
    \cup {[s EXCEPT !.bad = {"cdpMain", "cdpWorker", "cdpSW"}]}
    \cup {[s EXCEPT !.ok = @ \ {x}] : x \in OkFlags}
    \cup {[s EXCEPT !.ua = u] : u \in {None, Curl, UA("Chrome", "iOS"), UA("Firefox", "macOS")}}
    \cup {[s EXCEPT !.http.ua = u] : u \in {None, Curl, Apple, GPT}}
    \cup {[s EXCEPT !.ctx["sw"].langs = <<<<"fr", "FR">>>>], [s EXCEPT !.ctx["iframe"].cores = 4],
          [s EXCEPT !.tz = "America/Lima"], [s EXCEPT !.tz = "Nowhere"], [s EXCEPT !.gpu.vendor = "apple"], [s EXCEPT !.gpu.renderer = "software"],
          [s EXCEPT !.touch = 0], [s EXCEPT !.plugins = 0, !.mimes = 0, !.fonts = 0], [s EXCEPT !.mimes = 0], [s EXCEPT !.outerH = 0],
          [s EXCEPT !.net4.ect = "4g"], [s EXCEPT !.odd = {"low_color_depth", "default_geometry"}], [s EXCEPT !.langs = <<>>],
          [s EXCEPT !.webrtc = @ \cup {[public |-> TRUE, v4 |-> TRUE, id |-> 4]}], [s EXCEPT !.engine = "webkit", !.jsEngine = "jsc"],
          [s EXCEPT !.http.sent = {}, !.http.accept = "other", !.http.langs = <<>>], [s EXCEPT !.productSub = "20100101"],
          [s EXCEPT !.reuse = 5], [s EXCEPT !.churn = 8], [s EXCEPT !.vendor = "Acme"], [s EXCEPT !.chMajor = 99],
          [s EXCEPT !.lang = <<"de", "DE">>], [s EXCEPT !.brands = {"a"}, !.http.brands = {"b"}]}
    \cup {[s EXCEPT !.halves = h] : h \in SUBSET {"client", "headers", "ip", "corpus"}}
\* The first lie of a pair.
Half(s) == {l \in Lies(s) : l.ua = s.ua /\ l.ok = s.ok /\ l.net4 = s.net4 /\ l.halves = s.halves}
Nets == {Quiet} \cup {[Quiet EXCEPT !.proxy = p] : p \in {"DCH", "TOR", "VPN", "PUB"}}
        \cup {[Quiet EXCEPT !.asn = "714", !.proxy = p, !.lists = {"spamhaus"}] : p \in {"", "DCH"}}
        \cup {[Quiet EXCEPT !.lists = l, !.count = n] : l \in {{"ipsum"}, {"probe"}, {"probe", "ipsum"}}, n \in {0, 2, 3}}
        \cup {[Quiet EXCEPT !.zone = [name |-> z, minutes |-> 60]] : z \in {"", "Europe/Paris", "America/Lima"}}
Crowd == [kept |-> TRUE, read |-> TRUE, hash |-> 1, ip |-> 1,
          seen |-> [hash : 2..8, ip : {1}, recent : {TRUE}] \cup [hash : {1}, ip : 2..5, recent : {FALSE}]]
Asked(s, n) == {[s EXCEPT !.net = n], Bot!Index(Blank, s.http, n), Bot!Check(s, s.http, n, Crowd),
                Bot!Score(s, Blank, s.http, n, {"client", "ip"})}

-----------------------------------------------------------------------------
(* The MCP gate: a stranger, the owner and who mistypes the key, from the  *)
(* same /64 and from others; and results with hidden characters.           *)

Deps == {[up |-> {"ip", "site"}, key |-> k] : k \in {None, "key"}}
Ips == {[family |-> "v4", net |-> 1, host |-> 1], [family |-> "v6", net |-> 1, host |-> 1], [family |-> "junk", net |-> 0, host |-> 0]}
GateAsks == [tool : {"mcp"}, deps : Deps,
             req : [path : {"", "owner", "ip", "mail", "nowhere"}, method : {"GET", "POST"}, json : BOOLEAN,
                    site : {"", "same-origin", "same-site", "cross-site"}, ip : Ips, apiKey : {"", "key", "other"},
                    auth : {None} \cup [scheme : {"bearer", "basic"}, token : {"key", "other"}], body : {"message", "batch"}],
             full : {{}, {<<1>>}, {<<1, 1>>, <<>>}}]
Texts == {<<>>, <<"a">>, <<"hidden">>, <<"a", "hidden">>}
Named == {<<"a">>, <<"hidden">>, Gate!Written}
Key(t) == Gate!KeyStep(t)
Item(i) == Gate!ItemStep(i)
Objects ==
    {(<<Key(k)>> :> t) @@ (<<Key(l)>> :> u) : k, l \in Named, t, u \in Texts}
    \cup {(<<Key(k), Item(1)>> :> t) @@ (<<Key(k), Item(2)>> :> u) @@ (<<Key(l), Item(1)>> :> u) :
            k, l \in Named, t, u \in Texts}
    \cup {(<<Key(k), Item(1), Key(l)>> :> t) @@ (<<Key(k), Item(1), Key(m), Item(1)>> :> u) @@ (<<Key(k), Item(2)>> :> t) :
            k \in {<<"a">>, <<"hidden">>}, l, m \in Named, t, u \in Texts}
Results == [error : {TRUE}, text : UNION {[1..n -> {"a", "hidden"}] : n \in 0..6}, obj : {None}]
           \cup [error : {FALSE}, text : {<<>>}, obj : {None} \cup Objects]
ResultAsks == [tool : {"mcp result"}, result : Results]

-----------------------------------------------------------------------------
(* The rest, whose requests have modules of their own.                     *)

Mail == INSTANCE MailAsks
Cipher == INSTANCE CipherAsks
MCPresets == [p \in {"5m", "7d"} |-> IF p = "5m" THEN 5 ELSE 700]
MCJunk == [len |-> -1, of |-> -1]
MCBin == [c \in 0..9 |-> (c % 5) \div 2]
MCLower == [h \in {"API", "api", "other", ""} |-> IF h = "API" THEN "api" ELSE h]
Dns == INSTANCE DnsAsks

(* A published policy is the nearest, an SPF pass is sound (auth.go:96),   *)
(* a report adds up, a chain is whole, a fix settles (dmarc.go, arc.go).   *)
MailHolds == ask # None => Mail!AuthHolds(ask) /\ Mail!PasteHolds(ask)
(* The DNS report speaks for all types it asked (dns.go:312), and of a     *)
(* zone's servers on evidence only (spread.go:124).                        *)
AnswersHold == ask # None => Dns!AnswerHolds(ask)

-----------------------------------------------------------------------------
Init == ask = None /\ tool \in {"link", "header", "bot", "mcp", "mail", "cipher", "key", "dns"}

Ask(t, S) == ask = None /\ tool = t /\ ask' \in S /\ Request(ask') /\ UNCHANGED tool
AskBot ==
    /\ ask = None /\ tool = "bot"
    /\ \E b \in Browsers :
        \/ \E l \in Half(b) : Ask("bot", [tool : {"bot"}, signals : Lies(l)])
        \/ \E l \in Lies(b), n \in Nets : Ask("bot", [tool : {"bot"}, signals : Asked(l, n)])

Next ==
    \/ Ask("link", CleanAsks)
    \/ Ask("header", CacheAsks) \/ Ask("header", SecurityAsks) \/ Ask("header", PasteAsks)
    \/ AskBot
    \/ Ask("mcp", GateAsks) \/ Ask("mcp", ResultAsks)
    \/ Ask("mail", Mail!SPFAsks) \/ Ask("mail", Mail!DMARCAsks) \/ Ask("mail", Mail!PasteAsks) \/ Ask("mail", Mail!RouteAsks)
    \/ Ask("cipher", Cipher!TokenAsks) \/ Ask("cipher", Cipher!SignAsks)
    \/ Ask("key", Cipher!ProofAsks) \/ Ask("key", Cipher!PkceAsks) \/ Ask("key", Cipher!MacAsks)
    \/ Ask("key", Cipher!KeyAsks) \/ Ask("key", Cipher!CodeAsks)
    \/ Ask("dns", Dns!AnswerAsks) \/ Ask("dns", Dns!SpreadAsks) \/ Ask("dns", Dns!ClimbAsks)
=============================================================================
