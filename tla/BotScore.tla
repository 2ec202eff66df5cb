-------------------------------- MODULE BotScore --------------------------------
(***************************************************************************)
(* botcheck: what a browser says of itself, the request's headers and its  *)
(* address, held against each other.  Signals are a record s: s.bad and    *)
(* s.ok are the sets of the payload's flags that are true, where true is   *)
(* damning or reassuring, s.odd the measurements no device has; None and 0 *)
(* are what a field that was not sent binds to.  A user agent is           *)
(* [name, os, major, bot, embedded, good].                                 *)
(***************************************************************************)
EXTENDS Integers, Sequences, FiniteSets, FiniteSetsExt, SequencesExt

CONSTANTS None,
          Offset,     \* time zone -> its offset in minutes east, for the zones that load
          CrawlerASN  \* good bot -> the networks of its operator alone

Contexts == {"worker", "iframe", "sw"}

-----------------------------------------------------------------------------
(* What a user agent claims.                                               *)

\* clientUA: the header stands in for a browser half that was not collected.
ClientUA(s) == IF s.ua # None THEN s.ua ELSE s.http.ua
OS(u) == IF u = None THEN None ELSE u.os
Chromium(u) == u # None /\ u.os # "iOS" /\ u.name \in {"Chrome", "Edge", "Opera"}

\* engineFromUA: every browser of iOS is WebKit.
Engine(u) ==
    CASE OS(u) = "iOS" \/ (u # None /\ u.name = "Safari") -> "webkit"
      [] u # None /\ u.os # "iOS" /\ u.name = "Firefox" -> "gecko"
      [] Chromium(u) -> "blink"
      [] OTHER -> None

\* botUAToken: a browser always sends one.
BotToken(u) == u = None \/ u.bot
LooksLikeBrowser(u) == ~BotToken(u) /\ u.name \in {"Chrome", "Edge", "Opera", "Firefox", "Safari"}

\* matchGoodBot and classifyGoodBot: only the operator's own network verifies the name.
GoodBot(u) == IF u = None THEN None ELSE u.good
Verified(s) == LET b == GoodBot(ClientUA(s)) IN b # None /\ s.net.asn \in CrawlerASN[b]

\* Two values that were both given and differ.
Differ(a, b) == a # None /\ b # None /\ a # b

\* The primary subtag of a list's first language.
Primary(langs) == IF langs = <<>> THEN None ELSE langs[1][1]

-----------------------------------------------------------------------------
(* The rules, as the sets of those that fire.                              *)

HardHits(s) ==
    {x \in {"webdriver", "framework_globals", "bot_user_agent", "native_tamper", "tostring_proxy",
            "software_renderer", "iframe_webdriver", "webdriver_sw"} :
        CASE x = "bot_user_agent" -> BotToken(s.http.ua) \/ GoodBot(s.http.ua) # None \/ GoodBot(s.ua) # None
          [] x = "native_tamper" -> "nativeToStringOK" \notin s.ok
          [] x = "tostring_proxy" -> s.v >= 2 /\ x \in s.bad
          [] x = "software_renderer" -> s.gpu.renderer = "software"
          [] OTHER -> x \in s.bad}

\* A worker, iframe or service worker that says other than the page.
ContextHits(s) ==
    {x \in {"context_ua_mismatch", "context_language_mismatch", "context_cores_mismatch",
            "context_platform_mismatch", "context_webgl_mismatch"} :
        CASE x = "context_ua_mismatch" -> \E c \in Contexts : Differ(s.ctx[c].ua, s.ua)
          [] x = "context_language_mismatch" ->
                \E c \in Contexts : Differ(Primary(s.ctx[c].langs), Primary(s.langs))
          [] x = "context_cores_mismatch" -> \E c \in Contexts : Differ(s.ctx[c].cores, s.cores)
          [] x = "context_platform_mismatch" -> \E c \in Contexts : Differ(s.ctx[c].platform, s.platform)
          [] OTHER -> Differ(s.gpu.renderer, s.gpu.worker)}

\* What it claims in two places.
ClaimHits(s) ==
    LET u == ClientUA(s)
        os == IF OS(s.ua) # None THEN OS(s.ua) ELSE OS(s.http.ua)
    IN  {x \in {"ua_header_mismatch", "ch_platform_mismatch", "ua_os_mismatch", "engine_ua_mismatch",
                "ua_chrome_version_mismatch", "embedded_runtime"} :
            CASE x = "ua_header_mismatch" -> Differ(s.ua, s.http.ua)
              [] x = "ch_platform_mismatch" -> Differ(s.http.platform, s.platform)
              [] x = "ua_os_mismatch" -> Differ(os, s.platform)
              [] x = "engine_ua_mismatch" -> Differ(s.engine, Engine(u))
              [] x = "ua_chrome_version_mismatch" -> Chromium(u) /\ Differ(u.major, s.chMajor)
              [] OTHER -> LET e == IF s.http.ua # None THEN s.http.ua ELSE s.ua IN e # None /\ e.embedded}

\* What is known of the address.  A zone is [name, minutes]: a name, or an offset.
NetworkHits(s) ==
    LET n == s.net
        there == n.zone # None /\ s.tz # None
    IN  {x \in {"tz_mismatch", "datacenter_ip", "proxy_ip", "ip_blocklisted"} :
            CASE x = "tz_mismatch" ->
                    there /\ IF n.zone.name = "" THEN s.tz \in DOMAIN Offset /\ Offset[s.tz] # n.zone.minutes
                                                 ELSE s.tz # n.zone.name
              [] x = "datacenter_ip" -> n.proxy \in {"DCH", "TOR"}
              [] x = "proxy_ip" -> n.proxy \in {"VPN", "PUB"}
              [] OTHER -> n.lists # {} /\ (n.lists \ {"ipsum", "probe"} # {} \/ n.count >= 3)}

\* What contradicts itself.
SelfHits(s) ==
    LET u == ClientUA(s)
        sub == CASE Engine(u) = "gecko" -> "20100101" [] Engine(u) = None -> None [] OTHER -> "20030107"
    IN  {x \in {"permission_impossible", "lang_mismatch", "tz_self_inconsistent", "canvas_unstable", "ch_brands_mismatch",
                "vendor_mismatch", "app_version_mismatch", "productsub_mismatch", "language_primary_mismatch"} :
            CASE x = "permission_impossible" -> x \in s.bad
              [] x = "lang_mismatch" -> Differ(Primary(s.langs), Primary(s.http.langs))
              [] x = "tz_self_inconsistent" -> s.tz \in DOMAIN Offset /\ s.tzOffset # 0 - Offset[s.tz]
              [] x = "canvas_unstable" -> {"canvas", "canvasStable"} \cap s.ok = {"canvas"}
              [] x = "ch_brands_mismatch" -> s.http.brands # {} /\ s.brands # {} /\ s.http.brands # s.brands
              [] x = "vendor_mismatch" -> Chromium(u) /\ Differ(s.vendor, "Google")
              [] x = "app_version_mismatch" -> s.ua # None /\ s.ua.name # "tool" /\ Differ(s.appVersion, s.ua)
              [] x = "productsub_mismatch" -> Differ(s.productSub, sub)
              [] OTHER -> s.langs # <<>> /\ Differ(s.lang, s.langs[1])}

\* What no machine has.  A GPU string's family is None when it says none; of two
\* strings, the family named first here is the machine's.
Families == <<"apple", "nvidia", "amd", "intel", "adreno", "mali">>
Family(gpu) ==
    LET said == {i \in DOMAIN Families : Families[i] \in {gpu.vendor, gpu.family}}
    IN  IF said = {} THEN None ELSE Families[Min(said)]
Impossible(gpu, os) ==
    CASE gpu = "apple" -> os \in {"Windows", "Linux", "Android"}
      [] gpu \in {"nvidia", "amd"} -> os \in {"iOS", "Android"}
      [] gpu \in {"adreno", "mali"} -> os \in {"macOS", "iOS"}
      [] OTHER -> FALSE

HardwareHits(s) ==
    {x \in {"webgl_vendor_mismatch", "gpu_os_mismatch", "iframe_proxy", "mobile_no_touch"} :
        CASE x = "webgl_vendor_mismatch" -> Differ(s.gpu.vendor, s.gpu.family)
          [] x = "gpu_os_mismatch" -> Impossible(Family(s.gpu), OS(ClientUA(s)))
          [] x = "iframe_proxy" -> x \in s.bad
          [] OTHER -> s.v >= 3 /\ OS(ClientUA(s)) \in {"Android", "iOS"} /\ s.touch = 0}

\* Mutant: the payload's age is not asked.
TamperHitsUngated(s) ==
    {x \in {"native_descriptor_tamper", "native_callnew_tamper", "navigator_proto_tamper",
            "chrome_runtime_tamper", "chrome_late_injection"} :
        IF x = "chrome_late_injection" THEN Chromium(ClientUA(s)) /\ x \in s.bad ELSE x \notin s.ok}

\* Natives that are not what the engine ships; soft, for stealth evades them and
\* privacy extensions trip them.
TamperHits(s) ==
    {x \in {"native_descriptor_tamper", "native_callnew_tamper", "navigator_proto_tamper",
            "chrome_runtime_tamper", "chrome_late_injection"} :
        CASE x \in {"native_descriptor_tamper", "native_callnew_tamper"} -> s.v >= 2 /\ x \notin s.ok
          [] x = "navigator_proto_tamper" -> s.v >= 3 /\ x \notin s.ok
          [] x = "chrome_runtime_tamper" -> s.v >= 3 /\ Chromium(ClientUA(s)) /\ x \notin s.ok
          [] OTHER -> Chromium(ClientUA(s)) /\ x \in s.bad}

\* The JS engine, the address WebRTC sees (of the family the egress has), and how
\* many addresses had this fingerprint.
EngineHits(s) ==
    LET js == CASE Engine(ClientUA(s)) = "blink" -> "v8" [] Engine(ClientUA(s)) = "gecko" -> "spidermonkey"
                [] Engine(ClientUA(s)) = "webkit" -> "jsc" [] OTHER -> None
    IN  {x \in {"jsengine_ua_mismatch", "webrtc_ip_mismatch", "fingerprint_reuse"} :
            CASE x = "jsengine_ua_mismatch" -> Differ(s.jsEngine, js)
              [] x = "webrtc_ip_mismatch" ->
                    s.net.egress.public /\ \E c \in s.webrtc : c.public /\ c.v4 = s.net.egress.v4 /\ c # s.net.egress
              [] OTHER -> s.reuse >= 5}

\* What a page can look like in a headless build.
PageHits(s) ==
    {x \in {"ip_probed", "empty_plugins", "empty_languages", "default_geometry", "impossible_window",
            "no_chrome_object", "implausible_hardware", "screen_avail_impossible", "low_color_depth", "sec_fetch_missing", "accept_encoding_missing", "accept_language_missing", "accept_nav_mismatch",
            "canvas_blank", "missing_proprietary_codecs"} :
        CASE x = "ip_probed" -> "probe" \in s.net.lists
          [] x = "empty_plugins" -> s.plugins = 0
          [] x = "empty_languages" -> s.langs = <<>>
          [] x = "no_chrome_object" -> Chromium(ClientUA(s)) /\ "chrome" \notin s.ok
          [] x \in {"sec_fetch_missing", "accept_encoding_missing"} -> LooksLikeBrowser(s.http.ua) /\ x \notin s.http.sent
          [] x = "accept_language_missing" -> LooksLikeBrowser(s.http.ua) /\ s.http.langs = <<>>
          [] x = "accept_nav_mismatch" -> LooksLikeBrowser(s.http.ua) /\ s.http.accept = "other"
          [] x = "canvas_blank" -> "canvas" \in s.ok /\ x \in s.bad
          [] x = "missing_proprietary_codecs" -> LooksLikeBrowser(ClientUA(s)) /\ {"h264", "aac"} \cap s.ok = {}
          [] OTHER -> x \in s.odd}

\* The rank of a connection type, and the best its own round trip and rate allow.
Rank(ect) == CASE ect = "slow-2g" -> 1 [] ect = "2g" -> 2 [] ect = "3g" -> 3 [] ect = "4g" -> 4 [] OTHER -> 0
FromRTT(ms) == CASE ms >= 2050 -> 1 [] ms >= 1450 /\ ms < 2050 -> 2 [] ms >= 320 /\ ms < 1450 -> 3 [] OTHER -> 4
\* The rate in hundredths of a megabit.
FromRate(r) == CASE r < 10 -> 1 [] r >= 10 /\ r < 12 -> 2 [] r >= 12 /\ r < 75 -> 3 [] OTHER -> 4

ProbeHits(s) ==
    LET implied == {FromRTT(r) : r \in {s.net4.rtt} \ {0}} \cup {FromRate(r) : r \in {s.net4.rate} \ {0}}
    IN  {x \in {"no_fonts", "image_broken", "plugins_mimetypes_incoherent", "zero_outer_height", "matchmedia_missing",
                "netinfo_incoherent", "ip_fingerprint_churn", "cdp_both", "cdp_main_only", "cdp_sw_only"} :
            CASE x = "no_fonts" -> s.fonts = 0
              [] x = "image_broken" -> x \in s.bad
              [] x = "plugins_mimetypes_incoherent" -> s.v >= 3 /\ s.plugins > 0 /\ s.mimes = 0
              [] x = "zero_outer_height" -> s.outerH = 0 /\ s.innerH > 0
              [] x = "matchmedia_missing" -> s.v >= 4 /\ LooksLikeBrowser(ClientUA(s)) /\ "matchMedia" \notin s.ok
              [] x = "netinfo_incoherent" -> s.v >= 4 /\ implied # {} /\ Rank(s.net4.ect) > Min(implied)
              [] x = "ip_fingerprint_churn" -> s.churn >= 8
              [] x = "cdp_both" -> {"cdpMain", "cdpWorker"} \subseteq s.bad
              [] x = "cdp_main_only" -> {"cdpMain", "cdpWorker"} \cap s.bad = {"cdpMain"}
              [] OTHER -> {"cdpMain", "cdpWorker", "cdpSW"} \cap s.bad = {"cdpSW"}}

-----------------------------------------------------------------------------
(* The score.                                                              *)

Soft(s) == TamperHits(s) \cup PageHits(s) \cup ProbeHits(s)
Loud(s) == HardHits(s) \cup ContextHits(s) \cup ClaimHits(s) \cup NetworkHits(s) \cup SelfHits(s)
           \cup HardwareHits(s) \cup EngineHits(s)

\* The halves a rule needs.
HeaderRules == {"bot_user_agent", "embedded_runtime", "sec_fetch_missing", "accept_encoding_missing",
                "accept_language_missing", "accept_nav_mismatch"}
AddressRules == {"datacenter_ip", "proxy_ip", "ip_blocklisted", "ip_probed"}
Needs(id) ==
    CASE id \in HeaderRules -> {"headers"}
      [] id \in AddressRules -> {"ip"}
      [] id \in {"ua_header_mismatch", "ch_platform_mismatch", "lang_mismatch", "ch_brands_mismatch"} -> {"client", "headers"}
      [] id \in {"tz_mismatch", "webrtc_ip_mismatch"} -> {"client", "ip"}
      [] id \in {"fingerprint_reuse", "ip_fingerprint_churn"} -> {"client", "corpus"}
      [] OTHER -> {"client"}

Weight(id) ==
    CASE id \in {"webdriver", "framework_globals", "bot_user_agent", "iframe_webdriver", "webdriver_sw"} -> 60
      [] id \in {"native_tamper", "tostring_proxy"} -> 45
      [] id = "software_renderer" -> 40
      [] id \in {"ua_header_mismatch", "context_ua_mismatch"} -> 35
      [] id \in {"ch_platform_mismatch", "ua_os_mismatch", "engine_ua_mismatch", "datacenter_ip", "iframe_proxy"} -> 30
      [] id \in {"context_language_mismatch", "context_cores_mismatch", "context_webgl_mismatch", "proxy_ip",
                 "ch_brands_mismatch", "vendor_mismatch", "productsub_mismatch", "webgl_vendor_mismatch", "mobile_no_touch"} -> 20
      [] id \in {"lang_mismatch", "canvas_unstable", "app_version_mismatch", "language_primary_mismatch"} -> 15
      [] OTHER -> 25

\* What a verified crawler is expected to trip.
Suppressed == {"bot_user_agent", "datacenter_ip", "proxy_ip", "fingerprint_reuse", "ip_blocklisted"}

Fires(s, hits) == {x \in hits : Needs(x) \subseteq s.halves}
SoftCluster(s) == Cardinality(Fires(s, Soft(s))) >= 3

\* Evaluate: the hits, the score and the verdict.  loud are the hits that weigh.
Graded(s, loud) ==
    LET counted == IF Verified(s) THEN loud \ Suppressed ELSE loud
        lost == MapThenSumSet(Weight, counted) + IF SoftCluster(s) THEN 25 ELSE 0
        score == IF lost > 100 THEN 0 ELSE 100 - lost
    IN  [fired |-> loud \cup Fires(s, Soft(s)), score |-> score,
         verdict |-> CASE Verified(s) -> "good-bot"
                       [] ~Verified(s) /\ score >= 80 -> "human"
                       [] ~Verified(s) /\ score < 80 /\ score >= 50 -> "suspicious"
                       [] OTHER -> "bot"]
Evaluate(s) == Graded(s, Fires(s, Loud(s)))

\* Corpus: the sightings it keeps for 30 days, each [hash, ip, recent].
Record(seen, hash, ip) == seen \cup {[hash |-> hash, ip |-> ip, recent |-> TRUE]}
DistinctIPs(seen, hash) == Cardinality({e.ip : e \in {x \in seen : x.hash = hash}})
DistinctHashesByIP(seen, ip) == Cardinality({e.hash : e \in {x \in seen : x.ip = ip /\ x.recent}})

\* addCorpusSignals: this sighting first, whether or not it is kept, then both
\* counts; a corpus that is off, or one read that fails, consults nothing.
AddCorpus(s, corpus) ==
    LET seen == IF corpus.kept THEN Record(corpus.seen, corpus.hash, corpus.ip) ELSE corpus.seen
    IN  IF corpus.read
        THEN [s EXCEPT !.halves = @ \cup {"corpus"}, !.reuse = DistinctIPs(seen, corpus.hash),
                       !.churn = DistinctHashesByIP(seen, corpus.ip)]
        ELSE [s EXCEPT !.reuse = 0, !.churn = 0]

\* check: the browser's payload, the request's headers, what is known of the
\* address, and the corpus.
Check(payload, http, net, corpus) ==
    AddCorpus([payload EXCEPT !.http = http, !.net = net, !.halves = {"client", "headers", "ip"}], corpus)

\* index's JSON answer: no payload, no corpus.
Index(blank, http, net) == [blank EXCEPT !.http = http, !.net = net, !.halves = {"headers", "ip"}]

\* botcheck_score, over what its caller supplied; it never touches the corpus.
Score(payload, blank, http, net, given) ==
    IF given = {} \/ ("client" \in given /\ payload.v < 1) THEN None
    ELSE LET s == IF "client" \in given THEN payload ELSE blank
         IN  [s EXCEPT !.http = IF "headers" \in given THEN http ELSE blank.http,
                       !.net = IF "ip" \in given THEN net ELSE blank.net, !.halves = given]

-----------------------------------------------------------------------------
\* The payload of a collector of version n: what later ones added binds to nothing.
Aged(s, n) ==
    LET before(k, xs) == IF n < k THEN xs ELSE {}
    IN  [s EXCEPT !.v = n,
            !.ok = @ \ (before(2, {"native_descriptor_tamper", "native_callnew_tamper"})
                        \cup before(3, {"navigator_proto_tamper", "chrome_runtime_tamper"}) \cup before(4, {"matchMedia"})),
            !.bad = @ \ (before(2, {"tostring_proxy"}) \cup
                         before(3, {"iframe_webdriver", "iframe_proxy", "webdriver_sw", "cdpSW", "chrome_late_injection", "image_broken"})),
            !.touch = IF n < 3 THEN 0 ELSE @, !.mimes = IF n < 3 THEN 0 ELSE @,
            !.outerH = IF n < 3 THEN 0 ELSE @, !.innerH = IF n < 3 THEN 0 ELSE @,
            !.jsEngine = IF n < 3 THEN None ELSE @, !.webrtc = IF n < 3 THEN {} ELSE @,
            !.net4 = IF n < 4 THEN [ect |-> "", rtt |-> 0, rate |-> 0] ELSE @]

(* A browser that is what it says is never the less so for a collector     *)
(* that was cached: a payload with everything a later version added struck *)
(* out of it fires no rule the whole one did not. (botcheck.go:66, 304)    *)
OldPayloadIsNoEvidence(s, e) == \A n \in 1..s.v : Evaluate(Aged(s, n)).fired \subseteq e.fired

(* One thing seen once is counted once: the address rules split datacenter *)
(* from proxy, the debugger traps the three contexts, and of the rules a   *)
(* verified crawler trips only the listed ones are forgiven, so that any   *)
(* other still costs it its score. (scoring.go:294, 733; botcheck.go:345)  *)
ScoreIsFair(s, e) ==
    LET forgiven == IF e.verdict = "good-bot" THEN Suppressed ELSE {}
        loud == {x \in e.fired : x \in Loud(s)} \ forgiven
    IN  /\ ~({"datacenter_ip", "proxy_ip"} \subseteq e.fired)
        /\ Cardinality({"cdp_both", "cdp_main_only", "cdp_sw_only"} \cap e.fired) <= 1
        /\ e.score = 100 <=> loud = {} /\ Cardinality(e.fired \cap Soft(s)) < 3
        /\ e.verdict = "good-bot" => GoodBot(ClientUA(s)) # None /\ s.net.asn # None
        /\ \A x \in e.fired : Needs(x) \subseteq s.halves
        /\ e.verdict = "human" => loud \cap HardHits(s) = {}
=============================================================================
