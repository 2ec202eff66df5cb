------------------------------ MODULE HeaderReport ------------------------------
(***************************************************************************)
(* linktools' audit of a response's headers: how long a browser and an     *)
(* edge cache may keep it, what is contradictory or unsafe in it, and how  *)
(* pasted headers and a live fetch become one.  A header is a field of h:  *)
(* the cache-control families are sequences of [name, value], where the    *)
(* value is a number or None; a date is "", "bad", "past" or "future".     *)
(***************************************************************************)
EXTENDS Naturals, Sequences, FiniteSets, FiniteSetsExt, SequencesExt

CONSTANT None

\* A future Expires lies so many seconds ahead.
Ahead == 60

-----------------------------------------------------------------------------
(* Caching.                                                                *)

\* parseDirectives: the first value of a name counts.
Has(ds, name) == \E i \in DOMAIN ds : ds[i].name = name
Value(ds, name) == ds[Min({i \in DOMAIN ds : ds[i].name = name})].value

\* lifetime: what does not parse is stale.
Lifetime(v) == IF v = None THEN 0 ELSE v

HeuristicStatus(code) == code \in {200, 203, 204, 206, 300, 301, 308, 404, 405, 410, 414, 501}

\* The edge reads CDN-Cache-Control, and Cloudflare's where that says nothing.
EdgeHas(h, name) == Has(h.cdn, name) \/ Has(h.cf, name)
EdgeValue(h, name) == IF Has(h.cdn, name) THEN Value(h.cdn, name) ELSE Value(h.cf, name)
EdgeSaid(h) == h.cdn # <<>> \/ h.cf # <<>>

\* How long a browser keeps it, and what says so.
Heuristic(code, h) == h.modified \notin {"", "bad"} /\ (code = 0 \/ HeuristicStatus(code) \/ Has(h.cc, "public"))
Browser(code, h) ==
    CASE Has(h.cc, "no-store") -> [ttl |-> 0, from |-> "no-store"]
      [] ~Has(h.cc, "no-store") /\ Has(h.cc, "no-cache") -> [ttl |-> 0, from |-> "no-cache"]
      [] OTHER ->
            CASE Has(h.cc, "max-age") -> [ttl |-> Lifetime(Value(h.cc, "max-age")), from |-> "max-age"]
              [] ~Has(h.cc, "max-age") /\ h.expires # "" ->
                    [ttl |-> IF h.expires = "future" THEN Ahead ELSE 0, from |-> "Expires"]
              [] OTHER -> [ttl |-> 0, from |-> IF Heuristic(code, h) THEN "Last-Modified" ELSE "none"]

\* The edge's sources, each with what it says, the strongest first.
EdgeSources(code, h) ==
    LET alone == ~EdgeSaid(h) /\ h.surr = <<>>
        zero(name) == [ttl |-> 0, from |-> name]
    IN  <<[on |-> EdgeHas(h, "no-store"), says |-> zero("edge no-store")],
          [on |-> Has(h.cc, "no-store") /\ alone, says |-> zero("no-store")],
          [on |-> EdgeHas(h, "max-age"),
           says |-> [ttl |-> IF EdgeHas(h, "max-age") THEN Lifetime(EdgeValue(h, "max-age")) ELSE 0, from |-> "edge max-age"]],
          [on |-> Has(h.cc, "private") /\ alone, says |-> zero("private")],
          [on |-> Has(h.cc, "s-maxage"),
           says |-> [ttl |-> IF Has(h.cc, "s-maxage") THEN Lifetime(Value(h.cc, "s-maxage")) ELSE 0, from |-> "s-maxage"]],
          [on |-> Has(h.surr, "max-age"),
           says |-> [ttl |-> IF Has(h.surr, "max-age") THEN Lifetime(Value(h.surr, "max-age")) ELSE 0, from |-> "surrogate"]],
          [on |-> TRUE, says |-> [Browser(code, h) EXCEPT !.from = "same as browser"]]>>

\* Mutant: s-maxage is read before private is.
EdgeSharedFirst(code, h) ==
    IF Has(h.cc, "s-maxage") THEN [ttl |-> Lifetime(Value(h.cc, "s-maxage")), from |-> "s-maxage"]
    ELSE LET s == EdgeSources(code, h) IN s[Min({i \in DOMAIN s : s[i].on})].says

Edge(code, h) == LET s == EdgeSources(code, h) IN s[Min({i \in DOMAIN s : s[i].on})].says

\* A stale directive of Cache-Control, and of the edge where there is none.
Stale(h, name) ==
    CASE Has(h.cc, name) -> Lifetime(Value(h.cc, name))
      [] ~Has(h.cc, name) /\ EdgeHas(h, name) -> Lifetime(EdgeValue(h, name))
      [] OTHER -> 0

\* What AnalyzeCache finds, with its severity.
CacheNotes(code, h) ==
    LET cc(name) == Has(h.cc, name)
        past == h.expires = "past" /\ cc("max-age")
    IN  {<<"fail", n>> : n \in {x \in {"no-cache immutable", "public cookie", "cors vary"} :
            CASE x = "no-cache immutable" -> cc("no-cache") /\ cc("immutable")
              [] x = "public cookie" -> cc("public") /\ h.cookies # <<>>
              [] x = "cors vary" -> h.cors /\ "Origin" \notin h.vary /\ ~cc("no-store")}}
        \cup {<<"warn", n>> : n \in {x \in {"no-store age", "encoding vary", "error cached", "private shared", "heuristic", "pragma"} :
            CASE x = "no-store age" -> cc("no-store") /\ (cc("max-age") \/ cc("s-maxage"))
              [] x = "encoding vary" -> h.encoded /\ "Accept-Encoding" \notin h.vary /\ ~cc("no-store")
              [] x = "error cached" -> code >= 400 /\ (cc("public") \/ Browser(code, h).ttl > 0)
              [] x = "private shared" -> cc("private") /\ ~EdgeSaid(h) /\ cc("s-maxage")
              [] x = "heuristic" -> Browser(code, h).from = "Last-Modified"
              [] x = "pragma" -> h.pragma /\ h.cc = <<>>}}
        \cup {<<"info", n>> : n \in {x \in {"revalidate", "expires superseded", "weak etag"} :
            CASE x = "revalidate" -> cc("must-revalidate") /\ ~cc("max-age") /\ h.expires = ""
              [] x = "expires superseded" -> past
              [] x = "weak etag" -> h.etag = "weak"}}
        \cup {<<"ok", "dual ttl">> : x \in {y \in {1} : cc("private") /\ EdgeSaid(h)}}

AnalyzeCache(code, h) ==
    [browser |-> Browser(code, h), edge |-> Edge(code, h),
     swr |-> Stale(h, "stale-while-revalidate"), sie |-> Stale(h, "stale-if-error"),
     remaining |-> LET t == Browser(code, h).ttl IN IF t > h.age THEN t - h.age ELSE 0,
     notes |-> CacheNotes(code, h)]

-----------------------------------------------------------------------------
(* Security.                                                               *)

\* isPage: a type that is missing or unknown may be a page.
IsPage(h) == h.type # "json"

\* isolation: the opener policy is read by its prefix.
Isolated(h) == IsPage(h) /\ h.coop \in {"same-origin", "same-origin-allow-popups"} /\ h.coep \in {"require-corp", "credentialless"}

\* parseCookieAudit: the rule of its prefix a cookie breaks, or "".
PrefixError(c) ==
    CASE c.prefix \in {"__Host-", "__Secure-"} /\ ~c.secure -> "not secure"
      [] c.prefix = "__Host-" /\ c.secure /\ c.domain -> "domain"
      [] c.prefix = "__Host-" /\ c.secure /\ ~c.domain /\ ~c.root -> "path"
      [] OTHER -> ""

\* What one cookie earns.
CookieNotes(c) ==
    {<<"fail", n>> : n \in {x \in {"samesite", "prefix"} :
        IF x = "samesite" THEN c.samesite = "None" /\ ~c.secure ELSE PrefixError(c) # ""}}
    \cup {<<"warn", "httponly">> : x \in {y \in {1} : c.auth /\ ~c.httpOnly}}

\* A page is audited for what only matters to one.
PageNotes(h) ==
    {<<"ok", "isolated">> : x \in {y \in {1} : Isolated(h)}}
    \cup {<<"warn", n>> : n \in {x \in {"unsafe-inline", "unsafe-eval", "no csp", "clickjacking"} :
        CASE x = "unsafe-inline" -> {"unsafe-inline"} \subseteq h.csp /\ "strict-dynamic" \notin h.csp
          [] x = "unsafe-eval" -> "unsafe-eval" \in h.csp
          [] x = "no csp" -> h.csp = {}
          [] x = "clickjacking" -> ~h.frame /\ "frame-ancestors" \notin h.csp}}
    \cup {<<"info", n>> : n \in {x \in {"object-src", "referrer"} :
        IF x = "object-src" THEN h.csp # {} /\ "object-src none" \notin h.csp ELSE h.referrer = "permissive"}}

\* What matters to any response.  HSTS is given in days; under 120 it is short.
ResponseNotes(h) ==
    {<<"warn", n>> : n \in {x \in {"feature-policy", "wildcard", "no hsts", "sniff"} :
        CASE x = "feature-policy" -> h.permissions = "legacy"
          [] x = "wildcard" -> h.permissions = "all"
          [] x = "no hsts" -> h.hsts = None
          [] x = "sniff" -> ~h.nosniff}}
    \cup {<<"info", "short-hsts">> : x \in {y \in {1} : h.hsts # None /\ h.hsts < 120}}
AnalyzeSecurity(h) ==
    ResponseNotes(h)
    \cup (UNION {CookieNotes(h.cookies[i]) : i \in DOMAIN h.cookies})
    \cup (IF IsPage(h) THEN PageNotes(h) ELSE {})

-----------------------------------------------------------------------------
(* Where headers come from.                                                *)

\* ParseRawHeaders, line by line: a status line starts a new answer, a request
\* line or header is noted, a :status of HTTP/2 names the code.
Reset(p, line) == [p EXCEPT !.code = line.code, !.headers = <<>>]

ReadLine(p, line) ==
    CASE line.kind = "status" -> Reset(p, line)
      [] line.kind = ":status" -> [p EXCEPT !.code = line.code]
      [] line.kind \in {"request line", "request pseudo"} -> [p EXCEPT !.sent = TRUE]
      [] line.kind = "header" ->
            [p EXCEPT !.sent = p.sent \/ line.request, !.headers = Append(p.headers, line.name)]
      [] OTHER -> p

\* The answer a paste describes, or why it describes none.
ParseRawHeaders(lines) ==
    LET end == FoldLeft(ReadLine, [code |-> 0, headers |-> <<>>, sent |-> FALSE], lines)
    IN  CASE lines = <<>> -> [error |-> "empty"]
          [] lines # <<>> /\ end.sent -> [error |-> "request headers"]
          [] lines # <<>> /\ ~end.sent /\ end.headers = <<>> -> [error |-> "no headers"]
          [] OTHER -> [error |-> "", code |-> end.code, headers |-> end.headers]

\* ProbeHeaders: a refusal is the input's fault, a failure the target's; an ETag
\* on a 200 earns a conditional request, whose failure costs only itself.
Probe(enabled, target, reply, again) ==
    CASE ~enabled -> [error |-> "disabled"]
      [] enabled /\ target = "unreadable" -> [error |-> "input"]
      [] enabled /\ target \in {"blocked address", "blocked port"} -> [error |-> "input"]
      [] enabled /\ target = "allowed" /\ reply.failed -> [error |-> IF reply.refused THEN "input" ELSE "fetch"]
      [] OTHER ->
            [error |-> "", code |-> reply.code,
             etag |-> IF reply.etag /\ reply.code = 200
                      THEN [sent |-> TRUE, revalidated |-> ~again.failed /\ again.code = 304]
                      ELSE [sent |-> FALSE, revalidated |-> FALSE]]

-----------------------------------------------------------------------------
(* What the origin keeps for the browser, or out of every cache, an edge   *)
(* is told to keep only where there is a header meant for edges:           *)
(* Cache-Control by itself never gives a private or no-store response an   *)
(* edge lifetime, whatever else it says.  Where the edge's own header      *)
(* gives a lifetime that is the one; where a header for edges gives none,  *)
(* an s-maxage or max-age of Cache-Control counts even beside private or   *)
(* no-store. (headers_cache.go:170)                                        *)
EdgeHonoursTheOrigin(code, h) ==
    LET c == AnalyzeCache(code, h)
    IN  /\ (Has(h.cc, "private") \/ Has(h.cc, "no-store")) /\ c.edge.ttl > 0
              => EdgeSaid(h) \/ h.surr # <<>>
        /\ EdgeHas(h, "no-store") => c.edge.ttl = 0
        /\ EdgeHas(h, "max-age") /\ ~EdgeHas(h, "no-store") => c.edge.ttl = Lifetime(EdgeValue(h, "max-age"))
        /\ <<"ok", "dual ttl">> \in c.notes => <<"warn", "private shared">> \notin c.notes
        /\ c.remaining <= c.browser.ttl
        /\ \A name \in {"max-age", "s-maxage"} :
              c.browser.ttl > 0 /\ c.browser.from = name =>
                  \E i \in DOMAIN h.cc : /\ h.cc[i] = [name |-> name, value |-> c.browser.ttl]
                                         /\ \A j \in 1..(i - 1) : h.cc[j].name # name

(* A cookie passes exactly when it keeps all its name's prefix promises,   *)
(* and what only matters to a page is never held against data.             *)
(* (headers_security.go:305, 156)                                          *)
SecurityIsFair(h) ==
    LET notes == AnalyzeSecurity(h)
        keeps(c) == /\ c.prefix # "" => c.secure
                    /\ c.prefix = "__Host-" => c.root /\ ~c.domain
    IN  /\ <<"fail", "prefix">> \in notes <=> \E i \in DOMAIN h.cookies : ~keeps(h.cookies[i])
        /\ h.type = "json" => notes \cap PageNotes(h) = {}

(* A paste of several hops is audited as its last answer: the headers of   *)
(* the report are those after the last status line, all of them and in     *)
(* their order, and a request's header on any hop refuses the paste.       *)
(* (headers.go:250, 280)                                                   *)
PasteIsTheLastAnswer(lines) ==
    LET r == ParseRawHeaders(lines)
        own == {i \in DOMAIN lines : /\ lines[i].kind = "header"
                                     /\ \A j \in DOMAIN lines : j > i => lines[j].kind # "status"}
        Place(i) == Cardinality({j \in own : j <= i})
    IN  r.error = "" =>
            /\ Len(r.headers) = Cardinality(own) /\ \A i \in own : r.headers[Place(i)] = lines[i].name
            /\ \A i \in DOMAIN lines : lines[i].kind \notin {"request line", "request pseudo"}
                                       /\ (lines[i].kind = "header" => ~lines[i].request)
=============================================================================
