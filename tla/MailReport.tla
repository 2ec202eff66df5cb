------------------------------- MODULE MailReport -------------------------------
(***************************************************************************)
(* mailtools: what a caller pastes or uploads (a DMARC aggregate report, a *)
(* message's ARC headers, a BIMI logo), the DNS blacklists a target is     *)
(* asked of, the lists a domain is classified by, and what each route      *)
(* spends before it runs.                                                  *)
(***************************************************************************)
EXTENDS Integers, Sequences, FiniteSets, FiniteSetsExt, SequencesExt

CONSTANTS None,
          MaxRecords, \* rows a DMARC report may hold (5000 in the code)
          MaxHops,    \* ARC sets a message may hold (50)
          MaxLogo,    \* bytes of a logo (32 KB)
          MinSynced,  \* domains a synced disposable list must hold (5000)
          ESP         \* address -> the provider that sends from it

-----------------------------------------------------------------------------
(* A DMARC aggregate report: rows [ip, count, disposition, dkim, spf].     *)

\* A row without a count stands for one message.
Count(row) == IF row.count < 1 THEN 1 ELSE row.count
Passes(row) == row.dkim = "pass" \/ row.spf = "pass"

Tally(t, row) ==
    [t EXCEPT !.count = @ + Count(row), !.pass = @ + IF Passes(row) THEN Count(row) ELSE 0,
              !.fail = @ + IF Passes(row) THEN 0 ELSE Count(row)]
Total(rows) == FoldLeft(Tally, [count |-> 0, pass |-> 0, fail |-> 0], rows)

\* raw.report: the totals, and the rows rolled up by address and by provider.
Report(rows) ==
    LET ips == {rows[i].ip : i \in DOMAIN rows}
        of(test(_)) == SelectSeq(rows, test)
        acted(d) == of(LAMBDA r : r.disposition = d)
    IN  [total |-> Total(rows),
         quarantined |-> Total(acted("quarantine")).count, rejected |-> Total(acted("reject")).count,
         sources |-> [ip \in ips |-> Total(of(LAMBDA r : r.ip = ip))],
         disposition |-> [ip \in ips |-> of(LAMBDA r : r.ip = ip)[1].disposition],
         spf |-> {ip \in ips : \E i \in DOMAIN rows : rows[i].ip = ip /\ rows[i].spf = "pass"},
         dkim |-> {ip \in ips : \E i \in DOMAIN rows : rows[i].ip = ip /\ rows[i].dkim = "pass"},
         providers |-> [p \in {ESP[ip] : ip \in ips} |->
            Total(of(LAMBDA r : ESP[r.ip] = p)) @@ [sources |-> Cardinality({ip \in ips : ESP[ip] = p})]]]

\* ParseDMARCReport: XML, or XML in gzip, either within its size.
ParseDMARC(file) ==
    IF file.large \/ (file.gzip /\ (file.broken \/ file.expands)) \/ file.malformed \/ Len(file.rows) > MaxRecords
    THEN None ELSE Report(file.rows)

-----------------------------------------------------------------------------
(* ARC headers, in any order: each [name, i, cv, arc].                     *)

Parts == {"seal", "signature", "results"}

Hops(headers) == {headers[k].i : k \in DOMAIN headers} \ {0}
Of(headers, i, part) == SelectSeq(headers, LAMBDA h : h.i = i /\ h.name = part)
\* What a hop's last seal says of the chain it received, and what its results say.
SealCV(headers, i) == LET s == Of(headers, i, "seal") IN IF s = <<>> THEN "" ELSE Last(s).cv
ResultARC(headers, i) == LET s == Of(headers, i, "results") IN IF s = <<>> THEN "" ELSE Last(s).arc

\* The hops are numbered from 1 without a gap: this one has its predecessors.
Consecutive(hops, i) == i = Cardinality({j \in hops : j <= i})

\* What is wrong with hop i.
HopFaults(headers, i) ==
    {f \in {"sequence", "duplicate", "missing", "cv", "arc"} :
        CASE f = "sequence" -> ~Consecutive(Hops(headers), i)
          [] f = "duplicate" -> \E p \in Parts : Len(Of(headers, i, p)) > 1
          [] f = "missing" -> \E p \in Parts : Of(headers, i, p) = <<>>
          [] f = "cv" -> SealCV(headers, i) # IF i = 1 THEN "none" ELSE "pass"
          [] f = "arc" -> ResultARC(headers, i) = "fail"}

\* AnalyzeARC: a header without a usable instance is not of the chain.
AnalyzeARC(headers) ==
    IF Hops(headers) = {} \/ (\E i \in Hops(headers) : i > MaxHops) THEN None
    ELSE [valid |-> \A i \in Hops(headers) : HopFaults(headers, i) = {},
          length |-> Cardinality(Hops(headers)), final |-> SealCV(headers, Max(Hops(headers)))]

-----------------------------------------------------------------------------
(* A BIMI logo: [size, ns, version, profile, box, w, h, bad], where box is *)
(* None or [x, y, w, h], and bad the content no attribute can mend.  A box *)
(* is measured in a unit fine enough for its sides to have whole halves.   *)

Usable(box) == box # None /\ box.w > 0 /\ box.h > 0
Square(box) == Usable(box) /\ box.w = box.h

Fixable(d) == {r \in {"namespace", "version", "profile", "square"} :
    CASE r = "namespace" -> d.ns # "svg" [] r = "version" -> d.version # "1.2"
      [] r = "profile" -> d.profile # "tiny-ps" [] r = "square" -> ~Square(d.box)}
Unfixable(d) == (IF d.size > MaxLogo THEN {"size"} ELSE {}) \cup d.bad

\* squareViewBox: the short side grows about its centre.
SquareViewBox(d) ==
    LET box == IF Usable(d.box) THEN d.box
               ELSE IF d.w > 0 /\ d.h > 0 THEN [x |-> 0, y |-> 0, w |-> d.w, h |-> d.h]
               ELSE [x |-> 0, y |-> 0, w |-> 512, h |-> 512]
        side == Max({box.w, box.h})
    IN  [x |-> box.x - (side - box.w) \div 2, y |-> box.y - (side - box.h) \div 2, w |-> side, h |-> side]

\* fixed: only the root tag is rewritten, which may lengthen it.
Fixed(d) ==
    [d EXCEPT !.ns = "svg", !.version = "1.2", !.profile = "tiny-ps", !.box = SquareViewBox(d),
              !.size = @ + Cardinality(Fixable(d))]

ValidateBIMI(d) ==
    IF d.size > 2 * MaxLogo \/ ~d.parses THEN None
    ELSE [compliant |-> Fixable(d) \cup Unfixable(d) = {}, fails |-> Cardinality(Fixable(d) \cup Unfixable(d)),
          fix |-> IF Fixable(d) = {} THEN None ELSE Fixed(d)]

-----------------------------------------------------------------------------
(* Blacklists.  A code is an address <<a, b, c, d>>; a reading is "listed",*)
(* "notice" or "clean".                                                    *)

\* generic: any loopback answer but the test address is a listing.
Generic(code) ==
    CASE code = <<127, 0, 0, 1>> -> "notice"
      [] code[1] = 127 /\ code # <<127, 0, 0, 1>> -> "listed"
      [] OTHER -> "clean"
Spamhaus(code) ==
    IF code \in {<<127, 0, 0, 10>>, <<127, 0, 0, 11>>, <<127, 255, 255, 254>>, <<127, 255, 255, 255>>}
    THEN "notice" ELSE Generic(code)
Dronebl(code) == IF code[1] = 127 THEN "listed" ELSE "clean"
Spfbl(code) == IF code \in {<<127, 0, 0, 3>>, <<127, 0, 0, 4>>, <<127, 0, 0, 5>>} THEN "notice" ELSE Generic(code)
\* mailspikeRep: a scale, of which only the bad end lists.
Mailspike(code) ==
    LET d == code[4]
    IN  CASE SubSeq(code, 1, 3) = <<127, 0, 0>> /\ d >= 10 /\ d <= 14 -> "listed"
          [] SubSeq(code, 1, 3) = <<127, 0, 0>> /\ d \in {15, 16} -> "notice"
          [] OTHER -> "clean"
\* bitmask: the last octet ORs the sub-lists, whatever the other three say.
Bitmask(code, bits) ==
    CASE code = <<127, 0, 0, 1>> -> "notice"
      [] code # <<127, 0, 0, 1>> /\ (\E b \in bits : (code[4] \div b) % 2 = 1) -> "listed"
      [] OTHER -> "clean"
IpLists == {"spamhaus", "mailspike", "dronebl", "spfbl", "other"}
DomainLists == {"spamhaus", "surbl", "uribl"}
Decode(list, code) ==
    CASE list = "spamhaus" -> Spamhaus(code) [] list = "dronebl" -> Dronebl(code)
      [] list = "spfbl" -> Spfbl(code) [] list = "mailspike" -> Mailspike(code)
      [] list = "uribl" -> Bitmask(code, {2, 4, 8}) [] list = "surbl" -> Bitmask(code, {2, 4, 8, 16, 32, 64, 128})
      [] OTHER -> Generic(code)

\* exchange and ask: the resolvers in turn, until one neither fails nor refuses.
Ask(list, replies) ==
    LET good == {i \in DOMAIN replies : replies[i] \notin {"failed", "refused"}}
    IN  IF good = {} THEN "notice"
        ELSE LET r == replies[Min(good)] IN IF r = <<>> THEN "clean" ELSE Decode(list, r)

\* dnsbl: an address is asked of the address lists; a domain of the domain lists, and
\* its first exchanger's first IPv4 address of the address lists.
Questions(target, mx) ==
    IF target.ip # None THEN IpLists \X {target.ip}
    ELSE (DomainLists \X {target.name})
         \cup IF mx = <<>> \/ Head(mx).v4 = <<>> THEN {} ELSE IpLists \X {Head(Head(mx).v4)}

\* queryDNSBL, over a function from lists to the replies to their question.
QueryDNSBL(asked) ==
    [total |-> Cardinality(DOMAIN asked), listed |-> Cardinality({l \in DOMAIN asked : Ask(l, asked[l]) = "listed"}),
     warned |-> Cardinality({l \in DOMAIN asked : Ask(l, asked[l]) = "notice"})]

\* cachedDNSBL: an entry no older than its TTL answers; a fresh report is kept.
CachedDNSBL(cache, target, fresh) ==
    IF target \in DOMAIN cache THEN [report |-> cache[target], cache |-> cache]
    ELSE [report |-> fresh, cache |-> cache @@ (target :> fresh)]

-----------------------------------------------------------------------------
(* Domain lists.  A name is a sequence of labels, the top level last.      *)

\* firstIn: the name or its nearest parent that the list holds; a top level is never
\* asked of it, unless it is what was asked.
FirstIn(list, name) ==
    LET held == {k \in DOMAIN name : SubSeq(name, k, Len(name)) \in list /\ (k = 1 \/ k < Len(name))}
    IN  IF held = {} THEN <<>> ELSE SubSeq(name, Min(held), Len(name))

\* Classify: the whitelist wins, then disposable over free.
Classify(lists, name) ==
    LET white == FirstIn(lists.white, name) # <<>>
        burner == ~white /\ FirstIn(lists.disposable, name) # <<>>
    IN  [white |-> white, type |-> CASE burner -> "disposable" [] ~burner /\ name \in lists.free -> "freemail"
                                     [] OTHER -> "corporate"]

\* syncDisposableDomains: a short list is refused, and only this list is replaced;
\* the wildcards stay the seed's.
Sync(lists, got) ==
    IF got.ok /\ Cardinality(got.domains) >= MinSynced
    THEN [lists EXCEPT !.disposable = got.domains \cup lists.wildcards] ELSE lists

-----------------------------------------------------------------------------
(* Routes: [path, method, given, bad], where given is the fields that are  *)
(* not blank, and bad whether what they give is no target or no report.    *)

Reads == [health |-> {"domain", "input"}, blacklist |-> {"target", "domain", "ip", "input"}, arc |-> {"headers"},
          disposable |-> {"input", "domain"}, classifier |-> {"input", "domain"}, dmarc |-> {"file", "xml"}, bimi |-> {"file", "svg"}]
         @@ ("dmarc/parse" :> {"file", "xml", "body"}) @@ ("bimi/fix" :> {"svg"}) @@ ("arc/parse" :> {"headers", "body"})
Gives(r) == r.given \cap Reads[r.path] # {}
Audits == {"health", "blacklist"}
Lists == {"disposable", "classifier"}
\* The routes that are posted to alone.
Posted == {"dmarc/parse", "bimi/fix", "arc/parse"}

\* Register: an audit spends the heavy budget and holds a slot unless its input is
\* empty; parsing a report always does; the rest spend the pure one.
Spends(r) ==
    CASE r.path \in Audits -> IF Gives(r) THEN "heavy" ELSE "none"
      [] r.path \in {"dmarc", "dmarc/parse"} /\ r.method = "POST" -> "heavy"
      [] OTHER -> "pure"

\* What the handler runs, when it is let through; a bare body is parsed, an empty one too.
Runs(r) ==
    CASE r.path \in Audits /\ Gives(r) -> "audit"
      [] r.path = "dmarc/parse" \/ (r.path = "dmarc" /\ r.method = "POST" /\ Gives(r)) -> "parse"
      [] r.path \in {"bimi", "bimi/fix", "arc", "arc/parse"} /\ r.method = "POST" /\ Gives(r) -> "check"
      [] r.path \in Lists /\ Gives(r) -> "check"
      [] OTHER -> "nothing"
\* Only the lists know an answer to everything.
Fails(r) == r.path \notin Lists /\ (r.bad \/ ~Gives(r))
Serve(r, budget, slot) ==
    LET heavy == Spends(r) = "heavy"
        through == (budget \/ Spends(r) = "none") /\ (slot \/ ~heavy)
        code == IF Spends(r) # "none" /\ ~budget THEN 429
                ELSE IF ~through THEN 503
                ELSE IF Runs(r) = "nothing" THEN (IF r.method = "GET" THEN 200 ELSE 400)
                ELSE IF Fails(r) THEN 400 ELSE 200
    IN  [code |-> code, ran |-> IF through THEN Runs(r) ELSE "nothing", held |-> heavy /\ through]

-----------------------------------------------------------------------------
(* A report's messages are counted once each way it is cut: by address, by *)
(* provider, and in all, passed and failed alike. (dmarc.go:208)           *)
ReportAddsUp(rows) ==
    LET r == Report(rows)
        over(f, part(_)) == MapThenSumSet(LAMBDA k : part(f[k]), DOMAIN f)
    IN  \A part \in {"count", "pass", "fail"} :
            /\ r.total[part] = over(r.sources, LAMBDA t : t[part])
            /\ r.total[part] = over(r.providers, LAMBDA t : t[part])
            /\ r.total.pass + r.total.fail = r.total.count
            /\ over(r.providers, LAMBDA t : t.sources) = Cardinality(DOMAIN r.sources)
            /\ \A ip \in r.spf \cup r.dkim : r.sources[ip].pass > 0
            /\ r.quarantined + r.rejected <= r.total.count

(* A chain is intact exactly when its headers, in whatever order they      *)
(* stand, are one of each part for every hop from the first to the last,   *)
(* each hop saying it received an intact one. (arc.go:149)                 *)
ARCIsIntact(headers) ==
    LET a == AnalyzeARC(headers)
        chain == SelectSeq(headers, LAMBDA h : h.i > 0)
        whole(n) == /\ Len(chain) = 3 * n
                    /\ \A i \in 1..n, p \in Parts : \E k \in DOMAIN chain : chain[k].i = i /\ chain[k].name = p
                    /\ \A k \in DOMAIN chain :
                          /\ chain[k].name = "seal" => chain[k].cv = IF chain[k].i = 1 THEN "none" ELSE "pass"
                          /\ chain[k].name = "results" => chain[k].arc # "fail"
    IN  a # None => (a.valid <=> whole(a.length))

(* Mending a logo leaves nothing that mending could mend, keeps the centre *)
(* of what it showed and shows no less of it, and touches none of what it  *)
(* cannot mend but its size. (bimi.go:211)                                 *)
FixSettles(d) ==
    LET f == Fixed(d)
    IN  /\ Fixable(f) = {} /\ Fixed(f) = f
        /\ Unfixable(f) \ {"size"} = Unfixable(d) \ {"size"}
        /\ Usable(d.box) => /\ 2 * f.box.x + f.box.w = 2 * d.box.x + d.box.w
                            /\ 2 * f.box.y + f.box.h = 2 * d.box.y + d.box.h
                            /\ f.box.x <= d.box.x /\ f.box.x + f.box.w >= d.box.x + d.box.w
                            /\ f.box.y <= d.box.y /\ f.box.y + f.box.h >= d.box.y + d.box.h

(* Nothing heavy runs that has not paid: every request that starts an      *)
(* audit or parses a report, well or in vain, spent the heavy budget and   *)
(* holds a slot; one that is refused for want of either runs nothing; what *)
(* runs nothing holds a slot only to be told that it gave no report; and a *)
(* view of an audit's page waits for neither. (handler.go:56)              *)
HeavyIsPaid(r) ==
    \A budget, slot \in BOOLEAN :
        LET s == Serve(r, budget, slot)
        IN  /\ s.ran \in {"audit", "parse"} => budget /\ slot /\ s.held
            /\ s.code \in {429, 503} => s.ran = "nothing" /\ ~s.held
            /\ s.held /\ s.ran = "nothing" => s.code = 400 /\ r.path = "dmarc"
            /\ r.method = "GET" /\ r.path \in Audits /\ ~Gives(r) => s.code = 200
=============================================================================
