------------------------------- MODULE CleanLink -------------------------------
(***************************************************************************)
(* linktools.Service.Clean: unwrap a link, then delete the query pairs its *)
(* rules name and splice the kept ones back as they were written.  A link  *)
(* is a record of its parts; the value of a pair, or what a wrapper keeps  *)
(* in its path, may be another link under layers of percent-encoding.  A   *)
(* pair that is itself the text of a link has the key "https:" and that    *)
(* link for its value.  The tables are data: the rules, the deny list and  *)
(* the wrappers are given.                                                 *)
(***************************************************************************)
EXTENDS Naturals, Sequences, FiniteSets, FiniteSetsExt, SequencesExt

CONSTANTS Tracking,   \* [param, prefix, hosts, class]: the rules, in table order
          DenyList,   \* [param, prefix, hosts]
          Wrappers,   \* [name, hosts, path, shape, params, partial], in table order
          Lower,      \* key -> its lower-case form
          Rank,       \* key -> its place in byte order
          Starts,     \* the pairs <<key, prefix>> of lower-case names
          Alpha,      \* labels that could be a top-level domain
          SecondLevel,\* co, com, ...: labels under which names are registered
          None

MaxUnwrapHops == 5
MaxDecodeRungs == 4

Web(l) == l.scheme \in {"http", "https"} /\ l.host # <<>>

-----------------------------------------------------------------------------
(* Rules and hosts.                                                        *)

\* matchRegistrable: the first place of the label that settles it, settles it.
MatchRegistrable(host, name) ==
    LET at == {i \in DOMAIN host : host[i] = name /\ Len(host) - i \in {1, 2}}
    IN  /\ at # {}
        /\ Last(host) \in Alpha
        /\ Len(host) - Min(at) = 2 => host[Len(host) - 1] \in SecondLevel

\* matchHost: an open pattern is one label and any public suffix; a closed one
\* is a name and everything under it.
MatchHost(host, p) ==
    IF p.open THEN host # <<>> /\ MatchRegistrable(host, p.name[1])
    ELSE host # <<>> /\ IsSuffix(p.name, host)

Covers(entry, host) == entry.hosts = {} \/ \E p \in entry.hosts : MatchHost(host, p)

Names(entry, key) == IF entry.prefix THEN <<key, entry.param>> \in Starts ELSE entry.param = key

\* denyReason, for a lower-case key.
Denied(key, host) == \E d \in DenyList : Names(d, key) /\ Covers(d, host)

\* applies: an affiliate rule only fires when it is asked for.
Applies(r, host, affiliate) == (r.class = "affiliate" => affiliate) /\ Covers(r, host)

\* lookupTracking, past the deny list: exact names before prefixes, each in table order.
RuleFor(key, host, affiliate) ==
    LET fires(prefix) == {i \in DOMAIN Tracking :
                             /\ Tracking[i].prefix = prefix /\ Names(Tracking[i], key)
                             /\ Applies(Tracking[i], host, affiliate)}
    IN  CASE fires(FALSE) # {} -> Tracking[Min(fires(FALSE))]
          [] fires(FALSE) = {} /\ fires(TRUE) # {} -> Tracking[Min(fires(TRUE))]
          [] OTHER -> None

\* Mutant: a rule for the very name beats a deny entry for its family.
LookupBeforeDeny(key, host, affiliate) ==
    IF Denied(Lower[key], host) /\ RuleFor(Lower[key], host, affiliate) = None
    THEN None ELSE RuleFor(Lower[key], host, affiliate)

LookupTracking(key, host, affiliate) ==
    IF Denied(Lower[key], host) THEN None ELSE RuleFor(Lower[key], host, affiliate)

\* TrackingRuleFor: what a bare name says, with no host to go by.
TrackingRuleFor(key) == LookupTracking(key, <<>>, FALSE)

\* Matches: the entries a name is spelled by, whatever the host.
Matches(key) ==
    [tracking |-> {r \in Range(Tracking) : Names(r, Lower[key])},
     never |-> {d \in DenyList : Names(d, Lower[key])}]

-----------------------------------------------------------------------------
(* Unwrapping.  A value is [layers, link]: a link percent-encoded so often,*)
(* or None.                                                                *)

\* percentLadder over absoluteHTTP: it decodes until the value is a web link.
PercentLadder(v) == IF v # None /\ v.layers <= MaxDecodeRungs /\ Web(v.link) THEN v.link ELSE None

\* rawParam: the first wanted name that is there, and of its pairs the first.
RawParam(query, params) ==
    LET at == {<<i, j>> \in (DOMAIN params) \X (DOMAIN query) : Lower[query[j].key] = params[i]}
        best == CHOOSE x \in at : \A y \in at : x[1] < y[1] \/ (x[1] = y[1] /\ x[2] <= y[2])
    IN  IF at = {} THEN None ELSE query[best[2]].value

BareDomain(v) == v # None /\ v.layers <= 1 /\ v.link.scheme = "" /\ Len(v.link.host) > 1 /\ v.link.path = <<>>

\* The whole query as a target: a link where its first pair begins one, and the pairs
\* after that go on with the link's own query, or with its path.
BareQuery(query) ==
    IF query = <<>> \/ query[1].key # "https:" THEN None
    ELSE LET l == query[1].value.link
         IN  [layers |-> query[1].value.layers,
              link |-> IF l.mark THEN [l EXCEPT !.query = @ \o Tail(query)]
                       ELSE [l EXCEPT !.path = IF Len(query) = 1 THEN @ ELSE Append(@, "&")]]

\* applyWrapper.  What a path or an encoded blob holds is in l.inside.
ApplyWrapper(l, w) ==
    LET candidate == CASE w.shape = "param" -> RawParam(l.query, w.params)
                       [] w.shape = "query" -> BareQuery(l.query)
                       [] w.shape = "path" -> l.inside
    IN  IF w.partial /\ BareDomain(candidate)
        THEN [link |-> candidate.link, name |-> w.name, partial |-> TRUE]
        ELSE [link |-> IF w.partial THEN None ELSE PercentLadder(candidate),
              name |-> w.name, partial |-> FALSE]

WrappersFor(l) ==
    SelectSeq(Wrappers, LAMBDA w : IsPrefix(w.path, l.path)
                                   /\ \E p \in w.hosts : MatchHost(l.host, p))

\* unwrapOnce: of the wrappers of this host and path, the first that holds a target.
UnwrapOnce(l) ==
    LET ws == IF l.host = <<>> THEN <<>> ELSE WrappersFor(l)
        hits == {i \in DOMAIN ws : ApplyWrapper(l, ws[i]).link # None}
    IN  IF hits = {} THEN None ELSE ApplyWrapper(l, ws[Min(hits)])

\* unwrapAll: at[n] is what n turns of the loop have made of l; a partial wrapper,
\* a link met before or no wrapper ends it.
UnwrapAll(l) ==
    LET at[n \in 0..MaxUnwrapHops] ==
            IF n = 0 THEN [cur |-> l, seen |-> {l}, names |-> <<>>, partial |-> FALSE, go |-> TRUE]
            ELSE LET b == at[n - 1]
                     o == IF b.go THEN UnwrapOnce(b.cur) ELSE None
                 IN  IF o = None \/ (~o.partial /\ o.link \in b.seen) THEN [b EXCEPT !.go = FALSE]
                     ELSE [cur |-> o.link, seen |-> b.seen \cup {o.link},
                           names |-> Append(b.names, o.name), partial |-> o.partial, go |-> ~o.partial]
        end == at[MaxUnwrapHops]
    IN  [target |-> IF end.names = <<>> THEN None ELSE end.cur, names |-> end.names, partial |-> end.partial]

-----------------------------------------------------------------------------
(* Cleaning.                                                               *)

Keys(query) == {Lower[p.key] : p \in Range(query)}

\* looksSigned: a vendor's signature that covers the other parameters.
LooksSigned(query) ==
    LET ks == Keys(query)
    IN  \/ \E k \in ks : <<k, "x-amz-">> \in Starts \/ <<k, "x-goog-">> \in Starts
        \/ "signature" \in ks /\ ks \cap {"awsaccesskeyid", "key-pair-id", "policy"} # {}
        \/ {"sig", "sv"} \subseteq ks

\* looksSignable: a bare signature, with no vendor to name.
LooksSignable(query) == Keys(query) \cap {"sig", "signature", "hmac", "mac"} # {}

\* SortStableFunc by key: pairs of one name keep their order.
SortByKey(query) ==
    LET before(i, j) == \/ Rank[query[i].key] < Rank[query[j].key]
                        \/ Rank[query[i].key] = Rank[query[j].key] /\ i < j
        place(j) == 1 + Cardinality({i \in DOMAIN query : before(i, j)})
    IN  [n \in DOMAIN query |-> query[CHOOSE j \in DOMAIN query : place(j) = n]]

\* The question mark survives where a query does, or where nothing was removed.
Mark(l, kept, removed) ==
    \/ kept # <<>> /\ ~(Len(kept) = 1 /\ kept[1].key = "" /\ kept[1].value = None)
    \/ l.mark /\ removed = {}

\* Which pairs of the link go, and by which rule.
Removed(l, opt) ==
    {i \in DOMAIN l.query : l.query[i].key # "" /\ LookupTracking(l.query[i].key, l.host, opt.affiliate) # None}

\* What asking for affiliate tags would remove besides.
AffiliateKept(l, opt) ==
    {i \in DOMAIN l.query \ Removed(l, opt) :
        LET r == LookupTracking(l.query[i].key, l.host, TRUE)
        IN  ~opt.affiliate /\ l.query[i].key # "" /\ r # None /\ r.class = "affiliate"}

Kept(query, gone) ==
    FoldLeftDomain(LAMBDA acc, i : IF i \in gone THEN acc ELSE Append(acc, query[i]), <<>>, query)

\* What Clean makes of a link, with what unwrapping found in it.  The answer names
\* the link it went to work on: the target, once unwrapped.
CleanUnwrapped(l, opt, un) ==
    LET taken == opt.unwrap /\ un.target # None /\ ~un.partial
        work == IF taken THEN un.target ELSE l
        signed == LooksSigned(work.query)
        gone == IF signed THEN {} ELSE Removed(work, opt)
        kept == IF opt.sort THEN SortByKey(Kept(work.query, gone)) ELSE Kept(work.query, gone)
    IN  [work |-> work, unwrapped |-> taken, wrapper |-> un.names, removed |-> gone,
         output |-> IF signed THEN work
                    ELSE [work EXCEPT !.query = kept, !.mark = Mark(work, kept, gone)],
         notes |-> {n \in {"domain only", "new host", "wrapper left", "not a link", "scheme",
                           "signed", "sorted", "affiliate kept", "nothing"} :
             CASE n = "domain only" -> opt.unwrap /\ un.partial
               [] n = "new host" -> taken
               [] n = "wrapper left" -> ~opt.unwrap /\ un.target # None
               [] n = "not a link" -> work.scheme = "" /\ work.host = <<>> /\ work.query = <<>>
               [] n = "scheme" -> work.scheme \notin {"", "http", "https"}
               [] n = "signed" -> signed
               [] n = "sorted" -> ~signed /\ opt.sort /\ LooksSignable(work.query)
               [] n = "affiliate kept" -> ~signed /\ AffiliateKept(work, opt) # {}
               [] n = "nothing" -> ~signed /\ gone = {} /\ ~taken /\ Web(work)}]

Clean(l, opt) == CleanUnwrapped(l, opt, UnwrapAll(l))

\* CleanTargetFunc: how the shortener cleans a target it has already judged.
CleanTarget(l) == Clean(l, [unwrap |-> FALSE, sort |-> FALSE, affiliate |-> FALSE])

-----------------------------------------------------------------------------
(* Cleaning deletes pairs and does nothing else: the host, path and        *)
(* fragment are those of the link it worked on, the kept pairs are its     *)
(* own, in their order or, when asked, in order of their keys with equals  *)
(* as they stood; a signed link comes back whole; no pair a deny entry     *)
(* names goes, and an affiliate's only when asked.  c is what Clean said.   *)
(* (clean.go:147, 156)                                                     *)
DeletesAndNothingElse(c, opt) ==
    LET q == c.work.query
        kept == FoldLeftDomain(LAMBDA acc, i : IF i \in c.removed THEN acc ELSE Append(acc, q[i]), <<>>, q)
        of(ps, k) == SelectSeq(ps, LAMBDA p : p.key = k)
    IN  /\ [c.output EXCEPT !.query = q, !.mark = c.work.mark] = c.work
        /\ LooksSigned(q) => c.output = c.work
        /\ Len(c.output.query) = Len(kept)
        /\ \A k \in {p.key : p \in Range(q)} : of(c.output.query, k) = of(kept, k)
        /\ opt.sort \/ c.output.query = kept
        /\ \A i \in c.removed :
              /\ ~\E d \in DenyList : Names(d, Lower[q[i].key]) /\ Covers(d, c.work.host)
              /\ \E r \in Range(Tracking) : /\ Names(r, Lower[q[i].key]) /\ Covers(r, c.work.host)
                                            /\ r.class = "affiliate" => opt.affiliate

(* What the wrappers of a link's host read of it stays as it is when these *)
(* pairs are deleted and the rest sorted or not: it is in the path, or the *)
(* whole query and nothing moves, or parameters that stay, of one spelling *)
(* each if they are sorted.                                                *)
Untouched(l, gone, sort) ==
    \A w \in Range(WrappersFor(l)) :
        LET read == {i \in DOMAIN l.query : Lower[l.query[i].key] \in Range(w.params)}
            spelt(i) == l.query[i].key
        IN  /\ w.shape = "query" => gone = {} /\ ~sort
            /\ w.shape = "param" => read \cap gone = {}
            /\ w.shape = "param" /\ sort =>
                  \A i, j \in read : Lower[spelt(i)] = Lower[spelt(j)] => spelt(i) = spelt(j)

(* Cleaning what was cleaned changes nothing, unless the unwrapping ran    *)
(* out of hops, or deleting and sorting moved what a wrapper reads: there  *)
(* a second pass may unwrap what the first laid bare, as href.li's whole   *)
(* query becomes a link once the tracker before it is gone. (clean.go:48)  *)
CleanIsIdempotent(c, opt) ==
    Len(c.wrapper) < MaxUnwrapHops /\ (opt.unwrap => Untouched(c.work, c.removed, opt.sort)) =>
        Clean(c.output, opt).output = c.output
=============================================================================
