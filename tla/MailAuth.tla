-------------------------------- MODULE MailAuth --------------------------------
(***************************************************************************)
(* mailtools: what a domain publishes about its mail (SPF, DMARC, DKIM,    *)
(* MTA-STS, BIMI, MX), each record looked up and judged, and the score a   *)
(* health audit gives the whole.  A zone maps a name to its records, in    *)
(* the order the resolver gave them; a name it lacks publishes none, or    *)
(* could not be looked up, which the code does not tell apart.             *)
(***************************************************************************)
EXTENDS Integers, Sequences, FiniteSets, FiniteSetsExt, SequencesExt

CONSTANTS None,
          Vendor, \* MX host -> the gateway whose pattern it holds, for the hosts that hold one
          Fleets  \* the gateways of which one name fronts many machines

Published(zone, name) == IF name \in DOMAIN zone THEN zone[name] ELSE <<>>

-----------------------------------------------------------------------------
(* SPF.  A record is a sequence of terms [q, name, target].                *)

LookupLimit == 10
VoidLimit == 2
MaxIncludes == 15

HasAll(terms) == \E i \in DOMAIN terms : terms[i].name = "all"
\* A redirect is ignored in a record with an all mechanism.
Leads(terms, t) == t.name = "include" \/ (t.name = "redirect" /\ ~HasAll(terms))

\* Mutant: only the record that included this one is remembered.
EnterForgets(path, name) == {name}

Enter(path, name) == path \cup {name}

\* cost, over one record: every include is followed, depth first, from what was
\* found so far.  a.alive include lookups are answered before time runs out; the
\* next fails, and from then on none is tried.
RECURSIVE Cost(_, _, _, _)
Cost(zone, terms, path, found) ==
    LET Follow(a, t) ==
            LET b == [a EXCEPT !.queries = @ + 1]
                sub == IF b.queries <= b.alive THEN Published(zone, t.target) ELSE <<>>
            IN  CASE t.target = None -> a
                  [] t.target \in path -> [a EXCEPT !.loop = TRUE]
                  [] t.target \notin path \cup {None} /\ (a.queries >= MaxIncludes \/ a.queries > a.alive) ->
                        [a EXCEPT !.truncated = TRUE]
                  [] OTHER ->
                        IF t.target = "macro" THEN b
                        ELSE IF sub = <<>> THEN [b EXCEPT !.voids = Append(@, t.target)]
                        ELSE Cost(zone, sub[1], Enter(path, t.target), b)
        Term(a, t) ==
            LET counted == [a EXCEPT !.lookups = @ + 1]
            IN  CASE t.name \in {"a", "mx", "ptr", "exists"} -> counted
                  [] Leads(terms, t) -> Follow(counted, t)
                  [] OTHER -> a
    IN  FoldLeft(Term, found, terms)

\* The last all of the record, with its qualifier.
All(terms) ==
    IF HasAll(terms) THEN terms[Max({i \in DOMAIN terms : terms[i].name = "all"})].q ELSE None

\* verdict: the worst problem counts.
SPFVerdict(r, recs) ==
    LET all == All(recs[1])
    IN  CASE r.loop \/ Len(recs) > 1 \/ r.lookups > LookupLimit \/ Len(r.voids) > VoidLimit -> "fail"
          [] OTHER ->
                CASE r.lookups >= LookupLimit - 2 -> "warn"
                  [] r.lookups < LookupLimit - 2 /\ all = "+" -> "fail"
                  [] r.lookups < LookupLimit - 2 /\ all \in {"-", "~"} -> "pass"
                  [] r.lookups < LookupLimit - 2 /\ all = "?" -> "warn"
                  [] OTHER -> IF \E i \in DOMAIN recs[1] : recs[1][i].name = "redirect" THEN "pass" ELSE "warn"

NoSPF == [lookups |-> 0, queries |-> 0, voids |-> <<>>, loop |-> FALSE, truncated |-> FALSE]
CheckSPF(zone, domain, alive) ==
    LET recs == Published(zone, domain)
        start == NoSPF @@ [alive |-> alive]
        r == Cost(zone, recs[1], {domain}, start)
    IN  IF recs = <<>> THEN start @@ [status |-> "fail"] ELSE r @@ [status |-> SPFVerdict(r, recs)]

-----------------------------------------------------------------------------
(* DMARC.  A name is a sequence of labels, a record [p, sp].               *)

MaxClimb == 4

\* The names asked: the domain and its parents, four at most, none a bare TLD.
Asked(domain) ==
    {SubSeq(domain, k, Len(domain)) : k \in {j \in 1..MaxClimb : j = 1 \/ Len(domain) - j >= 1}}

Policy(rec, inherited) == IF inherited /\ rec.sp # "" THEN rec.sp ELSE rec.p

\* analyzeDMARC.
AnalyzeDMARC(recs, inherited) ==
    LET policy == Policy(recs[1], inherited)
        usable == Len(recs) = 1 /\ recs[1].p # "" /\ policy \in {"reject", "quarantine", "none"}
    IN  [effective |-> IF usable THEN policy ELSE "",
         status |-> CASE ~usable -> "fail" [] usable /\ policy = "none" -> "warn" [] OTHER -> "pass"]

\* checkDMARC: the first name up that publishes anything.
CheckDMARC(zone, domain) ==
    LET asked == {n \in Asked(domain) : Published(zone, n) # <<>>}
        at == CHOOSE n \in asked : \A m \in asked : Len(m) <= Len(n)
    IN  IF asked = {} THEN [effective |-> "", status |-> "fail"]
        ELSE AnalyzeDMARC(Published(zone, at), at # domain)

-----------------------------------------------------------------------------
(* DKIM, MTA-STS, BIMI.                                                    *)

\* checkDKIM: keys maps each common selector to "", "revoked" or "key"; an answer at
\* a made-up selector speaks for all of them.
CheckDKIM(canary, keys) ==
    IF canary # "" THEN [wildcard |-> TRUE, found |-> {}, revoked |-> {}, status |-> "warn"]
    ELSE LET found == {s \in DOMAIN keys : keys[s] = "key"}
         IN  [wildcard |-> FALSE, found |-> found, revoked |-> {s \in DOMAIN keys : keys[s] = "revoked"},
              status |-> IF found = {} THEN "info" ELSE "pass"]

\* checkMTASTS: the policy's last mode counts.
CheckMTASTS(record, fetched, modes) ==
    IF ~record THEN "info"
    ELSE IF fetched /\ modes # <<>> /\ Last(modes) = "enforce" THEN "pass" ELSE "warn"

\* auditBIMI: a logo, and a certificate over HTTPS that names no user.
AuditBIMI(record, vmc, today) ==
    LET readable == vmc.url = "https" /\ vmc.fetched /\ vmc.certs # <<>>
        leaf == IF readable THEN Head(vmc.certs) ELSE None
        errors == IF record.found
                  THEN {e \in {"logo", "url", "fetch", "none", "malformed", "early", "expired", "name"} :
                      CASE e = "logo" -> record.logo = "http"
                        [] e = "url" -> vmc.url \notin {"", "https"}
                        [] e = "fetch" -> vmc.url = "https" /\ ~vmc.fetched
                        [] e = "none" -> vmc.url = "https" /\ vmc.fetched /\ vmc.certs = <<>>
                        [] e = "malformed" -> vmc.url = "https" /\ vmc.fetched /\ vmc.malformed
                        [] e = "early" -> readable /\ today < leaf.from
                        [] e = "expired" -> readable /\ today > leaf.until /\ today >= leaf.from
                        [] e = "name" -> readable /\ ~leaf.covers}
                  ELSE {"record"}
    IN  [found |-> record.found, vmc |-> record.found /\ vmc.url # "", errors |-> errors,
         valid |-> record.found /\ readable /\ errors = {},
         warnings |-> {w \in {"no logo", "no vmc", "soon", "issuer", "logotype"} :
            CASE w = "no logo" -> record.found /\ record.logo = ""
              [] w = "no vmc" -> record.found /\ vmc.url = ""
              [] w = "soon" -> readable /\ errors \cap {"early", "expired"} = {} /\ leaf.until - today < 30
              [] w = "issuer" -> readable /\ ~leaf.accredited
              [] w = "logotype" -> readable /\ ~leaf.logotype}]

-----------------------------------------------------------------------------
(* Mail exchangers, and the score.                                         *)

VendorOf(host) == IF host \in DOMAIN Vendor THEN Vendor[host] ELSE None

\* gatewayAudit, of the exchangers by preference: a single "0 ." refuses all mail,
\* and a backup at another vendor goes round the first one's filter.
Gateway(mx) ==
    LET refuses == Len(mx) = 1 /\ mx[1] = [host |-> "", pref |-> 0]
        first == IF mx = <<>> \/ refuses THEN None ELSE VendorOf(mx[1].host)
    IN  [vendor |-> first, null |-> refuses,
         redundant |-> ~refuses /\ mx # <<>> /\ (Len(mx) > 1 \/ first \in Fleets),
         risk |-> first # None /\ \E i \in 2..Len(mx) : VendorOf(mx[i].host) # first]

\* grade.
Penalty(status) == CASE status = "fail" -> 20 [] status = "warn" -> 5 [] OTHER -> 0
Grade(r) ==
    LET g == Gateway(r.mx)
        lost == (IF r.disposable THEN 60 ELSE 0) + (IF g.risk THEN 15 ELSE 0)
                + Penalty(r.spf) + Penalty(r.dmarc) + 20 * r.listed
                + CASE r.mx = <<>> -> 40 [] g.null -> 50
                    [] r.mx # <<>> /\ ~g.null /\ ~g.redundant -> 10 [] OTHER -> 0
    IN  IF lost > 100 THEN 0 ELSE 100 - lost

-----------------------------------------------------------------------------
\* The records an SPF record leads to, itself first, and the names that lead to none.
Targets(zone, name) ==
    IF Published(zone, name) = <<>> THEN {}
    ELSE LET terms == Published(zone, name)[1]
         IN  {t.target : t \in {u \in Range(terms) : Leads(terms, u)}} \ {None, "macro"}
RECURSIVE Reach(_, _, _)
Reach(zone, names, n) ==
    IF n = 0 THEN names ELSE Reach(zone, names \cup UNION {Targets(zone, m) : m \in names}, n - 1)
Beyond(zone, name) == Reach(zone, Targets(zone, name), Cardinality(DOMAIN zone))
Costly(zone, name) ==
    IF Published(zone, name) = <<>> THEN 0
    ELSE LET terms == Published(zone, name)[1]
         IN  Len(SelectSeq(terms, LAMBDA t : t.name \in {"a", "mx", "ptr", "exists"} \/ Leads(terms, t)))
\* How many other records a record leads to.
Branching(zone, name) ==
    IF Published(zone, name) = <<>> THEN 0
    ELSE Len(SelectSeq(Published(zone, name)[1], LAMBDA t : Leads(Published(zone, name)[1], t)))

(* An SPF verdict over less than the whole record says so: it is marked as *)
(* truncated, which only too little time or a record that fans out makes   *)
(* it, or counts as void an include that publishes a record.  What does    *)
(* not say so is called a loop if an include leads back to a record that   *)
(* is being read, and passes only if a receiver can evaluate it: what it   *)
(* leads to costs ten lookups at most, and at most two of its includes are *)
(* void.  Cut short or not, no loop is called that is none (as where two   *)
(* records include a third), no pass is given to whom all may mail as, and *)
(* no more than fifteen includes are asked.                                *)
(* A domain's DMARC verdict is that of the nearest name that publishes     *)
(* one, a parent's speaking for its children. (auth.go:173, 231, 246)      *)
SPFPassIsSound(zone, domain, alive) ==
    LET r == CheckSPF(zone, domain, alive)
        read == {domain} \cup Beyond(zone, domain)
        loops == \E n \in read : n \in Beyond(zone, n)
        fans == Cardinality(read) > MaxIncludes \/ \E n \in read : Branching(zone, n) > 1
        told == \/ r.truncated /\ (fans \/ r.queries > alive)
                \/ \E i \in DOMAIN r.voids : Published(zone, r.voids[i]) # <<>>
    IN  Published(zone, domain) # <<>> =>
            /\ r.loop => loops
            /\ loops => r.loop \/ told
            /\ r.status = "pass" =>
                  /\ All(zone[domain][1]) # "+"
                  /\ told \/ MapThenSumSet(LAMBDA n : Costly(zone, n), read) <= LookupLimit
                  /\ told \/ Cardinality({n \in read : Published(zone, n) = <<>>}) <= VoidLimit
            /\ r.queries <= MaxIncludes
DMARCIsTheNearest(zone, domain) ==
    LET d == CheckDMARC(zone, domain)
        up(k) == SubSeq(domain, k, Len(domain))
    IN  \A k \in 1..MaxClimb : k <= Len(domain) - 1 /\ Published(zone, up(k)) # <<>>
                                /\ (\A j \in 1..(k - 1) : Published(zone, up(j)) = <<>>) =>
            /\ d.effective = "" <=> d.status = "fail"
            /\ d.effective # "" => d.effective = IF k > 1 /\ zone[up(k)][1].sp # "" THEN zone[up(k)][1].sp
                                                 ELSE zone[up(k)][1].p
=============================================================================
