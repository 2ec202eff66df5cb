------------------------------- MODULE AnswerSet -------------------------------
(***************************************************************************)
(* One fan-out of a DNS lookup (src/tools/dnstools/dns.go): a query for    *)
(* each type of a name, what each answer is taken for, and the one report  *)
(* made of those that came back.                                           *)
(*                                                                         *)
(* A name is the sequence of its labels.  What a resolver sends back to a  *)
(* query is [lost, panics, cut, tcp, rcode, ad, ede, nsid, answer, cd]:    *)
(* never arrived, broke the decoder, was truncated, whether TCP then       *)
(* works, the rcode, the AD bit, the extended error and the node named,    *)
(* the records [type, target], and the rcode of a CD=1 retry, None when    *)
(* that fails.                                                             *)
(***************************************************************************)
EXTENDS Integers, Sequences, FiniteSets, SequencesExt

CONSTANTS None,
          MaxLabels,   \* maxNameLabels
          MaxTypes,    \* maxTypesPerRequest
          MaxDangling  \* maxDanglingChecks

Resolvers == {"cloudflare", "google", "quad9"}
DefaultResolver == "cloudflare"
FanoutTypes == <<"A", "AAAA", "CNAME", "MX", "NS", "TXT", "SOA", "CAA", "HTTPS">>
Types == ToSet(FanoutTypes) \cup {"PTR"}

(* A label is [len, hyphen, plain]: its length, a hyphen at an end, and    *)
(* only characters a label may hold.                                       *)
ValidDomain(labels) ==
    /\ Len(labels) \in 1..MaxLabels
    /\ FoldLeft(LAMBDA n, l : n + l.len + 1, -1, labels) <= 253
    /\ \A i \in DOMAIN labels : labels[i].len \in 1..63 /\ ~labels[i].hyphen /\ labels[i].plain

-----------------------------------------------------------------------------
(* One type.                                                               *)

StatusErr(rcode, records) ==
    IF rcode = "NXDOMAIN" THEN "NXDOMAIN" ELSE IF rcode # "NOERROR" THEN rcode
    ELSE IF records = <<>> THEN "NODATA" ELSE "ok"
(* A truncated answer TCP does not complete is a failure, not a short one. *)
Whole(r) == ~r.lost /\ (r.cut => r.tcp)

OfType(answer, type) == SelectSeq(answer, LAMBDA rr : rr.type = type)
NoAnswer(status) == [status |-> status, records |-> <<>>, ad |-> FALSE, signed |-> FALSE, nsid |-> None, ede |-> None, bogus |-> FALSE, chain |-> <<>>]
(* A query asks for one type; other records it brings are set aside.       *)
Exchange(type, r) ==
    LET records == OfType(r.answer, type) IN
    IF r.panics THEN NoAnswer("panic") ELSE IF ~Whole(r) THEN NoAnswer("transport")
    ELSE [status |-> StatusErr(r.rcode, records), records |-> records, ad |-> r.ad, nsid |-> r.nsid, ede |-> r.ede,
          signed |-> OfType(r.answer, "RRSIG") # <<>>, bogus |-> r.rcode = "SERVFAIL" /\ r.cd = "NOERROR",
          chain |-> IF type = "CNAME" THEN <<>> ELSE OfType(r.answer, "CNAME")]

-----------------------------------------------------------------------------
(* The report.                                                             *)

Answered(a) == a.status \in {"ok", "NXDOMAIN", "NODATA"}
(* A filter's NXDOMAIN, with its extended error, is not "no such name".    *)
Absent(a) == a.status = "NXDOMAIN" /\ a.ede = None
Failure(t, a) == [type |-> t, rcode |-> IF a.status \in {"transport", "panic"} THEN "" ELSE a.status,
                  error |-> IF a.status \in {"transport", "panic"} THEN a.status ELSE "",
                  ede |-> a.ede, bogus |-> a.status \in {"SERVFAIL", "REFUSED"} /\ a.bogus]
FirstOf(seq, none) == IF seq = <<>> THEN none ELSE Head(seq)

(* NODATA is normal; only a missing name dangles.  That the probe was      *)
(* blocked is not looked at here.                                          *)
Dangles(a) == a.status = "NXDOMAIN"

(* The first targets worth a probe: aliases found or followed.             *)
Targets(records) ==
    LET alias == SelectSeq(records, LAMBDA rr : rr.type = "CNAME" /\ rr.target # "")
        Once(seen, rr) == IF rr.target \in ToSet(seen) \/ Len(seen) = MaxDangling THEN seen ELSE Append(seen, rr.target)
    IN  FoldLeft(Once, <<>>, alias)

(* A request's types, or None when it is not one: an address asks for its  *)
(* PTR, no type for the usual ones.                                        *)
Requested(req) ==
    LET asked == IF req.address THEN <<"PTR">> ELSE IF req.types = <<>> THEN FanoutTypes ELSE req.types
    IN  IF req.resolver \notin Resolvers \/ (~req.address /\ ~ValidDomain(req.labels)) \/ ~(ToSet(asked) \subseteq Types) THEN None
        ELSE SubSeq(asked, 1, IF Len(asked) < MaxTypes THEN Len(asked) ELSE MaxTypes)

(* w.sent[type] is what the resolver sends back, w.probes[target] what it  *)
(* does for a target's A, w.cached the types our cache answers, w.probed   *)
(* the targets it knows.                                                   *)
LookupSet(req, w) ==
    LET types == Requested(req)
        got == [i \in DOMAIN types |-> Exchange(types[i], w.sent[types[i]])]
        Those(P(_)) == SelectSeq([i \in DOMAIN types |-> i], LAMBDA i : P(got[i]))
        answered == Those(LAMBDA a : Answered(a))
        validated == Those(LAMBDA a : Answered(a) /\ a.ad)
        absent == Those(LAMBDA a : Absent(a))
        failed == Those(LAMBDA a : a.status \notin {"ok", "NODATA"} /\ ~Absent(a))
        found == Those(LAMBDA a : a.status = "ok")
        chain == FirstOf(SelectSeq([i \in DOMAIN types |-> got[i].chain], LAMBDA c : c # <<>>), <<>>)
        targets == Targets(FlattenSeq([i \in DOMAIN found |-> got[found[i]].records]) \o chain)
        Unproven(i) == Answered(got[i]) /\ ~got[i].ad
    IN  IF types = None THEN None
        ELSE [asked |-> Len(types), chain |-> chain,
              found |-> [i \in DOMAIN found |-> types[found[i]]],
              missing |-> {types[i] : i \in {j \in DOMAIN types : got[j].status = "NODATA"}},
              failed |-> [i \in DOMAIN failed |-> Failure(types[failed[i]], got[failed[i]])],
              \* The majority floor: one answer does not speak for a fan-out that mostly failed.
              nxdomain |-> absent # <<>> /\ Len(absent) = Len(answered) /\ 2 * Len(answered) >= Len(types),
              authenticated |-> validated # <<>> /\ Len(validated) = Len(answered),
              unvalidated |-> IF validated = <<>> THEN {} ELSE {types[i] : i \in {j \in DOMAIN types : Unproven(j)}},
              signed |-> \E i \in DOMAIN types : got[i].signed,
              bogus |-> \E i \in DOMAIN failed : Failure(types[failed[i]], got[failed[i]]).bogus,
              nsid |-> FirstOf(SelectSeq([i \in DOMAIN types |-> got[i].nsid], LAMBDA n : n # None), None),
              dangling |-> SelectSeq(targets, LAMBDA t : Dangles(Exchange("A", w.probes[t]))),
              cached |-> ToSet(types) \subseteq w.cached /\ ToSet(targets) \subseteq w.probed]

(* The page's request: every type for "all", the default resolver for none.*)
LookupEnriched(labels, address, type, resolver) ==
    [labels |-> labels, address |-> address, types |-> IF type \in {"", "ALL"} THEN <<>> ELSE <<type>>,
     resolver |-> IF resolver = "" THEN DefaultResolver ELSE resolver]

SameFailure(f, g) == [f EXCEPT !.type = ""] = [g EXCEPT !.type = ""]
(* Types that failed alike, shown once, in the order of the first of each. *)
FailureGroups(failed) ==
    LET heads == SelectSeq([i \in DOMAIN failed |-> i], LAMBDA i : \A j \in 1..i - 1 : ~SameFailure(failed[j], failed[i]))
    IN  [g \in DOMAIN heads |-> SelectSeq(failed, LAMBDA f : SameFailure(f, failed[heads[g]]))]

-----------------------------------------------------------------------------
(* The promise, for a resolver that tells the truth about the types it     *)
(* answers, blocks some with an extended error, and fails others: w.name   *)
(* and w.end say that the name and the end of its alias chain exist,       *)
(* w.published the types with records, w.gone the targets that do not      *)
(* exist.  The report says a name does not exist only if it, or what it is *)
(* an alias of, does not, and then whenever half of the types were         *)
(* answered; a type is missing only if nothing is published under it; AD   *)
(* on every answer, and on one at least, is what "authenticated" means;    *)
(* every type asked is accounted for once, and in one group of failures.   *)
(* A target dangles only if an alias points at it and the resolver said    *)
(* there is none: it is gone, or blocked, which is told of a type but not  *)
(* of a probe; and one that is gone dangles unless its probe was lost, cut *)
(* short or failed (dns.go:312, 395).  r is the report.                    *)
ReportIsTrue(req, w, r) ==
    LET asked == ToSet(Requested(req))
        Tells(reply) == reply.rcode \in {"NOERROR", "NXDOMAIN"} /\ Whole(reply) /\ ~reply.panics
        Blocks(reply) == reply.rcode = "NXDOMAIN" /\ reply.ede # None
        failed == {r.failed[i].type : i \in DOMAIN r.failed}
        told == {t \in asked : Tells(w.sent[t])}
        open == {t \in told : ~Blocks(w.sent[t])}
        aliases == UNION {{rr.target : rr \in {x \in ToSet(w.sent[t].answer) : x.type = "CNAME"}} : t \in told}
        grouped == FlattenSeq(FailureGroups(r.failed))
    IN  r # None =>
            /\ r.nxdomain => ~w.name \/ ~w.end
            /\ ~w.name /\ 2 * Cardinality(told) >= Cardinality(asked) /\ told # {} /\ open = told => r.nxdomain
            /\ r.missing \cap w.published = {}
            /\ ToSet(r.found) = open \cap w.published
            /\ r.authenticated <=> told # {} /\ \A t \in told : w.sent[t].ad
            /\ r.unvalidated # {} => ~r.authenticated /\ r.unvalidated \subseteq told
            /\ failed \cap (r.missing \cup ToSet(r.found)) = {} /\ Len(r.failed) = Cardinality(failed)
            /\ w.end => asked = failed \cup r.missing \cup ToSet(r.found)
            /\ ToSet(r.dangling) \subseteq aliases \cap (w.gone \cup {t \in aliases : Blocks(w.probes[t])})
            /\ Cardinality(aliases) <= MaxDangling => {t \in aliases \cap w.gone : Tells(w.probes[t])} \subseteq ToSet(r.dangling)
            /\ r.bogus <=> \E t \in asked : /\ w.sent[t].rcode = "SERVFAIL" /\ w.sent[t].cd = "NOERROR"
                                            /\ Whole(w.sent[t]) /\ ~w.sent[t].panics
            /\ ToSet(grouped) = ToSet(r.failed) /\ Len(grouped) = Len(r.failed)
=============================================================================
