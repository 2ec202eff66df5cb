------------------------------ MODULE DnsTrace ------------------------------
(***************************************************************************)
(* dnstools.Service.Trace: the walk of a name's delegation from the root,  *)
(* and its check of the DNSSEC chain.  At each zone it asks for the zone's *)
(* keys, then asks the name itself; a referral sends it to the parent for  *)
(* the DS record and down to the child's servers, an authoritative answer  *)
(* ends it, under the keys of the zone that signed the answer if the       *)
(* server holds that one too.  The nameservers are external.               *)
(*                                                                         *)
(* The zones on the name's path are 0 (the root) to Bottom.  A message is  *)
(* who speaks and whether signatures came along; what its records say is   *)
(* read off the world.                                                     *)
(***************************************************************************)
EXTENDS Integers, Sequences, FiniteSets

CONSTANTS Bottom,      \* the zone the name is in
          Servers,
          Delegates,   \* Delegates[z]: the servers z is delegated to, as rotated
          Glueless,    \* servers no referral has a routable address for
          Hostings,    \* which zones each server may be serving
          Signings,    \* how each zone may be signed
          Answers,     \* what the name may hold
          MaxQueries, MaxDepth, MaxServersPerHop, MaxSideLookups

Zones == 0..Bottom
Secure == "secure"
Insecure == "insecure"
Bogus == "bogus"
Unknown == "indeterminate"

ASSUME TraceAssumption ==
    /\ Bottom \in Nat \ {0}
    /\ {MaxQueries, MaxDepth, MaxServersPerHop, MaxSideLookups} \subseteq Nat
    /\ Delegates \in [Zones -> Seq(Servers)] /\ Delegates[0] # <<>>
    /\ Glueless \subseteq Servers
    /\ Hostings \subseteq [Servers -> SUBSET Zones]
    \* nods: keys without a DS; nokeys: a DS without keys; badkeys: no key has the
    \* DS's digest; badsigs: the keys are not validly signed; badds: the DS is not
    /\ Signings \subseteq [Zones -> {"signed", "unsigned", "nods", "nokeys", "badkeys", "badsigs", "badds"}]
    /\ \A g \in Signings : g[0] = "signed"
    \* partly: two RRsets of which one is not signed; foreign: an alias to a name
    \* of another zone; absent: no such record
    /\ Answers \subseteq {"good", "badsig", "partly", "foreign", "absent"}

VARIABLES hosts, signing, answer,  \* the world, which does not change
          w,       \* the walk
          sent,    \* history: queries that left
          unheard  \* history: a query came to nothing, or without its signatures
vars == <<hosts, signing, answer, w, sent, unheard>>
world == <<hosts, signing, answer>>

None == [kind |-> "none"]
Referral(c) == [kind |-> "referral", child |-> c]
Auth(z, sigs) == [kind |-> "auth", by |-> z, sigs |-> sigs]

-----------------------------------------------------------------------------
(* The nameservers.                                                        *)

HasDS(z) == signing[z] \in {"signed", "nokeys", "badkeys", "badsigs", "badds"}
HasKeys(z) == signing[z] \in {"signed", "nods", "badkeys", "badsigs", "badds"}

\* What s answers about zone z: from the deepest zone at or above the one that
\* holds the records, or else a referral.
Reply(s, type, z) ==
    LET owner == CASE type = "name" -> Bottom [] type = "DNSKEY" -> z [] OTHER -> z - 1
        held == {h \in hosts[s] : h <= owner}
        deepest == CHOOSE h \in held : \A g \in held : g <= h
    IN  CASE held # {} /\ deepest = owner -> Auth(owner, HasKeys(owner))
          [] held # {} /\ deepest # owner -> Referral(deepest + 1)
          [] held = {} /\ type = "DS" /\ z \in hosts[s] -> Auth(z, HasKeys(z))
          [] OTHER -> None

-----------------------------------------------------------------------------
(* One query: up to three servers in turn, those that went silent last.    *)

\* The members of T along s.
Within(s, T) ==
    LET f[i \in 0..Len(s)] ==
            IF i = 0 THEN <<>> ELSE IF s[i] \in T THEN Append(f[i - 1], s[i]) ELSE f[i - 1]
    IN  f[Len(s)]

LiveFirst(servers) == Within(servers, Servers \ w.dead) \o Within(servers, w.dead)

Candidates(servers) ==
    LET order == LiveFirst(servers)
    IN  SubSeq(order, 1, IF Len(order) < MaxServersPerHop THEN Len(order) ELSE MaxServersPerHop)

CanSpend == ~w.expired /\ w.queries < MaxQueries

Type == CASE w.pc = "keys" -> "DNSKEY" [] w.pc = "ask" -> "name" [] w.pc = "ds" -> "DS"
Target == IF w.pc = "ds" \/ w.cut THEN w.child ELSE w.zone

\* A whole NOERROR reply; for DS and DNSKEY an authoritative one.
Usable(r) == r.kind = "auth" \/ (r.kind = "referral" /\ Type = "name")

Asking == w.pc \in {"keys", "ask", "ds"} /\ w.left # <<>>

OutOfBudget ==
    /\ Asking /\ ~CanSpend
    /\ w' = [w EXCEPT !.truncated = TRUE, !.left = <<>>]
    /\ UNCHANGED <<world, sent, unheard>>

\* No response: the server is remembered.
Silent ==
    /\ Asking /\ CanSpend
    /\ w' = [w EXCEPT !.queries = @ + 1, !.dead = @ \cup {Head(w.left)}, !.left = Tail(@)]
    /\ sent' = sent + 1
    /\ UNCHANGED <<world, unheard>>

\* A truncated reply, an error, or one without authority.
Useless ==
    /\ Asking /\ CanSpend
    /\ w' = [w EXCEPT !.queries = @ + 1, !.left = Tail(@)]
    /\ sent' = sent + 1
    /\ UNCHANGED <<world, unheard>>

\* The path to the server may strip the signatures.
Answered ==
    /\ Asking /\ CanSpend
    /\ LET r == Reply(Head(w.left), Type, Target) IN
       /\ Usable(r)
       /\ \E kept \in IF r.kind = "auth" /\ r.sigs THEN BOOLEAN ELSE {TRUE} :
          /\ w' = [w EXCEPT !.queries = @ + 1, !.left = <<>>,
                            !.reply = IF kept THEN r ELSE Auth(r.by, FALSE)]
          /\ unheard' = (unheard \/ ~kept)
    /\ sent' = sent + 1
    /\ UNCHANGED world

Heard(pc) == w.pc = pc /\ w.left = <<>>

-----------------------------------------------------------------------------
(* The chain.                                                              *)

LastStatus == w.chain[Len(w.chain)].status

\* Without keys above, the child takes over what the walk knows: nothing, if
\* the link above could not be checked.
Inherited == [set |-> FALSE, status |-> IF LastStatus = Unknown THEN Unknown ELSE Insecure]

\* A DS record is taken if a signature over it verifies under the keys of w.zone.
DSWord(r) ==
    CASE ~r.sigs -> Unknown
      [] r.sigs /\ r.by = w.zone /\ signing[w.child] # "badds" -> ""
      [] OTHER -> Bogus

ShowsDS(r) == r.kind = "auth" /\ r.by = w.child - 1 /\ HasDS(w.child)

\* fetchDS, given the reply to the DS query: the parent's word on the child.
FetchDS(r) ==
    CASE r = None -> [set |-> FALSE, status |-> Unknown]
      [] r # None /\ ~ShowsDS(r) -> [set |-> FALSE, status |-> ""]
      [] r # None /\ ShowsDS(r) -> [set |-> TRUE, status |-> DSWord(r)]

\* validateZone, given the reply to the DNSKEY query.
Status(z, ds, r) ==
    CASE ds.status # "" -> ds.status
      [] ds.status = "" /\ ~ds.set -> Insecure
      [] ds.status = "" /\ ds.set /\ r = None -> Unknown
      [] ds.status = "" /\ ds.set /\ r # None ->
            IF r.kind # "auth" \/ ~HasKeys(z) \/ signing[z] = "badkeys" THEN Bogus
            ELSE IF ~r.sigs THEN Unknown
            ELSE IF signing[z] = "badsigs" THEN Bogus ELSE Secure

Link(z, status) == [zone |-> z, status |-> status]

\* Mutant: only a signer counts.
CutInSigned(r) == r.by # w.zone /\ r.sigs

\* traceAnswerZone: a signer or a SOA names the zone below that owns the answer.
CutIn(r) == r.by # w.zone /\ (r.sigs \/ answer = "absent")

\* The RRsets of the answer, as finish verifies them under the keys of zone z.
RRsets(r, z) ==
    CASE answer = "absent" -> <<>>
      [] answer = "foreign" -> <<IF r.sigs THEN "foreign" ELSE "unsigned">>
      [] answer = "partly" -> <<IF r.sigs THEN IF r.by = z THEN "verified" ELSE "foreign" ELSE "unsigned", "unsigned">>
      [] OTHER -> <<CASE ~r.sigs -> "unsigned"
                      [] r.sigs /\ r.by # z -> "foreign"
                      [] r.sigs /\ r.by = z -> IF answer = "good" THEN "verified" ELSE "failed">>

-----------------------------------------------------------------------------
(* The walk.                                                               *)

Query(walk, pc, servers) == [walk EXCEPT !.pc = pc, !.left = Candidates(servers), !.reply = None]
Stop(walk) == [walk EXCEPT !.pc = "verdict"]

Init ==
    /\ hosts \in Hostings /\ signing \in Signings /\ answer \in Answers
    /\ w = [pc |-> "zone", zone |-> 0, servers |-> Delegates[0],
            ds |-> [set |-> TRUE, status |-> ""],  \* the root anchors
            keys |-> FALSE,      \* validateZone returned the keys of w.zone
            child |-> 0, cut |-> FALSE, next |-> <<>>, todo |-> <<>>,
            left |-> <<>>, reply |-> None, said |-> None,
            hops |-> <<>>, chain |-> <<>>, found |-> "", ended |-> FALSE, dnssec |-> "",
            queries |-> 0, truncated |-> FALSE, dead |-> {}, expired |-> FALSE]
    /\ sent = 0 /\ unheard = FALSE

Expire ==
    /\ w.pc # "done" /\ ~w.expired
    /\ w' = [w EXCEPT !.expired = TRUE]
    /\ UNCHANGED <<world, sent, unheard>>

TooDeep ==
    /\ w.pc = "zone" /\ (w.expired \/ Len(w.hops) = MaxDepth)
    /\ w' = [Stop(w) EXCEPT !.truncated = TRUE]
    /\ UNCHANGED <<world, sent, unheard>>

\* Mutant: one RRset that verifies will do.
JudgedByAny(sets) == IF \E i \in DOMAIN sets : sets[i] = "verified" THEN "verified" ELSE sets[1]

\* The first RRset that does not verify decides.
Judged(sets) ==
    LET bad == {i \in DOMAIN sets : sets[i] # "verified"}
    IN  IF bad = {} THEN "verified" ELSE sets[CHOOSE i \in bad : \A j \in bad : i <= j]

\* finish: the answer is judged under the keys of zone z, if there are any.
Finish(walk, z) ==
    LET sets == RRsets(walk.reply, z)
    IN  [Stop(walk) EXCEPT !.ended = TRUE,
           !.found = CASE sets = <<>> -> "none"
                       [] sets # <<>> /\ ~walk.keys -> "unchecked"
                       [] OTHER -> Judged(sets)]

\* What the walk does with a link: it asks the zone, or judges the answer it has.
AddLink(walk, status) ==
    LET z == IF walk.cut THEN walk.child ELSE walk.zone
        with == [walk EXCEPT !.chain = Append(@, Link(z, status)), !.keys = (status = Secure)]
    IN  IF walk.cut THEN Finish([with EXCEPT !.reply = walk.said], z)
                    ELSE Query(with, "ask", walk.servers)

Validate(walk) == IF walk.ds.status # "" THEN AddLink(walk, walk.ds.status)
                                         ELSE Query(walk, "keys", walk.servers)

EnterZone ==
    /\ w.pc = "zone" /\ ~w.expired /\ Len(w.hops) < MaxDepth
    /\ w' = Validate(w)
    /\ UNCHANGED <<world, sent, unheard>>

Keys ==
    /\ Heard("keys")
    /\ w' = AddLink(w, Status(Target, w.ds, w.reply))
    /\ unheard' = (unheard \/ w.reply = None)
    /\ UNCHANGED <<world, sent>>

\* The referral's servers: those with an address, and the rest to be looked up.
Parent(walk, ds) ==
    LET given == [walk EXCEPT !.ds = ds]
        lacks == Within(Delegates[walk.child], Glueless)
    IN  IF walk.cut THEN Validate(given)
        ELSE [given EXCEPT !.pc = "side",
                !.next = Within(Delegates[walk.child], Servers \ Glueless),
                !.todo = SubSeq(lacks, 1, IF Len(lacks) < MaxSideLookups THEN Len(lacks) ELSE MaxSideLookups)]

Delegate(walk) == IF walk.keys THEN Query(walk, "ds", walk.servers) ELSE Parent(walk, Inherited)

\* Mutant: any referral is followed.
FollowsAny(r) == r.kind = "referral"

\* traceReferral: strictly below and on the name's path, or the delegation is lame.
Follows(r) == r.kind = "referral" /\ r.child \in (w.zone + 1)..Bottom

Ask ==
    /\ Heard("ask")
    /\ LET r == w.reply
           here == [w EXCEPT !.hops = Append(@, w.zone), !.said = r]
       IN  w' = CASE Follows(r) -> Delegate([here EXCEPT !.child = r.child])
                  [] r.kind = "auth" -> IF CutIn(r) THEN Delegate([here EXCEPT !.child = r.by, !.cut = TRUE])
                                                    ELSE Finish(here, w.zone)
                  [] OTHER -> Stop(here)
    /\ unheard' = (unheard \/ ~(w.reply.kind = "auth" \/ Follows(w.reply)))
    /\ UNCHANGED <<world, sent>>

DS ==
    /\ Heard("ds")
    /\ w' = Parent(w, FetchDS(w.reply))
    /\ unheard' = (unheard \/ w.reply = None)
    /\ UNCHANGED <<world, sent>>

\* Mutant: one query is charged for the two of a side lookup.
SideChargeOnce(n) == w.queries + 1

\* A and AAAA are charged apart.
SideCharge(n) == w.queries + n

Seeking == w.pc = "side" /\ w.todo # <<>> /\ Len(w.next) < MaxServersPerHop

SideLookup ==
    /\ Seeking /\ CanSpend /\ w.queries + 1 < MaxQueries
    /\ \E found \in BOOLEAN :
          w' = [w EXCEPT !.queries = SideCharge(2), !.todo = Tail(@),
                         !.next = IF found THEN Append(@, Head(w.todo)) ELSE @]
    /\ sent' = sent + 2
    /\ UNCHANGED <<world, unheard>>

\* The first charge may pass and the second not.
SideOutOfBudget ==
    /\ Seeking /\ ~(CanSpend /\ w.queries + 1 < MaxQueries)
    /\ w' = [w EXCEPT !.truncated = TRUE, !.todo = <<>>, !.queries = IF CanSpend THEN @ + 1 ELSE @]
    /\ UNCHANGED <<world, sent, unheard>>

Descend ==
    /\ w.pc = "side" /\ ~Seeking
    /\ w' = IF w.next = <<>> THEN Stop(w)
            ELSE [w EXCEPT !.pc = "zone", !.zone = w.child, !.servers = w.next, !.todo = <<>>]
    /\ unheard' = (unheard \/ w.next = <<>>)
    /\ UNCHANGED <<world, sent>>

Has(status) == \E i \in DOMAIN w.chain : w.chain[i].status = status

Verdict ==
    /\ w.pc = "verdict"
    /\ w' = [w EXCEPT !.pc = "done", !.dnssec =
          CASE Has(Bogus) \/ w.found = "failed" -> Bogus
            [] OTHER -> IF w.truncated \/ ~w.ended \/ Has(Unknown) THEN Unknown
                        ELSE IF Has(Insecure) THEN Insecure
                        ELSE IF w.found = "verified" THEN Secure ELSE Unknown]
    /\ UNCHANGED <<world, sent, unheard>>

Next ==
    \/ Expire \/ OutOfBudget \/ Silent \/ Useless \/ Answered
    \/ TooDeep \/ EnterZone \/ Keys \/ Ask \/ DS
    \/ SideLookup \/ SideOutOfBudget \/ Descend \/ Verdict

Spec == Init /\ [][Next]_vars

-----------------------------------------------------------------------------
Done == w.pc = "done"

\* The truth about the name: the first link that does not hold decides.
Truth ==
    LET bad == {z \in Zones : signing[z] # "signed"}
        first == CHOOSE z \in bad : \A y \in bad : z <= y
    IN  CASE bad # {} /\ signing[first] \in {"unsigned", "nods"} -> Insecure
          [] bad # {} /\ signing[first] \notin {"unsigned", "nods"} -> Bogus
          [] bad = {} /\ answer = "good" -> Secure
          [] bad = {} /\ answer \in {"badsig", "partly"} -> Bogus
          [] OTHER -> Unknown

Statuses == {Secure, Insecure, Bogus, Unknown}
Messages == {None} \cup [kind : {"referral"}, child : Nat] \cup [kind : {"auth"}, by : Zones, sigs : BOOLEAN]

TypeOK ==
    /\ hosts \in Hostings /\ signing \in Signings /\ answer \in Answers
    /\ w \in [pc : {"zone", "keys", "ask", "ds", "side", "verdict", "done"},
             zone : Zones, child : Zones, cut : BOOLEAN, keys : BOOLEAN,
             servers : Seq(Servers), next : Seq(Servers), todo : Seq(Servers), left : Seq(Servers),
             ds : [set : BOOLEAN, status : Statuses \cup {""}],
             reply : Messages, said : Messages, hops : Seq(Zones),
             chain : Seq([zone : Zones, status : Statuses]),
             found : {"", "none", "unchecked", "verified", "unsigned", "foreign", "failed"},
             ended : BOOLEAN, dnssec : Statuses \cup {""},
             queries : Nat, truncated : BOOLEAN, dead : SUBSET Servers, expired : BOOLEAN]
    /\ sent \in Nat /\ unheard \in BOOLEAN

\* The world in which no referral skips a zone: what a zone is delegated to serves
\* nothing below it, but for the name's own zone beside its parent.
Plain == \A z \in Zones : \A i \in 1..Len(Delegates[z]) : \A d \in hosts[Delegates[z][i]] :
    z < d => d = z + 1 /\ d = Bottom /\ z \in hosts[Delegates[z][i]]

\* "secure" is said of a name only when every link from the root and every
\* record shown verifies, whatever was lost on the way (trace.go:27).
SecureMeansSigned == Done /\ w.dnssec = Secure => Truth = Secure

\* "/trace may print "bogus" only on evidence that the zone itself is at fault"
\* (dnstools/docs/README.md:382): silence, refusals, fragments, stripped signatures and a
\* spent budget never make it say so.
BogusMeansBroken == Done /\ w.dnssec = Bogus => Truth = Bogus

\* "Unchecked is not unsigned" (dnstools/docs/README.md:403): a name is called insecure only
\* if its chain ends in a zone without a DS, not because a link could not be read.
InsecureMeansUnsigned == Done /\ w.dnssec = Insecure => Truth = Insecure

\* The verdict, when the walk gives one, is the truth about the name: "secure"
\* in every world, the others where no referral skips a zone.
VerdictIsTruth == SecureMeansSigned /\ (Plain => BogusMeansBroken /\ InsecureMeansUnsigned)

\* The walk is not cautious for nothing: when every question was answered, with
\* its signatures, by some server, the verdict is the truth.  What it cannot
\* know: whether an answer without signatures is of an unsigned zone on the same
\* server; and it takes one RRset without a signature for that.
HealthyWalkIsRight ==
    LET unmarked == w.hops # <<>> /\ w.hops[Len(w.hops)] # Bottom
                    /\ ~HasKeys(Bottom) /\ answer # "absent"
    IN  Plain /\ Done /\ ~unheard /\ ~w.truncated /\ ~unmarked /\ answer # "partly" => w.dnssec = Truth

\* "Every hop is a packet to a third party's nameserver from a public endpoint, so
\* the walk is capped" (trace.go:101): no more queries leave than the budget has,
\* those to a second server and both of a side lookup counted.
QueriesBounded == sent <= MaxQueries

\* Each zone asked is strictly below the one before, so a walk cannot loop
\* (trace.go:550), whatever a lame server refers it to.
Descends == \A i \in 2..Len(w.hops) : w.hops[i - 1] < w.hops[i]
=============================================================================
